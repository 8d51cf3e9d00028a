----------------------------- MODULE TimerQueue -----------------------------
(***************************************************************************)
(* muduo::net::TimerQueue: timers kept by expiration (timers_) and by      *)
(* address (activeTimers_), one timerfd armed for the earliest.  The loop  *)
(* thread adds and cancels timers from its handlers and from timer         *)
(* callbacks; another thread does so through runInLoop(), whose queue      *)
(* (FunctorQueue) is pending here.  A Timer lives at an address that is    *)
(* used again once it is deleted: a TimerId is an address and a sequence   *)
(* number.                                                                 *)
(***************************************************************************)
EXTENDS Naturals, Sequences, FiniteSets, FiniteSetsExt

CONSTANTS
  Addrs,                \* addresses of Timer objects, numbers from 1
  Delays, Intervals,    \* arguments of runAfter() and runEvery(); interval 0 is one-shot
  MaxTimers, MaxTime, MaxPending   \* bounds of a model

ASSUME TimerAssumption ==
  /\ Addrs \subseteq Nat \ {0} /\ Delays \subseteq Nat /\ Intervals \subseteq Nat
  /\ IsFiniteSet(Addrs) /\ \E m \in Delays \cup Intervals : \A d \in Delays \cup Intervals : d <= m
  /\ MaxTimers \in Nat /\ MaxTime \in Nat \ {0} /\ MaxPending \in Nat

VARIABLES
  now,                      \* Timestamp::now()
  heap,                     \* the Timer at each address, or Free
  numCreated,               \* Timer::s_numCreated_
  timers_, activeTimers_,   \* sets of <<expiration, address>> and <<address, sequence>>
  callingExpiredTimers_, cancelingTimers_,
  loopPc,                   \* where the loop thread is
  expired, toRun, readAt,   \* handleRead(): the batch, its timers still to run, its now
  timerfd,                  \* when it expires, and whether it is readable
  polled,                   \* the timerfd channel is in activeChannels_
  pending,                  \* calls of other threads on their way to the loop
  adding,                   \* the other thread inside addTimer(): the timer it made
  ids,                      \* the TimerIds callers hold
  ran, cancelled            \* history: timers run, and those cancelInLoop() met

store == <<heap, numCreated>>
sets == <<timers_, activeTimers_>>
batch == <<callingExpiredTimers_, loopPc, expired, toRun, readAt>>
others == <<pending, adding>>
history == <<ran, cancelled>>
tqvars == <<now, store, sets, batch, cancelingTimers_, timerfd, polled, others, ids, history>>

Never == MaxTime + Max(Delays \cup Intervals) + 1   \* timerfd disarmed
Free == [sequence |-> 0, expiration |-> 0, interval |-> 0]
Id(a) == <<a, heap[a].sequence>>
NoId == <<0, 0>>
TimerIds == (Addrs \cup {0}) \X (0 .. MaxTimers)
Times == 0 .. Never
Timers == [sequence : 0 .. MaxTimers, expiration : Times, interval : Intervals \cup {0}]
Calls == {"add", "cancel"} \X TimerIds
Entries == Times \X Addrs

TQTypeOK ==
  /\ now \in 1 .. MaxTime
  /\ heap \in [Addrs -> Timers]
  /\ numCreated \in 0 .. MaxTimers
  /\ timers_ \subseteq Entries /\ activeTimers_ \subseteq TimerIds
  /\ callingExpiredTimers_ \in BOOLEAN /\ cancelingTimers_ \subseteq TimerIds
  /\ loopPc \in {"idle", "batch", "callback"}
  /\ expired \subseteq Entries /\ toRun \subseteq expired /\ readAt \in 0 .. MaxTime
  /\ timerfd \in [expiry : Times, readable : BOOLEAN]
  /\ polled \in BOOLEAN
  /\ pending \in Seq(Calls)
  /\ adding \in TimerIds /\ ids \subseteq TimerIds
  /\ ran \subseteq TimerIds /\ cancelled \subseteq TimerIds

TQInit ==
  /\ now = 1
  /\ heap = [a \in Addrs |-> Free] /\ numCreated = 0
  /\ timers_ = {} /\ activeTimers_ = {}
  /\ callingExpiredTimers_ = FALSE /\ cancelingTimers_ = {}
  /\ loopPc = "idle" /\ expired = {} /\ toRun = {} /\ readAt = 0
  /\ timerfd = [expiry |-> Never, readable |-> FALSE] /\ polled = FALSE
  /\ pending = <<>> /\ adding = NoId /\ ids = {}
  /\ ran = {} /\ cancelled = {}

-----------------------------------------------------------------------------
(* new Timer(cb, now + delay, interval) at a free address. *)
NewTimer(a, delay, interval) ==
  /\ heap[a] = Free
  /\ numCreated < MaxTimers
  /\ numCreated' = numCreated + 1
  /\ heap' = [heap EXCEPT ![a] = [sequence |-> numCreated + 1,
                                  expiration |-> now + delay, interval |-> interval]]

(* resetTimerfd(): an expiration that has passed fires at once; setting    *)
(* the timerfd forgets an expiry that was not read yet.                    *)
ResetTimerfd(when) ==
  [expiry |-> IF when > now THEN when ELSE now, readable |-> FALSE]

(* A bug: insert() takes the timer with the latest expiration for the      *)
(* earliest.                                                               *)
AddTimerInLoop_Latest(a, timer) ==
  /\ timers_' = timers_ \cup {<<timer.expiration, a>>}
  /\ activeTimers_' = activeTimers_ \cup {<<a, timer.sequence>>}
  /\ timerfd' = IF \A e \in timers_ : timer.expiration > e[1]
                THEN ResetTimerfd(timer.expiration) ELSE timerfd

(* addTimerInLoop() with insert(): the timerfd is set when the new timer   *)
(* is earlier than all others.                                             *)
AddTimerInLoop(a, timer) ==
  /\ timers_' = timers_ \cup {<<timer.expiration, a>>}
  /\ activeTimers_' = activeTimers_ \cup {<<a, timer.sequence>>}
  /\ timerfd' = IF \A e \in timers_ : timer.expiration < e[1]
                THEN ResetTimerfd(timer.expiration) ELSE timerfd

(* activeTimers_.find() *)
Find(id) == activeTimers_ \cap {id}

(* A bug: cancelling the timer whose callback is running does nothing. *)
CancelInLoop_NotSelf(id) ==
  /\ timers_' = timers_ \ {<<heap[t[1]].expiration, t[1]>> : t \in Find(id)}
  /\ activeTimers_' = activeTimers_ \ Find(id)
  /\ heap' = [a \in Addrs |-> IF \E t \in Find(id) : t[1] = a THEN Free ELSE heap[a]]
  /\ cancelled' = IF id \in activeTimers_ \cup {Id(e[2]) : e \in expired}
                  THEN cancelled \cup {id} ELSE cancelled
  /\ UNCHANGED <<numCreated, cancelingTimers_>>

(* cancelInLoop(): an active timer is deleted; during the callbacks the id *)
(* is kept for reset().  The code reads it->first after                    *)
(* activeTimers_.erase(it): the model has what the erased node held, which *)
(* is what the allocator leaves there as long as nothing is allocated.     *)
CancelInLoop(id) ==
  /\ timers_' = timers_ \ {<<heap[t[1]].expiration, t[1]>> : t \in Find(id)}
  /\ activeTimers_' = activeTimers_ \ Find(id)
  /\ heap' = [a \in Addrs |-> IF \E t \in Find(id) : t[1] = a THEN Free ELSE heap[a]]
  /\ cancelingTimers_' = IF Find(id) = {} /\ callingExpiredTimers_
                         THEN cancelingTimers_ \cup {id} ELSE cancelingTimers_
  /\ cancelled' = IF id \in activeTimers_ \cup {Id(e[2]) : e \in expired}
                  THEN cancelled \cup {id} ELSE cancelled
  /\ UNCHANGED numCreated

-----------------------------------------------------------------------------
(* Calls of the loop thread, from a handler or from a timer callback:      *)
(* runInLoop() makes them at once.                                         *)
LoopMayCall == loopPc \in {"idle", "callback"}

AddTimer ==
  /\ LoopMayCall
  /\ \E a \in Addrs, delay \in Delays, interval \in Intervals :
       /\ NewTimer(a, delay, interval)
       /\ AddTimerInLoop(a, heap'[a])
       /\ ids' = ids \cup {<<a, heap'[a].sequence>>}
  /\ UNCHANGED <<now, batch, cancelingTimers_, polled, others, history>>

Cancel ==
  /\ LoopMayCall
  /\ \E id \in ids : CancelInLoop(id)
  /\ UNCHANGED <<now, batch, timerfd, polled, others, ids, ran>>

(* addTimer() by another thread: the timer is handed to the loop, then its *)
(* sequence number is read for the TimerId that is returned.               *)
OtherAddTimer ==
  /\ adding = NoId
  /\ Len(pending) < MaxPending
  /\ \E a \in Addrs, delay \in Delays, interval \in Intervals :
       /\ NewTimer(a, delay, interval)
       /\ adding' = <<a, numCreated + 1>>
       /\ pending' = Append(pending, <<"add", <<a, numCreated + 1>>>>)
  /\ UNCHANGED <<now, sets, batch, cancelingTimers_, timerfd, polled, ids, history>>

(* A Timer that is gone by then leaves any number to be read. *)
OtherAddTimerReturn ==
  /\ adding # NoId
  /\ \E s \in IF heap[adding[1]] = Free THEN {0, adding[2]} ELSE {heap[adding[1]].sequence} :
       ids' = ids \cup {<<adding[1], s>>}
  /\ adding' = NoId
  /\ UNCHANGED <<now, store, sets, batch, cancelingTimers_, timerfd, polled, pending, history>>

OtherCancel ==
  /\ adding = NoId
  /\ Len(pending) < MaxPending
  /\ \E id \in ids : pending' = Append(pending, <<"cancel", id>>)
  /\ UNCHANGED <<now, store, sets, batch, cancelingTimers_, timerfd, polled, adding, ids, history>>

(* doPendingFunctors() runs the oldest call of another thread. *)
PendingAdd ==
  /\ loopPc = "idle"
  /\ pending # <<>> /\ Head(pending)[1] = "add"
  /\ pending' = Tail(pending)
  /\ LET a == Head(pending)[2][1] IN AddTimerInLoop(a, heap[a])
  /\ UNCHANGED <<now, store, batch, cancelingTimers_, polled, adding, ids, history>>

PendingCancel ==
  /\ loopPc = "idle"
  /\ pending # <<>> /\ Head(pending)[1] = "cancel"
  /\ pending' = Tail(pending)
  /\ CancelInLoop(Head(pending)[2])
  /\ UNCHANGED <<now, batch, timerfd, polled, adding, ids, ran>>

-----------------------------------------------------------------------------
(* Time passes, up to the bound. *)
Tick ==
  /\ now < MaxTime
  /\ now' = now + 1
  /\ UNCHANGED <<store, sets, batch, cancelingTimers_, timerfd, polled, others, ids, history>>

(* The timerfd expires, possibly early: it runs on another clock than      *)
(* Timestamp::now().                                                       *)
TimerfdExpire ==
  /\ timerfd.expiry < Never
  /\ timerfd' = [expiry |-> Never, readable |-> TRUE]
  /\ UNCHANGED <<now, store, sets, batch, cancelingTimers_, polled, others, ids, history>>

TimerfdExpireDue == timerfd.expiry <= now /\ TimerfdExpire

(* poll() reports the timerfd; handlers of other channels may come first. *)
PollTimerfd ==
  /\ loopPc = "idle"
  /\ timerfd.readable /\ ~polled
  /\ polled' = TRUE
  /\ UNCHANGED <<now, store, sets, batch, cancelingTimers_, timerfd, others, ids, history>>

(* getExpired(): the sentry compares greater than any timer that expires   *)
(* now.                                                                    *)
Expired == {e \in timers_ : e[1] <= now}

(* handleRead() up to the first callback: readTimerfd() and getExpired(). *)
HandleRead ==
  /\ loopPc = "idle" /\ polled
  /\ polled' = FALSE
  /\ timerfd' = [timerfd EXCEPT !.readable = FALSE]
  /\ readAt' = now
  /\ expired' = Expired /\ toRun' = Expired
  /\ timers_' = timers_ \ Expired
  /\ activeTimers_' = activeTimers_ \ {Id(e[2]) : e \in Expired}
  /\ callingExpiredTimers_' = TRUE
  /\ cancelingTimers_' = {}
  /\ loopPc' = "batch"
  /\ UNCHANGED <<now, store, others, ids, history>>

(* The batch is ordered by expiration, then by address. *)
Before(d, e) == d[1] < e[1] \/ (d[1] = e[1] /\ d[2] < e[2])

RunTimer ==
  /\ loopPc = "batch"
  /\ \E e \in toRun :
       /\ \A d \in toRun \ {e} : Before(e, d)
       /\ toRun' = toRun \ {e}
       /\ ran' = ran \cup {Id(e[2])}
  /\ loopPc' = "callback"
  /\ UNCHANGED <<now, store, sets, callingExpiredTimers_, expired, readAt, cancelingTimers_,
                 timerfd, polled, others, ids, cancelled>>

CallbackReturn ==
  /\ loopPc = "callback"
  /\ loopPc' = "batch"
  /\ UNCHANGED <<now, store, sets, callingExpiredTimers_, expired, toRun, readAt,
                 cancelingTimers_, timerfd, polled, others, ids, history>>

(* Timer::restart(), with the time handleRead() read before the callbacks. *)
Restart(timer) == [timer EXCEPT !.expiration = readAt + timer.interval]

(* The timers of the batch that reset() restarts. *)
Restarted == {e \in expired : heap[e[2]].interval > 0 /\ Id(e[2]) \notin cancelingTimers_}

(* A bug: the timerfd is set again only when the batch restarts a timer. *)
NextExpire_BatchOnly(entries) ==
  IF Restarted = {} THEN timerfd ELSE ResetTimerfd(Min({e[1] : e \in entries}))

(* The timerfd after reset(): armed for the earliest timer, if any. *)
NextExpire(entries) ==
  IF entries = {} THEN timerfd ELSE ResetTimerfd(Min({e[1] : e \in entries}))

(* The end of handleRead(): reset() restarts or deletes the timers of the  *)
(* batch and sets the timerfd.                                             *)
Reset ==
  /\ loopPc = "batch" /\ toRun = {}
  /\ heap' = [a \in Addrs |->
                IF \E e \in Restarted : e[2] = a
                THEN Restart(heap[a])
                ELSE IF \E e \in expired : e[2] = a THEN Free ELSE heap[a]]
  /\ timers_' = timers_ \cup {<<heap'[e[2]].expiration, e[2]>> : e \in Restarted}
  /\ activeTimers_' = activeTimers_ \cup {Id(e[2]) : e \in Restarted}
  /\ timerfd' = NextExpire(timers_')
  /\ callingExpiredTimers_' = FALSE
  /\ loopPc' = "idle" /\ expired' = {} /\ readAt' = 0
  /\ UNCHANGED <<now, numCreated, toRun, cancelingTimers_, polled, others, ids, history>>

TQNext ==
  \/ AddTimer \/ Cancel
  \/ OtherAddTimer \/ OtherAddTimerReturn \/ OtherCancel \/ PendingAdd \/ PendingCancel
  \/ Tick \/ TimerfdExpire
  \/ PollTimerfd \/ HandleRead \/ RunTimer \/ CallbackReturn \/ Reset

TQSpec == TQInit /\ [][TQNext]_tqvars

(* The loop goes round and callbacks return; an armed timerfd expires when *)
(* it is due.  Nobody has to call anything.                                *)
TQFairSpec ==
  /\ TQSpec
  /\ WF_tqvars(TimerfdExpireDue)
  /\ WF_tqvars(PollTimerfd) /\ WF_tqvars(HandleRead)
  /\ WF_tqvars(RunTimer) /\ WF_tqvars(CallbackReturn) /\ WF_tqvars(Reset)

-----------------------------------------------------------------------------
(* timers_ and activeTimers_ hold the same timers (the comment in          *)
(* TimerQueue.h and the size assertions), and every pointer the queue or   *)
(* the batch holds leads to a live Timer with the entry's expiration.      *)
SameTimers ==
  /\ activeTimers_ = {Id(e[2]) : e \in timers_}
  /\ Cardinality(activeTimers_) = Cardinality(timers_)
  /\ \A e \in timers_ \cup expired : heap[e[2]] # Free /\ heap[e[2]].expiration = e[1]
  /\ \A d \in timers_, e \in expired : d[2] # e[2]

(* Outside handleRead() a queue with timers has its timerfd readable,      *)
(* reported, or armed no later than its earliest timer (a timer that is    *)
(* already due: at once).                                                  *)
Armed ==
  (loopPc = "idle" /\ timers_ # {}) =>
    \/ timerfd.readable \/ polled
    \/ \A e \in timers_ : timerfd.expiry <= e[1] \/ timerfd.expiry <= now

(* A timer found by cancelInLoop() is gone for good: it is not in the      *)
(* queue, and lives on only until the end of the batch it had expired in.  *)
CancelledIsGone ==
  \A a \in Addrs : Id(a) \in cancelled => \E e \in expired : e[2] = a

(* No Timer leaks: each is in the queue, in the batch or on its way there, *)
(* so that cancelInLoop() misses only one that is gone or on its way.      *)
NoneLeaks ==
  \A a \in Addrs : heap[a] # Free =>
    \/ Id(a) \in activeTimers_ \cup {Id(e[2]) : e \in expired}
    \/ \E i \in DOMAIN pending : pending[i] = <<"add", Id(a)>>

(* Between the steps of the loop the queue is consistent: its two sets     *)
(* agree, every Timer has an owner, and the timerfd is armed for the       *)
(* earliest.                                                               *)
QueueConsistent == TQTypeOK /\ SameTimers /\ NoneLeaks /\ Armed

(* A Timer is deleted only after it ran, if it is one-shot, or by a cancel *)
(* of its own id: ids of timers that are gone cancel nothing, although     *)
(* their address is in use again.                                          *)
DeletedWhenDone ==
  [][\A a \in Addrs :
       (heap[a] # Free /\ heap'[a].sequence # heap[a].sequence) =>
         \/ Id(a) \in cancelled'
         \/ heap[a].interval = 0 /\ Id(a) \in ran]_tqvars

(* A timer runs unless it is cancelled: it is not deleted before, and one  *)
(* that is due does not stay in the queue.                                 *)
RunUnlessCancelled ==
  /\ DeletedWhenDone
  /\ \A a \in Addrs : []<>~(\E e \in timers_ : e[2] = a /\ e[1] <= now)
=============================================================================
