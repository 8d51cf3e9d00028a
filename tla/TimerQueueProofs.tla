-------------------------- MODULE TimerQueueProofs --------------------------
(***************************************************************************)
(* Proofs about TimerQueue: its two sets, the Timers on the heap, the      *)
(* timers on their way from other threads and the timerfd agree between    *)
(* the steps of the loop, and a cancelled timer is gone.                   *)
(***************************************************************************)
EXTENDS TimerQueue, FiniteSetTheorems, TLAPS

(* SameTimers without the sizes, which follow from it. *)
Pointers ==
  /\ activeTimers_ = {Id(e[2]) : e \in timers_}
  /\ \A e \in timers_ \cup expired : heap[e[2]] # Free /\ heap[e[2]].expiration = e[1]
  /\ \A d \in timers_, e \in expired : d[2] # e[2]

(* Sequence numbers start at 1 and were handed out. *)
HeapInv == \A a \in Addrs : heap[a] # Free => heap[a].sequence \in 1 .. numCreated

(* A timer on its way to the loop is alive, in no set, and comes once. *)
IsAdd(c) == c[1] = "add"

Waits(i) == IsAdd(pending[i]) =>
  /\ pending[i][2][1] \in Addrs /\ pending[i][2] = Id(pending[i][2][1])
  /\ heap[pending[i][2][1]] # Free
  /\ \A e \in timers_ \cup expired : e[2] # pending[i][2][1]

PendingInv ==
  /\ \A i \in 1 .. Len(pending) : Waits(i)
  /\ \A i, j \in 1 .. Len(pending) :
       IsAdd(pending[i]) /\ IsAdd(pending[j]) /\ pending[i][2][1] = pending[j][2][1] => i = j

PhaseInv ==
  /\ callingExpiredTimers_ <=> loopPc # "idle"
  /\ loopPc = "idle" => expired = {}
  /\ adding # NoId => adding[1] \in Addrs

(* In a batch, the timers that are not to run any more have run, and those *)
(* cancelled are the ones reset() will find in cancelingTimers_.           *)
BatchInv ==
  /\ \A e \in expired \ toRun : Id(e[2]) \in ran
  /\ \A e \in expired : Id(e[2]) \in cancelled <=> Id(e[2]) \in cancelingTimers_

CancelInv == CancelledIsGone /\ \A id \in cancelled : id[2] \in 1 .. numCreated

TQInv ==
  /\ TQTypeOK /\ Pointers /\ HeapInv /\ PendingInv /\ PhaseInv /\ BatchInv /\ CancelInv
  /\ NoneLeaks /\ Armed

-----------------------------------------------------------------------------
(* The parts of TQTypeOK. *)
HeapOK == now \in 1 .. MaxTime /\ heap \in [Addrs -> Timers] /\ numCreated \in 0 .. MaxTimers

SetsOK ==
  /\ timers_ \subseteq Entries /\ activeTimers_ \subseteq TimerIds /\ cancelingTimers_ \subseteq TimerIds
  /\ expired \subseteq Entries /\ toRun \subseteq expired
  /\ ids \subseteq TimerIds /\ ran \subseteq TimerIds /\ cancelled \subseteq TimerIds

PhaseOK ==
  /\ loopPc \in {"idle", "batch", "callback"} /\ readAt \in 0 .. MaxTime
  /\ timerfd \in [expiry : Times, readable : BOOLEAN]
  /\ polled \in BOOLEAN /\ callingExpiredTimers_ \in BOOLEAN

CallsOK == pending \in Seq(Calls) /\ adding \in TimerIds

LEMMA Types ==
  /\ TQTypeOK <=> HeapOK /\ SetsOK /\ PhaseOK /\ CallsOK
  /\ TQTypeOK' <=> HeapOK' /\ SetsOK' /\ PhaseOK' /\ CallsOK'
BY Zenon DEF TQTypeOK, HeapOK, SetsOK, PhaseOK, CallsOK

(* std::set<Entry>::begin() is the earliest. *)
LEMMA MinOf ==
  ASSUME NEW S \in SUBSET Nat, S # {}
  PROVE  Min(S) \in S /\ \A y \in S : Min(S) <= y
<1> DEFINE R == OpToRel(<, Nat)
<1>1. \A a, b \in Nat : <<a, b>> \in R <=> a < b
  BY Zenon DEF OpToRel
<1>2. IsWellFoundedOn(R, Nat)
  BY NatLessThanWellFounded, Zenon
<1> HIDE DEF R
<1>3. PICK x \in S : \A y \in S : <<y, x>> \notin R
  BY <1>2, WFMin, Zenon
<1>4. \A y \in S : x <= y
  <2> SUFFICES ASSUME NEW y \in S PROVE x <= y
    OBVIOUS
  <2>1. ~(y < x) /\ x \in Nat /\ y \in Nat
    BY <1>1, <1>3, Zenon
  <2> QED
    BY <2>1
<1> QED
  BY <1>4, Zenon DEF Min

LEMMA Bounds ==
  /\ Never \in Nat
  /\ \A d \in Delays \cup Intervals : d \in Nat /\ \A t \in 0 .. MaxTime : t + d \in Times /\ t + d < Never
  /\ MaxTime < Never
<1> DEFINE S == Delays \cup Intervals
<1>1. Max(S) \in S /\ \A y \in S : Max(S) >= y
  <2>1. PICK m \in S : \A y \in S : y <= m
    BY TimerAssumption
  <2>2. \A y \in S : m >= y
    BY <2>1, TimerAssumption
  <2> QED
    BY <2>2, Zenon DEF Max
<1>2. S \subseteq Nat /\ MaxTime \in Nat
  BY TimerAssumption
<1> DEFINE m == Max(S)
<1>3. Never = MaxTime + m + 1
  BY DEF Never
<1>4. m \in Nat /\ \A y \in S : y \in Nat /\ y <= m
  <2>1. m \in Nat
    BY <1>1, <1>2, Zenon
  <2>2. ASSUME NEW y \in S
        PROVE  y \in Nat /\ y <= m
    <3>1. m >= y /\ y \in Nat
      BY <1>1, <1>2, Zenon
    <3> QED
      BY <2>1, <3>1
  <2> QED
    BY <2>1, <2>2, Zenon
<1> HIDE DEF S, m
<1>5. Never \in Nat /\ MaxTime < Never
  BY <1>2, <1>3, <1>4
<1>6. \A d \in S : d \in Nat /\ \A t \in 0 .. MaxTime : t + d \in Times /\ t + d < Never
  BY <1>2, <1>3, <1>4, <1>5 DEF Times
<1> QED
  BY <1>5, <1>6, Zenon DEF S

LEMMA FreeTimer ==
  Free \in Timers /\ Free.sequence = 0
BY Bounds, TimerAssumption DEF Free, Timers, Times

(* The two sets have the same size: assert(timers_.size() ==               *)
(* activeTimers_.size()).                                                  *)
LEMMA SameSize ==
  ASSUME HeapOK, SetsOK, Pointers
  PROVE  Cardinality(activeTimers_) = Cardinality(timers_)
<1> DEFINE f == [e \in timers_ |-> Id(e[2])]
<1>1. IsFiniteSet(timers_)
  <2>1. IsFiniteSet(0 .. Never)
    BY Bounds, FS_Interval
  <2>2. IsFiniteSet(Entries)
    BY <2>1, FS_Product, TimerAssumption, Zenon DEF Entries, Times
  <2> QED
    BY <2>2, FS_Subset, Zenon DEF SetsOK
<1>2. f \in Bijection(timers_, activeTimers_)
  <2>1. f \in [timers_ -> activeTimers_] /\ \A t \in activeTimers_ : \E e \in timers_ : f[e] = t
    BY Zenon DEF Pointers
  <2>2. ASSUME NEW d \in timers_, NEW e \in timers_, f[d] = f[e]
        PROVE  d = e
    <3>1. d[2] = e[2]
      BY <2>2 DEF Id
    <3>2. d[1] = e[1]
      BY <3>1 DEF Pointers
    <3>3. d = <<d[1], d[2]>> /\ e = <<e[1], e[2]>>
      BY DEF SetsOK, Entries
    <3> QED
      BY <3>1, <3>2, <3>3
  <2> QED
    BY <2>1, <2>2, Zenon DEF Bijection, Injection, Surjection, IsInjective
<1>3. ExistsBijection(timers_, activeTimers_)
  BY <1>2, Zenon DEF ExistsBijection
<1> QED
  BY <1>1, <1>3, FS_Bijection, Zenon

-----------------------------------------------------------------------------
LEMMA Typed ==
  ASSUME TQInv
  PROVE  HeapOK /\ SetsOK /\ PhaseOK /\ CallsOK
BY Types, Zenon DEF TQInv

(* What TQInv says of an entry and of an address. *)
LEMMA Where ==
  ASSUME TQInv
  PROVE  /\ \A e \in timers_ \cup expired :
              /\ e[2] \in Addrs /\ e[1] \in Nat /\ e = <<e[1], e[2]>>
              /\ heap[e[2]] # Free /\ heap[e[2]].expiration = e[1] /\ Id(e[2])[1] = e[2]
         /\ \A a \in Addrs : Id(a) \in activeTimers_ <=> \E e \in timers_ : e[2] = a
         /\ \A a \in Addrs : heap[a] # Free <=> heap[a].sequence # 0
         /\ \A i \in 1 .. Len(pending) : pending[i] \in Calls
<1>1. HeapOK /\ SetsOK /\ PhaseOK /\ CallsOK
  BY Typed, Zenon
<1>2. \A e \in timers_ \cup expired :
        /\ e[2] \in Addrs /\ e[1] \in Nat /\ e = <<e[1], e[2]>>
        /\ heap[e[2]] # Free /\ heap[e[2]].expiration = e[1] /\ Id(e[2])[1] = e[2]
  <2>1. \A e \in timers_ \cup expired : e \in Entries
    BY <1>1, Zenon DEF SetsOK
  <2>2. \A e \in Entries : e[2] \in Addrs /\ e[1] \in Nat /\ e = <<e[1], e[2]>>
    BY Bounds DEF Entries, Times
  <2>3. \A e \in timers_ \cup expired : heap[e[2]] # Free /\ heap[e[2]].expiration = e[1]
    BY Zenon DEF TQInv, Pointers
  <2>4. \A a : Id(a)[1] = a
    BY DEF Id
  <2> QED
    BY <2>1, <2>2, <2>3, <2>4, Zenon
<1>3. \A a \in Addrs : Id(a) \in activeTimers_ <=> \E e \in timers_ : e[2] = a
  <2> SUFFICES ASSUME NEW a \in Addrs
               PROVE  Id(a) \in activeTimers_ <=> \E e \in timers_ : e[2] = a
    OBVIOUS
  <2>1. activeTimers_ = {Id(e[2]) : e \in timers_}
    BY Zenon DEF TQInv, Pointers
  <2>2. \A b : Id(b) = Id(a) => b = a
    BY DEF Id
  <2> QED
    BY <2>1, <2>2, Zenon
<1>4. \A a \in Addrs : heap[a] # Free <=> heap[a].sequence # 0
  <2> SUFFICES ASSUME NEW a \in Addrs PROVE heap[a] # Free <=> heap[a].sequence # 0
    OBVIOUS
  <2>1. heap[a] # Free => heap[a].sequence \in 1 .. numCreated
    BY Zenon DEF TQInv, HeapInv
  <2> QED
    BY <2>1, FreeTimer
<1>5. \A i \in 1 .. Len(pending) : pending[i] \in Calls
  BY <1>1 DEF CallsOK
<1> QED
  BY <1>2, <1>3, <1>4, <1>5, Zenon

(* new Timer(): the address was free, so no set, batch or call holds it.   *)
LEMMA Create ==
  ASSUME TQInv, NEW a \in Addrs, NEW delay \in Delays, NEW interval \in Intervals,
         NewTimer(a, delay, interval)
  PROVE  /\ heap' \in [Addrs -> Timers] /\ numCreated' \in 0 .. MaxTimers /\ HeapInv'
         /\ Id(a)' = <<a, numCreated + 1>> /\ heap'[a] # Free /\ Id(a)' \in TimerIds
         /\ heap'[a].sequence = numCreated + 1 /\ numCreated' = numCreated + 1
         /\ \A b \in Addrs : b # a => heap'[b] = heap[b]
         /\ \A e \in timers_ \cup expired : e[2] # a
         /\ \A i \in 1 .. Len(pending) : IsAdd(pending[i]) => pending[i][2][1] # a
         /\ Id(a)' \notin cancelled
<1>1. /\ HeapOK /\ heap[a] = Free /\ numCreated < MaxTimers /\ numCreated' = numCreated + 1
      /\ heap' = [heap EXCEPT ![a] = [sequence |-> numCreated + 1,
                                      expiration |-> now + delay, interval |-> interval]]
  BY Typed, Zenon DEF NewTimer
<1>2. numCreated \in Nat /\ MaxTimers \in Nat /\ now + delay \in Times
  BY <1>1, Bounds, TimerAssumption DEF HeapOK
<1>3. [sequence |-> numCreated + 1, expiration |-> now + delay, interval |-> interval] \in Timers
  BY <1>1, <1>2 DEF Timers
<1>4. /\ heap' \in [Addrs -> Timers] /\ heap'[a].sequence = numCreated + 1
      /\ \A b \in Addrs : b # a => heap'[b] = heap[b]
  BY <1>1, <1>3 DEF HeapOK
<1>5. heap'[a] # Free
  BY <1>2, <1>4, FreeTimer
<1>6. numCreated' \in 0 .. MaxTimers /\ Id(a)' = <<a, numCreated + 1>> /\ Id(a)' \in TimerIds
  BY <1>1, <1>2, <1>4 DEF TimerIds, Id
<1>7. HeapInv'
  <2> SUFFICES ASSUME NEW b \in Addrs, heap'[b] # Free
               PROVE  heap'[b].sequence \in 1 .. numCreated'
    BY Zenon DEF HeapInv
  <2>1. CASE b = a
    BY <1>1, <1>2, <1>4, <2>1
  <2>2. CASE b # a
    <3>1. heap[b].sequence \in 1 .. numCreated /\ heap'[b] = heap[b]
      BY <1>4, <2>2, Zenon DEF TQInv, HeapInv
    <3> QED
      BY <1>1, <1>2, <3>1
  <2> QED
    BY <2>1, <2>2, Zenon
<1>8. \A e \in timers_ \cup expired : e[2] # a
  BY <1>1, Where, Zenon
<1>9. \A i \in 1 .. Len(pending) : IsAdd(pending[i]) => pending[i][2][1] # a
  BY <1>1, Zenon DEF TQInv, PendingInv, Waits
<1>10. Id(a)' \notin cancelled
  <2>1. \A id \in cancelled : id[2] \in 1 .. numCreated
    BY Zenon DEF TQInv, CancelInv
  <2> QED
    BY <1>2, <1>6, <2>1
<1> QED
  BY <1>1, <1>4, <1>5, <1>6, <1>7, <1>8, <1>9, <1>10, Zenon

-----------------------------------------------------------------------------
(* addTimerInLoop(). *)
LEMMA ResetType ==
  ASSUME HeapOK, NEW when \in Times
  PROVE  /\ ResetTimerfd(when) \in [expiry : Times, readable : BOOLEAN]
         /\ ResetTimerfd(when).expiry <= when \/ ResetTimerfd(when).expiry <= now
BY Bounds, TimerAssumption DEF ResetTimerfd, HeapOK, Times

LEMMA InsertPointers ==
  ASSUME TQInv, NEW a \in Addrs, heap' \in [Addrs -> Timers], heap'[a] # Free,
         \A b \in Addrs : b # a => heap'[b] = heap[b],
         \A e \in timers_ \cup expired : e[2] # a,
         AddTimerInLoop(a, heap'[a]), UNCHANGED expired
  PROVE  /\ Pointers' /\ timers_' \subseteq Entries /\ activeTimers_' \subseteq TimerIds
         /\ \A e \in timers_' : e \in timers_ \/ e[2] = a
         /\ activeTimers_' = activeTimers_ \cup {Id(a)'}
<1> DEFINE new == <<heap'[a].expiration, a>>
<1>1. timers_' = timers_ \cup {new} /\ activeTimers_' = activeTimers_ \cup {Id(a)'}
  BY Zenon DEF AddTimerInLoop, Id
<1>2. new \in Entries /\ new[1] = heap'[a].expiration /\ new[2] = a /\ Id(a)' \in TimerIds
  BY DEF Timers, Entries, TimerIds, Id
<1> HIDE DEF new
<1>3. \A e \in timers_ \cup expired : heap'[e[2]] = heap[e[2]] /\ Id(e[2])' = Id(e[2])
  BY Where, Zenon DEF Id
<1>4. activeTimers_' = {Id(e[2])' : e \in timers_'}
  <2>1. activeTimers_ = {Id(e[2]) : e \in timers_}
    BY Zenon DEF TQInv, Pointers
  <2> QED
    BY <1>1, <1>2, <1>3, <2>1
<1>5. \A e \in timers_' \cup expired' : heap'[e[2]] # Free /\ heap'[e[2]].expiration = e[1]
  BY <1>1, <1>2, <1>3, Where, Zenon
<1>6. \A d \in timers_', e \in expired' : d[2] # e[2]
  BY <1>1, <1>2, Zenon DEF TQInv, Pointers
<1>7. Pointers'
  BY <1>4, <1>5, <1>6, Zenon DEF Pointers
<1> QED
  BY <1>1, <1>2, <1>7, Typed, Zenon DEF SetsOK

LEMMA InsertArms ==
  ASSUME TQInv, NEW a \in Addrs, NEW timer \in Timers, AddTimerInLoop(a, timer),
         UNCHANGED <<now, loopPc, polled>>
  PROVE  Armed' /\ timerfd' \in [expiry : Times, readable : BOOLEAN]
<1> DEFINE when == timer.expiration
<1>1. /\ HeapOK /\ timerfd \in [expiry : Times, readable : BOOLEAN] /\ when \in Times
      /\ timers_' = timers_ \cup {<<when, a>>} /\ Never \in Nat /\ now \in Nat
  BY Typed, Bounds DEF HeapOK, PhaseOK, Timers, AddTimerInLoop
<1>2. \A e \in timers_ : e[1] \in Nat
  BY Where, Zenon
<1>3. ResetTimerfd(when) \in [expiry : Times, readable : BOOLEAN]
  BY <1>1, ResetType, Zenon
<1>4. timerfd' = IF \A e \in timers_ : when < e[1] THEN ResetTimerfd(when) ELSE timerfd
  BY Zenon DEF AddTimerInLoop
<1> HIDE DEF when
<1>5. CASE \A e \in timers_ : when < e[1]
  <2>1. timerfd' = ResetTimerfd(when)
    BY <1>4, <1>5, Zenon
  <2>2. timerfd'.expiry \in Nat /\ (timerfd'.expiry <= when \/ timerfd'.expiry <= now)
    BY <1>1, <1>3, <2>1, ResetType DEF Times
  <2>3. \A e \in timers_' : e[1] \in Nat /\ when <= e[1]
    BY <1>1, <1>2, <1>5 DEF Times
  <2>4. \A e \in timers_' : timerfd'.expiry <= e[1] \/ timerfd'.expiry <= now
    BY <1>1, <2>2, <2>3 DEF Times
  <2> QED
    BY <1>3, <2>1, <2>4, Zenon DEF Armed
<1>6. CASE ~ \A e \in timers_ : when < e[1]
  <2>1. timerfd' = timerfd
    BY <1>4, <1>6, Zenon
  <2>2. PICK d \in timers_ : ~(when < d[1])
    BY <1>6, Zenon
  <2>3. SUFFICES ASSUME loopPc = "idle", ~timerfd.readable, ~polled, NEW e \in timers_'
                 PROVE  timerfd.expiry <= e[1] \/ timerfd.expiry <= now
    BY <1>1, <2>1, Zenon DEF Armed
  <2>4. \A c \in timers_ : timerfd.expiry <= c[1] \/ timerfd.expiry <= now
    BY <2>2, <2>3, Zenon DEF TQInv, Armed
  <2>5. CASE e \in timers_
    BY <2>4, <2>5, Zenon
  <2>6. CASE e = <<when, a>>
    <3>1. timerfd.expiry \in Nat /\ d[1] \in Nat /\ when \in Nat /\ ~(when < d[1]) /\ e[1] = when
      BY <1>1, <1>2, <2>2, <2>6 DEF Times
    <3>2. timerfd.expiry <= d[1] \/ timerfd.expiry <= now
      BY <2>4, Zenon
    <3> QED
      BY <3>1, <3>2
  <2> QED
    BY <1>1, <2>5, <2>6, Zenon
<1> QED
  BY <1>5, <1>6, Zenon

LEMMA AddTimerKeeps ==
  ASSUME TQInv, AddTimer
  PROVE  TQInv'
<1>1. PICK a \in Addrs, delay \in Delays, interval \in Intervals :
        /\ NewTimer(a, delay, interval) /\ AddTimerInLoop(a, heap'[a])
        /\ ids' = ids \cup {Id(a)'}
  BY Zenon DEF AddTimer, Id
<1>2. UNCHANGED <<now, callingExpiredTimers_, loopPc, expired, toRun, readAt, cancelingTimers_,
                  polled, pending, adding, ran, cancelled>>
  BY DEF AddTimer, batch, others, history
<1>3. /\ heap' \in [Addrs -> Timers] /\ numCreated' \in 0 .. MaxTimers /\ HeapInv'
      /\ heap'[a] # Free /\ Id(a)' \in TimerIds /\ numCreated' = numCreated + 1
      /\ \A b \in Addrs : b # a => heap'[b] = heap[b]
      /\ \A e \in timers_ \cup expired : e[2] # a
      /\ \A i \in 1 .. Len(pending) : IsAdd(pending[i]) => pending[i][2][1] # a
      /\ Id(a)' \notin cancelled
  BY <1>1, Create, Zenon
<1>4. /\ Pointers' /\ timers_' \subseteq Entries /\ activeTimers_' \subseteq TimerIds
      /\ \A e \in timers_' : e \in timers_ \/ e[2] = a
      /\ activeTimers_' = activeTimers_ \cup {Id(a)'}
  BY <1>1, <1>2, <1>3, InsertPointers, Zenon
<1>5. Armed' /\ timerfd' \in [expiry : Times, readable : BOOLEAN]
  <2>1. heap'[a] \in Timers
    BY <1>3, Zenon
  <2> QED
    BY <1>1, <1>2, <2>1, InsertArms
<1>6. TQTypeOK'
  <2>1. HeapOK'
    BY <1>2, <1>3, Typed, Zenon DEF HeapOK
  <2>2. SetsOK'
    BY <1>1, <1>2, <1>3, <1>4, Typed, Zenon DEF SetsOK
  <2>3. PhaseOK' /\ CallsOK'
    BY <1>2, <1>5, Typed, Zenon DEF PhaseOK, CallsOK
  <2> QED
    BY <2>1, <2>2, <2>3, Types, Zenon
<1>7. \A e \in timers_ \cup expired : Id(e[2])' = Id(e[2])
  BY <1>3, Where, Zenon DEF Id
<1>8. \A b \in Addrs : b # a => Id(b)' = Id(b)
  BY <1>3, Zenon DEF Id
<1>9. PendingInv'
  <2>1. \A i \in 1 .. Len(pending) : Waits(i)'
    <3> SUFFICES ASSUME NEW i \in 1 .. Len(pending), IsAdd(pending[i])
                 PROVE  /\ pending[i][2][1] \in Addrs /\ pending[i][2] = Id(pending[i][2][1])'
                        /\ heap'[pending[i][2][1]] # Free
                        /\ \A e \in timers_' \cup expired' : e[2] # pending[i][2][1]
      BY <1>2, Zenon DEF Waits
    <3>1. /\ pending[i][2][1] \in Addrs /\ pending[i][2] = Id(pending[i][2][1])
          /\ heap[pending[i][2][1]] # Free /\ pending[i][2][1] # a
          /\ \A e \in timers_ \cup expired : e[2] # pending[i][2][1]
      BY <1>3, Zenon DEF TQInv, PendingInv, Waits
    <3> QED
      BY <1>2, <1>3, <1>4, <1>8, <3>1, Zenon
  <2> QED
    BY <1>2, <2>1, Zenon DEF TQInv, PendingInv
<1>10. PhaseInv'
  BY <1>2, Zenon DEF TQInv, PhaseInv, NoId
<1>11. BatchInv'
  BY <1>2, <1>7, Zenon DEF TQInv, BatchInv
<1>12. CancelInv'
  <2>1. CancelledIsGone'
    BY <1>2, <1>3, <1>8, Zenon DEF TQInv, CancelInv, CancelledIsGone
  <2>2. numCreated \in Nat /\ \A id \in cancelled : id[2] \in 1 .. numCreated
    BY Typed DEF TQInv, CancelInv, HeapOK
  <2>3. \A id \in cancelled : id[2] \in 1 .. numCreated'
    BY <1>3, <2>2
  <2> QED
    BY <1>2, <2>1, <2>3, Zenon DEF CancelInv
<1>13. NoneLeaks'
  <2> SUFFICES ASSUME NEW b \in Addrs, heap'[b] # Free
               PROVE  \/ Id(b)' \in activeTimers_' \cup {Id(e[2])' : e \in expired'}
                      \/ \E i \in DOMAIN pending' : pending'[i] = <<"add", Id(b)'>>
    BY Zenon DEF NoneLeaks
  <2>1. CASE b = a
    BY <1>4, <2>1, Zenon
  <2>2. CASE b # a
    <3>1. heap[b] # Free /\ Id(b)' = Id(b)
      BY <1>3, <1>8, <2>2, Zenon
    <3>2. \/ Id(b) \in activeTimers_ \cup {Id(e[2]) : e \in expired}
          \/ \E i \in DOMAIN pending : pending[i] = <<"add", Id(b)>>
      BY <3>1, Zenon DEF TQInv, NoneLeaks
    <3>3. {Id(e[2])' : e \in expired'} = {Id(e[2]) : e \in expired}
      BY <1>2, <1>7
    <3> QED
      BY <1>2, <1>4, <3>1, <3>2, <3>3, Zenon
  <2> QED
    BY <2>1, <2>2, Zenon
<1> QED
  BY <1>3, <1>4, <1>5, <1>6, <1>9, <1>10, <1>11, <1>12, <1>13, Zenon DEF TQInv

-----------------------------------------------------------------------------
(* Steps that leave the timers alone, and calls of other threads. *)
LEMMA FrameSets ==
  ASSUME TQInv, UNCHANGED <<heap, numCreated, timers_, activeTimers_, expired>>
  PROVE  Pointers' /\ HeapInv' /\ \A a : Id(a)' = Id(a)
<1>1. \A a : Id(a)' = Id(a)
  BY Zenon DEF Id
<1>2. Pointers'
  BY <1>1, Zenon DEF TQInv, Pointers
<1> QED
  BY <1>1, <1>2, Zenon DEF TQInv, HeapInv

LEMMA FramePending ==
  ASSUME TQInv, UNCHANGED <<heap, timers_, activeTimers_, expired, pending>>
  PROVE  PendingInv' /\ NoneLeaks'
<1>1. \A a : Id(a)' = Id(a)
  BY Zenon DEF Id
<1>2. \A i \in 1 .. Len(pending) : Waits(i)'
  BY <1>1, Zenon DEF TQInv, PendingInv, Waits
<1>3. NoneLeaks'
  BY <1>1, Zenon DEF TQInv, NoneLeaks
<1> QED
  BY <1>2, <1>3, Zenon DEF TQInv, PendingInv

LEMMA FrameCancel ==
  ASSUME TQInv, UNCHANGED <<heap, numCreated, expired, cancelled>>
  PROVE  CancelInv'
<1>1. \A a : Id(a)' = Id(a)
  BY Zenon DEF Id
<1> QED
  BY <1>1, Zenon DEF TQInv, CancelInv, CancelledIsGone

LEMMA FrameBatch ==
  ASSUME TQInv, UNCHANGED <<heap, expired, toRun, ran, cancelled, cancelingTimers_>>
  PROVE  BatchInv'
<1>1. \A a : Id(a)' = Id(a)
  BY Zenon DEF Id
<1> QED
  BY <1>1, Zenon DEF TQInv, BatchInv

LEMMA AppendCall ==
  ASSUME CallsOK, NEW c \in Calls, pending' = Append(pending, c)
  PROVE  /\ pending' \in Seq(Calls) /\ pending'[Len(pending) + 1] = c
         /\ \A i \in 1 .. Len(pending) : i \in 1 .. Len(pending') /\ pending'[i] = pending[i]
         /\ \A i \in 1 .. Len(pending') : i \in 1 .. Len(pending) \/ i = Len(pending) + 1
         /\ DOMAIN pending = 1 .. Len(pending) /\ DOMAIN pending' = 1 .. Len(pending')
         /\ Len(pending) + 1 \in 1 .. Len(pending')
         /\ Len(pending) + 1 \notin 1 .. Len(pending)
BY DEF CallsOK

LEMMA OtherAddTimerKeeps ==
  ASSUME TQInv, OtherAddTimer
  PROVE  TQInv'
<1>1. PICK a \in Addrs, delay \in Delays, interval \in Intervals :
        /\ NewTimer(a, delay, interval) /\ adding' = <<a, numCreated + 1>>
        /\ pending' = Append(pending, <<"add", <<a, numCreated + 1>>>>)
  BY Zenon DEF OtherAddTimer
<1>2. UNCHANGED <<now, timers_, activeTimers_, callingExpiredTimers_, loopPc, expired, toRun, readAt,
                  cancelingTimers_, timerfd, polled, ids, ran, cancelled>>
  BY DEF OtherAddTimer, batch, sets, history
<1>3. /\ heap' \in [Addrs -> Timers] /\ numCreated' \in 0 .. MaxTimers /\ HeapInv'
      /\ heap'[a] # Free /\ Id(a)' \in TimerIds /\ numCreated' = numCreated + 1
      /\ Id(a)' = <<a, numCreated + 1>>
      /\ \A b \in Addrs : b # a => heap'[b] = heap[b]
      /\ \A e \in timers_ \cup expired : e[2] # a
      /\ \A i \in 1 .. Len(pending) : IsAdd(pending[i]) => pending[i][2][1] # a
      /\ Id(a)' \notin cancelled
  BY <1>1, Create, Zenon
<1> DEFINE n == Len(pending) + 1
           c == <<"add", <<a, numCreated + 1>>>>
<1>4. c \in Calls /\ c[2] = Id(a)' /\ c[2][1] = a /\ c = <<"add", Id(a)'>>
  BY <1>3 DEF Calls
<1>5. /\ pending' \in Seq(Calls) /\ pending'[n] = c
      /\ \A i \in 1 .. Len(pending) : i \in 1 .. Len(pending') /\ pending'[i] = pending[i]
      /\ \A i \in 1 .. Len(pending') : i \in 1 .. Len(pending) \/ i = n
      /\ DOMAIN pending = 1 .. Len(pending) /\ DOMAIN pending' = 1 .. Len(pending')
      /\ n \in 1 .. Len(pending') /\ n \notin 1 .. Len(pending)
  BY <1>1, <1>4, AppendCall, Typed, Zenon
<1> HIDE DEF n, c
<1>6. /\ \A e \in timers_ \cup expired : Id(e[2])' = Id(e[2]) /\ heap'[e[2]] = heap[e[2]]
      /\ \A b \in Addrs : b # a => Id(b)' = Id(b)
  BY <1>3, Where, Zenon DEF Id
<1>7. TQTypeOK'
  <2>1. HeapOK'
    BY <1>2, <1>3, Typed, Zenon DEF HeapOK
  <2>2. SetsOK'
    BY <1>2, Typed, Zenon DEF SetsOK
  <2>3. PhaseOK'
    BY <1>2, Typed, Zenon DEF PhaseOK
  <2>4. CallsOK'
    BY <1>1, <1>3, <1>5, Zenon DEF CallsOK
  <2> QED
    BY <2>1, <2>2, <2>3, <2>4, Types, Zenon
<1>8. Pointers'
  <2>1. activeTimers_' = {Id(e[2])' : e \in timers_'}
    BY <1>2, <1>6 DEF TQInv, Pointers
  <2> QED
    BY <1>2, <1>6, <2>1, Zenon DEF TQInv, Pointers
<1>9. PendingInv'
  <2>1. ASSUME NEW i \in 1 .. Len(pending') PROVE Waits(i)'
    <3>1. CASE i = n
      BY <1>2, <1>3, <1>4, <1>5, <3>1, Zenon DEF Waits
    <3>2. CASE i \in 1 .. Len(pending)
      <4> SUFFICES ASSUME IsAdd(pending[i]) PROVE Waits(i)'
        BY <1>5, <3>2, Zenon DEF Waits
      <4>1. PICK b \in Addrs :
              /\ b = pending[i][2][1] /\ pending[i][2] = Id(b) /\ heap[b] # Free /\ b # a
              /\ \A e \in timers_ \cup expired : e[2] # b
        BY <1>3, <3>2, Zenon DEF TQInv, PendingInv, Waits
      <4>2. Id(b)' = Id(b) /\ heap'[b] = heap[b] /\ pending'[i] = pending[i]
        BY <1>3, <1>5, <1>6, <3>2, <4>1, Zenon
      <4> QED
        BY <1>2, <4>1, <4>2, Zenon DEF Waits
    <3> QED
      BY <1>5, <3>1, <3>2, Zenon
  <2>2. ASSUME NEW i \in 1 .. Len(pending'), NEW j \in 1 .. Len(pending'), IsAdd(pending'[i]),
               IsAdd(pending'[j]), pending'[i][2][1] = pending'[j][2][1]
        PROVE  i = j
    <3>1. CASE i \in 1 .. Len(pending) /\ j \in 1 .. Len(pending)
      BY <1>5, <2>2, <3>1, Zenon DEF TQInv, PendingInv
    <3>2. CASE i = n /\ j \in 1 .. Len(pending)
      BY <1>3, <1>4, <1>5, <2>2, <3>2, Zenon
    <3>3. CASE j = n /\ i \in 1 .. Len(pending)
      BY <1>3, <1>4, <1>5, <2>2, <3>3, Zenon
    <3> QED
      BY <1>5, <3>1, <3>2, <3>3, Zenon
  <2> QED
    BY <2>1, <2>2, Zenon DEF PendingInv
<1>10. PhaseInv'
  <2>1. adding'[1] = a
    BY <1>1
  <2> QED
    BY <1>2, <2>1, Zenon DEF TQInv, PhaseInv
<1>11. BatchInv'
  BY <1>2, <1>6, Zenon DEF TQInv, BatchInv
<1>12. CancelInv'
  <2>1. CancelledIsGone'
    BY <1>2, <1>3, <1>6, Zenon DEF TQInv, CancelInv, CancelledIsGone
  <2>2. numCreated \in Nat /\ \A id \in cancelled : id[2] \in 1 .. numCreated
    BY Typed DEF TQInv, CancelInv, HeapOK
  <2>3. \A id \in cancelled : id[2] \in 1 .. numCreated'
    BY <1>3, <2>2
  <2> QED
    BY <1>2, <2>1, <2>3, Zenon DEF CancelInv
<1>13. NoneLeaks'
  <2> SUFFICES ASSUME NEW b \in Addrs, heap'[b] # Free
               PROVE  \/ Id(b)' \in activeTimers_' \cup {Id(e[2])' : e \in expired'}
                      \/ \E i \in DOMAIN pending' : pending'[i] = <<"add", Id(b)'>>
    BY Zenon DEF NoneLeaks
  <2>1. CASE b = a
    BY <1>4, <1>5, <2>1, Zenon
  <2>2. CASE b # a
    <3>1. heap[b] # Free /\ Id(b)' = Id(b)
      BY <1>3, <1>6, <2>2, Zenon
    <3>2. \/ Id(b) \in activeTimers_ \cup {Id(e[2]) : e \in expired}
          \/ \E i \in DOMAIN pending : pending[i] = <<"add", Id(b)>>
      BY <3>1, Zenon DEF TQInv, NoneLeaks
    <3>3. {Id(e[2])' : e \in expired'} = {Id(e[2]) : e \in expired}
      BY <1>2, <1>6
    <3> QED
      BY <1>2, <1>5, <3>1, <3>2, <3>3, Zenon
  <2> QED
    BY <2>1, <2>2, Zenon
<1>14. Armed'
  BY <1>2, Zenon DEF TQInv, Armed
<1> QED
  BY <1>3, <1>7, <1>8, <1>9, <1>10, <1>11, <1>12, <1>13, <1>14, Zenon DEF TQInv

LEMMA OtherReturnKeeps ==
  ASSUME TQInv, OtherAddTimerReturn
  PROVE  TQInv'
<1>1. /\ UNCHANGED <<now, heap, numCreated, timers_, activeTimers_, callingExpiredTimers_, loopPc, expired,
                     toRun, readAt, cancelingTimers_, timerfd, polled, pending, ran, cancelled>>
      /\ adding' = NoId
  BY DEF OtherAddTimerReturn, batch, sets, store, history
<1>2. ids' \subseteq TimerIds
  <2>1. PICK s \in IF heap[adding[1]] = Free THEN {0, adding[2]} ELSE {heap[adding[1]].sequence} :
          ids' = ids \cup {<<adding[1], s>>}
    BY Zenon DEF OtherAddTimerReturn
  <2>2. adding[1] \in Addrs /\ adding \in TimerIds /\ heap \in [Addrs -> Timers] /\ ids \subseteq TimerIds
    BY Typed, Zenon DEF OtherAddTimerReturn, TQInv, PhaseInv, HeapOK, CallsOK, SetsOK
  <2>3. heap[adding[1]].sequence \in 0 .. MaxTimers /\ adding[2] \in 0 .. MaxTimers
    BY <2>2 DEF Timers, TimerIds
  <2>4. s \in 0 .. MaxTimers
    BY <2>1, <2>3, TimerAssumption
  <2>5. <<adding[1], s>> \in TimerIds
    BY <2>2, <2>4 DEF TimerIds
  <2> QED
    BY <2>1, <2>2, <2>5, Zenon
<1>3. NoId \in TimerIds
  BY TimerAssumption DEF NoId, TimerIds
<1>4. TQTypeOK'
  <2>1. HeapOK' /\ SetsOK'
    BY <1>1, <1>2, Typed, Zenon DEF HeapOK, SetsOK
  <2>2. PhaseOK' /\ CallsOK'
    BY <1>1, <1>3, Typed, Zenon DEF PhaseOK, CallsOK
  <2> QED
    BY <2>1, <2>2, Types, Zenon
<1>5. PhaseInv'
  BY <1>1, Zenon DEF TQInv, PhaseInv, NoId
<1>6. Armed'
  BY <1>1, Zenon DEF TQInv, Armed
<1> QED
  BY <1>1, <1>4, <1>5, <1>6, FrameSets, FramePending, FrameCancel, FrameBatch, Zenon DEF TQInv

LEMMA OtherCancelKeeps ==
  ASSUME TQInv, OtherCancel
  PROVE  TQInv'
<1>1. UNCHANGED <<now, heap, numCreated, timers_, activeTimers_, callingExpiredTimers_, loopPc, expired,
                  toRun, readAt, cancelingTimers_, timerfd, polled, adding, ids, ran, cancelled>>
  BY DEF OtherCancel, batch, sets, store, history
<1>2. PICK id \in ids : pending' = Append(pending, <<"cancel", id>>)
  BY Zenon DEF OtherCancel
<1> DEFINE n == Len(pending) + 1
           c == <<"cancel", id>>
<1>3. c \in Calls /\ ~IsAdd(c)
  BY Typed DEF Calls, SetsOK, IsAdd
<1>4. /\ pending' \in Seq(Calls) /\ pending'[n] = c
      /\ \A i \in 1 .. Len(pending) : i \in 1 .. Len(pending') /\ pending'[i] = pending[i]
      /\ \A i \in 1 .. Len(pending') : i \in 1 .. Len(pending) \/ i = n
      /\ DOMAIN pending = 1 .. Len(pending) /\ DOMAIN pending' = 1 .. Len(pending')
  BY <1>2, <1>3, AppendCall, Typed, Zenon
<1> HIDE DEF n, c
<1>5. \A a : Id(a)' = Id(a)
  BY <1>1, FrameSets, Zenon
<1>6. PendingInv'
  <2>1. ASSUME NEW i \in 1 .. Len(pending') PROVE Waits(i)'
    <3>1. CASE i = n
      BY <1>3, <1>4, <3>1, Zenon DEF Waits
    <3>2. CASE i \in 1 .. Len(pending)
      <4>1. Waits(i)
        BY <3>2, Zenon DEF TQInv, PendingInv
      <4>2. pending'[i] = pending[i]
        BY <1>4, <3>2, Zenon
      <4> QED
        BY <1>1, <1>5, <4>1, <4>2, Zenon DEF Waits
    <3> QED
      BY <1>4, <3>1, <3>2, Zenon
  <2>2. ASSUME NEW i \in 1 .. Len(pending'), NEW j \in 1 .. Len(pending'), IsAdd(pending'[i]),
               IsAdd(pending'[j]), pending'[i][2][1] = pending'[j][2][1]
        PROVE  i = j
    <3>1. i \in 1 .. Len(pending) /\ j \in 1 .. Len(pending)
      BY <1>3, <1>4, <2>2, Zenon
    <3>2. pending'[i] = pending[i] /\ pending'[j] = pending[j]
      BY <1>4, <3>1, Zenon
    <3> QED
      BY <2>2, <3>1, <3>2, Zenon DEF TQInv, PendingInv
  <2> QED
    BY <2>1, <2>2, Zenon DEF PendingInv
<1>7. NoneLeaks'
  <2> SUFFICES ASSUME NEW b \in Addrs, heap[b] # Free
               PROVE  \/ Id(b) \in activeTimers_ \cup {Id(e[2]) : e \in expired}
                      \/ \E i \in DOMAIN pending' : pending'[i] = <<"add", Id(b)>>
    BY <1>1, <1>5, Zenon DEF NoneLeaks
  <2> QED
    BY <1>4, Zenon DEF TQInv, NoneLeaks
<1>8. TQTypeOK'
  <2>1. HeapOK' /\ SetsOK'
    BY <1>1, Typed, Zenon DEF HeapOK, SetsOK
  <2>2. PhaseOK' /\ CallsOK'
    BY <1>1, <1>4, Typed, Zenon DEF PhaseOK, CallsOK
  <2> QED
    BY <2>1, <2>2, Types, Zenon
<1>9. PhaseInv' /\ Armed'
  BY <1>1, Zenon DEF TQInv, PhaseInv, NoId, Armed
<1> QED
  BY <1>1, <1>6, <1>7, <1>8, <1>9, FrameSets, FrameCancel, FrameBatch, Zenon DEF TQInv

(* Time, the timerfd, and the callbacks of the batch. *)
LEMMA SimpleKeeps ==
  ASSUME TQInv, Tick \/ TimerfdExpire \/ PollTimerfd \/ RunTimer \/ CallbackReturn \/ UNCHANGED tqvars
  PROVE  TQInv'
<1>1. UNCHANGED <<heap, numCreated, timers_, activeTimers_, callingExpiredTimers_, expired, readAt,
                  cancelingTimers_, pending, adding, ids, cancelled>>
  BY DEF Tick, TimerfdExpire, PollTimerfd, RunTimer, CallbackReturn, tqvars, store, sets, batch, others, history
<1>2. Pointers' /\ HeapInv' /\ PendingInv' /\ NoneLeaks' /\ CancelInv' /\ \A a : Id(a)' = Id(a)
  BY <1>1, FrameSets, FramePending, FrameCancel, Zenon
<1>3. now' \in 1 .. MaxTime
  BY Typed, TimerAssumption
     DEF Tick, TimerfdExpire, PollTimerfd, RunTimer, CallbackReturn, tqvars, HeapOK
<1>4. timerfd' \in [expiry : Times, readable : BOOLEAN]
  <2>1. timerfd \in [expiry : Times, readable : BOOLEAN] /\ Never \in Times
    BY Typed, Bounds DEF PhaseOK, Times
  <2>2. timerfd' = timerfd \/ timerfd' = [expiry |-> Never, readable |-> TRUE]
    BY DEF Tick, TimerfdExpire, PollTimerfd, RunTimer, CallbackReturn, tqvars
  <2>3. [expiry |-> Never, readable |-> TRUE] \in [expiry : Times, readable : BOOLEAN]
    BY <2>1
  <2> QED
    BY <2>1, <2>2, <2>3, Zenon
<1>5. polled' \in BOOLEAN /\ loopPc' \in {"idle", "batch", "callback"}
  BY Typed, Zenon DEF Tick, TimerfdExpire, PollTimerfd, RunTimer, CallbackReturn, tqvars, PhaseOK, batch
<1>6. toRun' \subseteq toRun /\ ran' \subseteq TimerIds /\ \A e \in expired \ toRun' : Id(e[2]) \in ran'
  <2>1. CASE RunTimer
    <3>1. PICK e \in toRun : toRun' = toRun \ {e} /\ ran' = ran \cup {Id(e[2])}
      BY <2>1, Zenon DEF RunTimer
    <3>2. e[2] \in Addrs /\ heap \in [Addrs -> Timers] /\ ran \subseteq TimerIds
      BY Typed, Where, Zenon DEF HeapOK, SetsOK
    <3>3. Id(e[2]) \in TimerIds
      BY <3>2 DEF Id, TimerIds, Timers
    <3> QED
      BY <3>1, <3>2, <3>3, Zenon DEF TQInv, BatchInv
  <2>2. CASE ~RunTimer
    <3>1. toRun' = toRun /\ ran' = ran
      BY <2>2 DEF Tick, TimerfdExpire, PollTimerfd, CallbackReturn, tqvars, batch, history
    <3> QED
      BY <3>1, Typed, Zenon DEF SetsOK, TQInv, BatchInv
  <2> QED
    BY <2>1, <2>2, Zenon
<1>7. TQTypeOK'
  <2>1. HeapOK' /\ SetsOK'
    BY <1>1, <1>3, <1>6, Typed, Zenon DEF HeapOK, SetsOK
  <2>2. PhaseOK' /\ CallsOK'
    BY <1>1, <1>4, <1>5, Typed, Zenon DEF PhaseOK, CallsOK
  <2> QED
    BY <2>1, <2>2, Types, Zenon
<1>8. BatchInv'
  BY <1>1, <1>2, <1>6, Zenon DEF TQInv, BatchInv
<1>9. loopPc' = "idle" <=> loopPc = "idle"
  BY DEF Tick, TimerfdExpire, PollTimerfd, RunTimer, CallbackReturn, tqvars, batch
<1>10. PhaseInv'
  BY <1>1, <1>9, Zenon DEF TQInv, PhaseInv, NoId
<1>11. Armed'
  <2>4. now' = now \/ now' = now + 1
    BY Zenon DEF Tick, TimerfdExpire, PollTimerfd, RunTimer, CallbackReturn, tqvars
  <2>1. now \in Nat /\ timerfd.expiry \in Nat
    BY Typed, Bounds DEF HeapOK, PhaseOK, Times
  <2>2. \/ timerfd' = timerfd /\ (polled => polled')
        \/ timerfd'.readable
    BY DEF Tick, TimerfdExpire, PollTimerfd, RunTimer, CallbackReturn, tqvars
  <2>3. timerfd.expiry <= now => timerfd.expiry <= now'
    BY <2>1, <2>4
  <2> QED
    BY <1>1, <1>9, <2>2, <2>3, Zenon DEF TQInv, Armed
<1> QED
  BY <1>2, <1>7, <1>8, <1>10, <1>11, Zenon DEF TQInv

-----------------------------------------------------------------------------
(* doPendingFunctors() takes the oldest call. *)
LEMMA TailCall ==
  ASSUME CallsOK, pending # <<>>, pending' = Tail(pending)
  PROVE  /\ pending' \in Seq(Calls) /\ Head(pending) = pending[1] /\ 1 \in 1 .. Len(pending)
         /\ \A i \in 1 .. Len(pending') :
              i + 1 \in 1 .. Len(pending) /\ pending'[i] = pending[i + 1] /\ i + 1 # 1
         /\ \A j \in 1 .. Len(pending) : j # 1 => j - 1 \in 1 .. Len(pending') /\ pending'[j - 1] = pending[j]
         /\ DOMAIN pending = 1 .. Len(pending) /\ DOMAIN pending' = 1 .. Len(pending')
         /\ \A i, j \in 1 .. Len(pending') : i + 1 = j + 1 => i = j
BY DEF CallsOK

LEMMA TailPending ==
  ASSUME TQInv, pending # <<>>, pending' = Tail(pending), NEW a \in Addrs,
         \A i \in 1 .. Len(pending') : IsAdd(pending'[i]) => pending'[i][2][1] # a,
         \A b \in Addrs : b # a => heap'[b] = heap[b],
         \A e \in timers_' \cup expired' : e \in timers_ \cup expired \/ e[2] = a
  PROVE  PendingInv'
<1>1. /\ \A i \in 1 .. Len(pending') :
           i + 1 \in 1 .. Len(pending) /\ pending'[i] = pending[i + 1] /\ i + 1 # 1
      /\ \A i, j \in 1 .. Len(pending') : i + 1 = j + 1 => i = j
  BY TailCall, Typed, Zenon
<1>2. ASSUME NEW i \in 1 .. Len(pending'), IsAdd(pending'[i])
      PROVE  Waits(i)'
  <2>1. PICK k \in 1 .. Len(pending) : k = i + 1 /\ pending'[i] = pending[k]
    BY <1>1, Zenon
  <2>2. PICK b \in Addrs :
          /\ b = pending[k][2][1] /\ pending[k][2] = Id(b) /\ heap[b] # Free /\ b # a
          /\ \A e \in timers_ \cup expired : e[2] # b
    <3>1. IsAdd(pending[k]) /\ pending[k][2][1] # a
      BY <1>2, <2>1, Zenon
    <3>2. Waits(k)
      BY Zenon DEF TQInv, PendingInv
    <3> QED
      BY <3>1, <3>2, Zenon DEF Waits
  <2>3. heap'[b] = heap[b] /\ Id(b)' = Id(b)
    BY <2>2, Zenon DEF Id
  <2>4. \A e \in timers_' \cup expired' : e[2] # b
    BY <2>2, Zenon
  <2> QED
    BY <2>1, <2>2, <2>3, <2>4, Zenon DEF Waits
<1>3. ASSUME NEW i \in 1 .. Len(pending')
      PROVE  Waits(i)'
  BY <1>2, Zenon DEF Waits
<1>4. ASSUME NEW i \in 1 .. Len(pending'), NEW j \in 1 .. Len(pending'), IsAdd(pending'[i]),
             IsAdd(pending'[j]), pending'[i][2][1] = pending'[j][2][1]
      PROVE  i = j
  <2>1. PICK k \in 1 .. Len(pending) : k = i + 1 /\ pending'[i] = pending[k]
    BY <1>1, Zenon
  <2>2. PICK l \in 1 .. Len(pending) : l = j + 1 /\ pending'[j] = pending[l]
    BY <1>1, Zenon
  <2>3. k = l
    <3>1. IsAdd(pending[k]) /\ IsAdd(pending[l]) /\ pending[k][2][1] = pending[l][2][1]
      BY <1>4, <2>1, <2>2, Zenon
    <3> QED
      BY <3>1, Zenon DEF TQInv, PendingInv
  <2> QED
    BY <1>1, <2>1, <2>2, <2>3, Zenon
<1> QED
  BY <1>3, <1>4, Zenon DEF PendingInv

LEMMA PendingAddKeeps ==
  ASSUME TQInv, PendingAdd
  PROVE  TQInv'
<1>1. UNCHANGED <<now, heap, numCreated, callingExpiredTimers_, loopPc, expired, toRun, readAt,
                  cancelingTimers_, polled, adding, ids, ran, cancelled>>
  BY DEF PendingAdd, batch, store, history
<1>2. /\ pending # <<>> /\ IsAdd(pending[1]) /\ pending' = Tail(pending) /\ 1 \in 1 .. Len(pending)
      /\ Head(pending) = pending[1]
  BY TailCall, Typed, Zenon DEF PendingAdd, IsAdd
<1>3. /\ pending' \in Seq(Calls)
      /\ \A i \in 1 .. Len(pending') :
           i + 1 \in 1 .. Len(pending) /\ pending'[i] = pending[i + 1] /\ i + 1 # 1
      /\ \A j \in 1 .. Len(pending) : j # 1 => j - 1 \in 1 .. Len(pending') /\ pending'[j - 1] = pending[j]
      /\ DOMAIN pending = 1 .. Len(pending) /\ DOMAIN pending' = 1 .. Len(pending')
  BY <1>2, TailCall, Typed, Zenon
<1>4. PICK a \in Addrs :
        /\ a = pending[1][2][1] /\ pending[1][2] = Id(a) /\ heap[a] # Free
        /\ \A e \in timers_ \cup expired : e[2] # a
  BY <1>2, Zenon DEF TQInv, PendingInv, Waits
<1>5. AddTimerInLoop(a, heap'[a])
  BY <1>1, <1>2, <1>4, Zenon DEF PendingAdd
<1>6. heap' \in [Addrs -> Timers] /\ heap'[a] # Free /\ heap'[a] \in Timers /\ \A b : Id(b)' = Id(b)
  BY <1>1, <1>4, Typed, Zenon DEF HeapOK, Id
<1>7. /\ Pointers' /\ timers_' \subseteq Entries /\ activeTimers_' \subseteq TimerIds
      /\ \A e \in timers_' : e \in timers_ \/ e[2] = a
      /\ activeTimers_' = activeTimers_ \cup {Id(a)}
  BY <1>1, <1>4, <1>5, <1>6, InsertPointers, Zenon
<1>8. Armed' /\ timerfd' \in [expiry : Times, readable : BOOLEAN]
  BY <1>1, <1>5, <1>6, InsertArms
<1>9. PendingInv'
  <2>1. ASSUME NEW i \in 1 .. Len(pending'), IsAdd(pending'[i])
        PROVE  pending'[i][2][1] # a
    <3>1. PICK k \in 1 .. Len(pending) : k # 1 /\ pending'[i] = pending[k]
      BY <1>3, Zenon
    <3> QED
      BY <1>2, <1>4, <2>1, <3>1, Zenon DEF TQInv, PendingInv
  <2> QED
    BY <1>1, <1>2, <1>7, <2>1, TailPending, Zenon
<1>10. NoneLeaks'
  <2> SUFFICES ASSUME NEW b \in Addrs, heap[b] # Free
               PROVE  \/ Id(b) \in activeTimers_' \cup {Id(e[2]) : e \in expired}
                      \/ \E i \in 1 .. Len(pending') : pending'[i] = <<"add", Id(b)>>
    BY <1>1, <1>3, <1>6, Zenon DEF NoneLeaks
  <2>1. CASE Id(b) \in activeTimers_ \cup {Id(e[2]) : e \in expired}
    BY <1>7, <2>1, Zenon
  <2>2. CASE \E i \in DOMAIN pending : pending[i] = <<"add", Id(b)>>
    <3>1. PICK i \in 1 .. Len(pending) : pending[i] = <<"add", Id(b)>>
      BY <1>3, <2>2, Zenon
    <3>2. CASE i = 1
      <4>1. Id(b) = Id(a)
        <5>1. <<"add", Id(b)>>[2] = Id(b)
          OBVIOUS
        <5> QED
          BY <1>4, <3>1, <3>2, <5>1, Zenon
      <4> QED
        BY <1>7, <4>1, Zenon
    <3>3. CASE i # 1
      BY <1>3, <3>1, <3>3, Zenon
    <3> QED
      BY <3>2, <3>3, Zenon
  <2> QED
    BY <2>1, <2>2, Zenon DEF TQInv, NoneLeaks
<1>11. TQTypeOK'
  <2>1. HeapOK' /\ SetsOK'
    BY <1>1, <1>7, Typed, Zenon DEF HeapOK, SetsOK
  <2>2. PhaseOK' /\ CallsOK'
    BY <1>1, <1>3, <1>8, Typed, Zenon DEF PhaseOK, CallsOK
  <2> QED
    BY <2>1, <2>2, Types, Zenon
<1>12. HeapInv' /\ PhaseInv'
  BY <1>1, Zenon DEF TQInv, HeapInv, PhaseInv, NoId
<1> QED
  BY <1>1, <1>7, <1>8, <1>9, <1>10, <1>11, <1>12, FrameCancel, FrameBatch, Zenon DEF TQInv

-----------------------------------------------------------------------------
(* cancelInLoop(). *)
CancelFinds(id, e) ==
  /\ id = Id(e[2]) /\ timers_' = timers_ \ {e} /\ activeTimers_' = activeTimers_ \ {id}
  /\ heap'[e[2]] = Free /\ \A b \in Addrs : b # e[2] => heap'[b] = heap[b]
  /\ cancelled' = cancelled \cup {id} /\ UNCHANGED cancelingTimers_

CancelMisses(id) ==
  /\ id \notin activeTimers_ /\ UNCHANGED <<timers_, activeTimers_, heap>>
  /\ cancelingTimers_' = IF callingExpiredTimers_ THEN cancelingTimers_ \cup {id} ELSE cancelingTimers_
  /\ cancelled' = IF \E e \in expired : Id(e[2]) = id THEN cancelled \cup {id} ELSE cancelled

LEMMA CancelEffect ==
  ASSUME TQInv, NEW id, CancelInLoop(id)
  PROVE  heap' \in [Addrs -> Timers] /\ ((\E e \in timers_ : CancelFinds(id, e)) \/ CancelMisses(id))
<1>1. heap \in [Addrs -> Timers] /\ Free \in Timers
  BY Typed, FreeTimer, Zenon DEF HeapOK
<1>2. heap' = [a \in Addrs |-> IF \E t \in Find(id) : t[1] = a THEN Free ELSE heap[a]]
  BY Zenon DEF CancelInLoop
<1>3. heap' \in [Addrs -> Timers]
  BY <1>1, <1>2
<1>4. CASE id \in activeTimers_
  <2>1. PICK e \in timers_ : id = Id(e[2])
    BY <1>4, Zenon DEF TQInv, Pointers
  <2>2. /\ Find(id) = {id} /\ id[1] = e[2] /\ <<heap[e[2]].expiration, e[2]>> = e /\ e[2] \in Addrs
    <3>1. Find(id) = {id}
      BY <1>4 DEF Find
    <3>2. e = <<e[1], e[2]>> /\ heap[e[2]].expiration = e[1] /\ e[2] \in Addrs /\ Id(e[2])[1] = e[2]
      BY Where, Zenon
    <3> QED
      BY <2>1, <3>1, <3>2, Zenon
  <2>3. timers_' = timers_ \ {e}
    <3>1. timers_' = timers_ \ {<<heap[t[1]].expiration, t[1]>> : t \in Find(id)}
      BY Zenon DEF CancelInLoop
    <3> QED
      BY <2>2, <3>1
  <2>4. heap'[e[2]] = Free /\ \A b \in Addrs : b # e[2] => heap'[b] = heap[b]
    BY <1>2, <2>2
  <2>5. activeTimers_' = activeTimers_ \ {id} /\ cancelled' = cancelled \cup {id} /\ UNCHANGED cancelingTimers_
    <3>1. activeTimers_' = activeTimers_ \ Find(id) /\ Find(id) # {}
      BY <2>2, Zenon DEF CancelInLoop
    <3> QED
      BY <1>4, <2>2, <3>1, Zenon DEF CancelInLoop
  <2> QED
    BY <1>3, <2>1, <2>3, <2>4, <2>5, Zenon DEF CancelFinds
<1>5. CASE id \notin activeTimers_
  <2>1. Find(id) = {}
    BY <1>5 DEF Find
  <2>2. timers_' = timers_ /\ activeTimers_' = activeTimers_
    BY <2>1 DEF CancelInLoop
  <2>3. heap' = heap
    BY <1>1, <1>2, <2>1
  <2>4. cancelingTimers_' = IF callingExpiredTimers_ THEN cancelingTimers_ \cup {id} ELSE cancelingTimers_
    BY <2>1, Zenon DEF CancelInLoop
  <2>5. cancelled' = IF \E e \in expired : Id(e[2]) = id THEN cancelled \cup {id} ELSE cancelled
    BY <1>5, Zenon DEF CancelInLoop
  <2> QED
    BY <1>3, <1>5, <2>2, <2>3, <2>4, <2>5, Zenon DEF CancelMisses
<1> QED
  BY <1>4, <1>5, Zenon

LEMMA CancelKeeps ==
  ASSUME TQInv, NEW id \in TimerIds, CancelInLoop(id),
         UNCHANGED <<now, callingExpiredTimers_, loopPc, expired, toRun, readAt, timerfd, polled,
                     adding, ids, ran>>
  PROVE  /\ HeapOK' /\ SetsOK' /\ PhaseOK' /\ Pointers' /\ HeapInv' /\ PhaseInv' /\ BatchInv' /\ CancelInv'
         /\ Armed'
         /\ \A b \in Addrs : heap'[b] # Free => heap'[b] = heap[b] /\ Id(b)' = Id(b)
         /\ \A b \in Addrs : heap'[b] # heap[b] => \E e \in timers_ : e[2] = b
         /\ \A e \in expired : Id(e[2])' = Id(e[2])
         /\ timers_' \subseteq timers_
         /\ \A b \in Addrs : Id(b) \in activeTimers_ /\ heap'[b] # Free => Id(b) \in activeTimers_'
<1>1. UNCHANGED numCreated /\ heap' \in [Addrs -> Timers]
  BY CancelEffect, Zenon DEF CancelInLoop
<1>2. PhaseOK' /\ PhaseInv'
  BY Typed, Zenon DEF PhaseOK, TQInv, PhaseInv, NoId
<1>3. CASE \E e \in timers_ : CancelFinds(id, e)
  <2>1. PICK e \in timers_ : CancelFinds(id, e)
    BY <1>3, Zenon
  <2>2. /\ id = Id(e[2]) /\ timers_' = timers_ \ {e} /\ activeTimers_' = activeTimers_ \ {id}
        /\ heap'[e[2]] = Free /\ \A b \in Addrs : b # e[2] => heap'[b] = heap[b]
        /\ cancelled' = cancelled \cup {id} /\ UNCHANGED cancelingTimers_
    BY <2>1, Zenon DEF CancelFinds
  <2>3. \A b \in Addrs : b # e[2] => Id(b)' = Id(b) /\ Id(b) # id
    <3>1. \A b : b # e[2] => Id(b) # Id(e[2])
      BY DEF Id
    <3> QED
      BY <2>2, <3>1, Zenon DEF Id
  <2>4. /\ \A d \in timers_' : d[2] # e[2] /\ d \in timers_
        /\ \A d \in expired : d[2] # e[2]
    <3>1. ASSUME NEW d \in timers_, d[2] = e[2] PROVE d = e
      <4>1. /\ d = <<d[1], d[2]>> /\ heap[d[2]].expiration = d[1]
            /\ e = <<e[1], e[2]>> /\ heap[e[2]].expiration = e[1]
        BY Where, Zenon
      <4> QED
        BY <3>1, <4>1, Zenon
    <3> QED
      BY <2>2, <3>1, Zenon DEF TQInv, Pointers
  <2>5. \A d \in timers_' \cup expired : heap'[d[2]] = heap[d[2]] /\ Id(d[2])' = Id(d[2]) /\ Id(d[2]) # id
    BY <2>2, <2>3, <2>4, Where, Zenon
  <2>6. Pointers'
    <3>1. activeTimers_ = {Id(d[2]) : d \in timers_}
      BY Zenon DEF TQInv, Pointers
    <3>2. activeTimers_' = {Id(d[2])' : d \in timers_'}
      BY <2>2, <2>5, <3>1
    <3>3. \A d \in timers_' \cup expired : heap'[d[2]] # Free /\ heap'[d[2]].expiration = d[1]
      BY <2>4, <2>5, Where, Zenon
    <3>4. \A c \in timers_', d \in expired : c[2] # d[2]
      BY <2>4, Zenon DEF TQInv, Pointers
    <3> QED
      BY <3>2, <3>3, <3>4, Zenon DEF Pointers
  <2>7. HeapOK' /\ SetsOK'
    BY <1>1, <2>2, Typed, Zenon DEF HeapOK, SetsOK
  <2>8. HeapInv'
    BY <1>1, <2>2, Zenon DEF TQInv, HeapInv
  <2>9. BatchInv'
    <3>1. \A d \in expired : Id(d[2]) # id /\ Id(d[2])' = Id(d[2])
      BY <2>5, Zenon
    <3> QED
      BY <2>2, <3>1, Zenon DEF TQInv, BatchInv
  <2>10. CancelInv'
    <3>1. ASSUME NEW b \in Addrs, Id(b)' \in cancelled'
          PROVE  \E d \in expired : d[2] = b
      <4>1. CASE b # e[2]
        BY <2>2, <2>3, <3>1, <4>1, Zenon DEF TQInv, CancelInv, CancelledIsGone
      <4>2. CASE b = e[2]
        <5>1. /\ heap'[b].sequence = 0 /\ Id(b)'[2] = heap'[b].sequence
              /\ id[2] = heap[b].sequence /\ heap[b].sequence # 0
          BY <2>2, <4>2, FreeTimer, Where DEF Id
        <5>2. \A c \in cancelled : c[2] \in 1 .. numCreated
          BY Zenon DEF TQInv, CancelInv
        <5>3. numCreated \in Nat
          BY Typed DEF HeapOK
        <5>4. \A c \in cancelled : c[2] # 0
          BY <5>2, <5>3
        <5> QED
          BY <2>2, <3>1, <5>1, <5>4, Zenon
      <4> QED
        BY <4>1, <4>2, Zenon
    <3>2. id[2] \in 1 .. numCreated
      <4>1. id[2] = heap[e[2]].sequence
        BY <2>2 DEF Id
      <4> QED
        BY <4>1, Where, Zenon DEF TQInv, HeapInv
    <3> QED
      BY <1>1, <2>2, <3>1, <3>2, Zenon DEF TQInv, CancelInv, CancelledIsGone
  <2>11. Armed'
    BY <2>2, <2>4, Zenon DEF TQInv, Armed
  <2>12. /\ \A b \in Addrs : heap'[b] # Free => heap'[b] = heap[b] /\ Id(b)' = Id(b)
         /\ \A b \in Addrs : heap'[b] # heap[b] => \E d \in timers_ : d[2] = b
         /\ \A b \in Addrs : Id(b) \in activeTimers_ /\ heap'[b] # Free => Id(b) \in activeTimers_'
    BY <2>2, <2>3, Zenon
  <2> QED
    BY <1>2, <2>4, <2>5, <2>6, <2>7, <2>8, <2>9, <2>10, <2>11, <2>12, Zenon
<1>4. CASE CancelMisses(id)
  <2>1. /\ UNCHANGED <<timers_, activeTimers_, heap>>
        /\ cancelingTimers_' = IF callingExpiredTimers_ THEN cancelingTimers_ \cup {id} ELSE cancelingTimers_
        /\ cancelled' = IF \E e \in expired : Id(e[2]) = id THEN cancelled \cup {id} ELSE cancelled
    BY <1>4, Zenon DEF CancelMisses
  <2>2. Pointers' /\ HeapInv' /\ \A a : Id(a)' = Id(a)
    BY <1>1, <2>1, FrameSets, Zenon
  <2>3. HeapOK' /\ SetsOK'
    <3>1. cancelingTimers_' \subseteq cancelingTimers_ \cup {id} /\ cancelled' \subseteq cancelled \cup {id}
      BY <2>1, Zenon
    <3> QED
      BY <1>1, <2>1, <3>1, Typed, Zenon DEF HeapOK, SetsOK
  <2>4. expired # {} => callingExpiredTimers_
    BY Zenon DEF TQInv, PhaseInv
  <2>5. BatchInv'
    <3>1. ASSUME NEW e \in expired
          PROVE  Id(e[2]) \in cancelled' <=> Id(e[2]) \in cancelingTimers_'
      <4>1. cancelingTimers_' = cancelingTimers_ \cup {id}
        BY <2>1, <2>4, Zenon
      <4>2. Id(e[2]) \in cancelled <=> Id(e[2]) \in cancelingTimers_
        BY Zenon DEF TQInv, BatchInv
      <4> QED
        BY <2>1, <4>1, <4>2, Zenon
    <3> QED
      BY <2>2, <3>1, Zenon DEF TQInv, BatchInv
  <2>6. CancelInv'
    <3>1. CASE \E e \in expired : Id(e[2]) = id
      <4>1. PICK e \in expired : Id(e[2]) = id
        BY <3>1, Zenon
      <4>2. id[2] \in 1 .. numCreated
        <5>1. id[2] = heap[e[2]].sequence
          BY <4>1 DEF Id
        <5> QED
          BY <5>1, Where, Zenon DEF TQInv, HeapInv
      <4>3. \A b : Id(b) = id => b = e[2]
        BY <4>1 DEF Id
      <4>4. cancelled' = cancelled \cup {id}
        BY <2>1, <3>1, Zenon
      <4> QED
        BY <1>1, <2>2, <4>2, <4>3, <4>4, Zenon DEF TQInv, CancelInv, CancelledIsGone
    <3>2. CASE ~ \E e \in expired : Id(e[2]) = id
      BY <1>1, <2>1, <3>2, FrameCancel, Zenon
    <3> QED
      BY <3>1, <3>2, Zenon
  <2>7. Armed'
    BY <2>1, Zenon DEF TQInv, Armed
  <2> QED
    BY <1>2, <2>1, <2>2, <2>3, <2>5, <2>6, <2>7, Zenon
<1> QED
  BY <1>3, <1>4, CancelEffect, Zenon

LEMMA LoopCancelKeeps ==
  ASSUME TQInv, Cancel
  PROVE  TQInv'
<1>1. PICK id \in ids : CancelInLoop(id)
  BY Zenon DEF Cancel
<1>2. UNCHANGED <<now, callingExpiredTimers_, loopPc, expired, toRun, readAt, timerfd, polled,
                  pending, adding, ids, ran>>
  BY DEF Cancel, batch, others
<1>3. id \in TimerIds
  BY Typed, Zenon DEF SetsOK
<1>4. /\ HeapOK' /\ SetsOK' /\ PhaseOK' /\ Pointers' /\ HeapInv' /\ PhaseInv' /\ BatchInv' /\ CancelInv'
      /\ Armed'
      /\ \A b \in Addrs : heap'[b] # Free => heap'[b] = heap[b] /\ Id(b)' = Id(b)
      /\ \A b \in Addrs : heap'[b] # heap[b] => \E e \in timers_ : e[2] = b
      /\ \A e \in expired : Id(e[2])' = Id(e[2])
      /\ timers_' \subseteq timers_
      /\ \A b \in Addrs : Id(b) \in activeTimers_ /\ heap'[b] # Free => Id(b) \in activeTimers_'
  BY <1>1, <1>2, <1>3, CancelKeeps, Zenon
<1>5. PendingInv'
  <2>1. ASSUME NEW i \in 1 .. Len(pending), IsAdd(pending[i])
        PROVE  Waits(i)'
    <3>1. PICK b \in Addrs :
            /\ b = pending[i][2][1] /\ pending[i][2] = Id(b) /\ heap[b] # Free
            /\ \A e \in timers_ \cup expired : e[2] # b
      BY <2>1, Zenon DEF TQInv, PendingInv, Waits
    <3>2. heap'[b] = heap[b] /\ Id(b)' = Id(b)
      BY <1>4, <3>1, Zenon
    <3> QED
      BY <1>2, <1>4, <3>1, <3>2, Zenon DEF Waits
  <2>2. \A i \in 1 .. Len(pending) : Waits(i)'
    BY <1>2, <2>1, Zenon DEF Waits
  <2> QED
    BY <1>2, <2>2, Zenon DEF TQInv, PendingInv
<1>6. NoneLeaks'
  <2> SUFFICES ASSUME NEW b \in Addrs, heap'[b] # Free
               PROVE  \/ Id(b)' \in activeTimers_' \cup {Id(e[2])' : e \in expired'}
                      \/ \E i \in DOMAIN pending' : pending'[i] = <<"add", Id(b)'>>
    BY Zenon DEF NoneLeaks
  <2>1. heap[b] # Free /\ Id(b)' = Id(b)
    BY <1>4, Zenon
  <2>2. {Id(e[2])' : e \in expired'} = {Id(e[2]) : e \in expired}
    BY <1>2, <1>4
  <2>3. CASE Id(b) \in activeTimers_ \cup {Id(e[2]) : e \in expired}
    BY <1>4, <2>1, <2>2, <2>3, Zenon
  <2>4. CASE \E i \in DOMAIN pending : pending[i] = <<"add", Id(b)>>
    BY <1>2, <2>1, <2>4, Zenon
  <2> QED
    BY <2>1, <2>3, <2>4, Zenon DEF TQInv, NoneLeaks
<1>7. TQTypeOK'
  BY <1>2, <1>4, Types, Typed, Zenon DEF CallsOK
<1> QED
  BY <1>4, <1>5, <1>6, <1>7, Zenon DEF TQInv

LEMMA PendingCancelKeeps ==
  ASSUME TQInv, PendingCancel
  PROVE  TQInv'
<1>1. UNCHANGED <<now, callingExpiredTimers_, loopPc, expired, toRun, readAt, timerfd, polled,
                  adding, ids, ran>>
  BY DEF PendingCancel, batch
<1> DEFINE id == Head(pending)[2]
<1>2. /\ pending # <<>> /\ ~IsAdd(pending[1]) /\ pending' = Tail(pending) /\ CancelInLoop(id)
      /\ Head(pending) = pending[1] /\ 1 \in 1 .. Len(pending)
  <2>1. pending # <<>> /\ Head(pending)[1] = "cancel" /\ pending' = Tail(pending) /\ CancelInLoop(id)
    BY Zenon DEF PendingCancel
  <2>2. Head(pending) = pending[1] /\ 1 \in 1 .. Len(pending)
    BY <2>1, TailCall, Typed, Zenon
  <2>3. ~IsAdd(Head(pending))
    <3>1. Head(pending)[1] = "cancel"
      BY <2>1, Zenon
    <3> QED
      BY <3>1 DEF IsAdd
  <2> QED
    BY <2>1, <2>2, <2>3, Zenon
<1>3. id \in TimerIds
  <2>1. pending[1] \in Calls
    BY <1>2, Where, Zenon
  <2> QED
    BY <1>2, <2>1 DEF Calls
<1> HIDE DEF id
<1>4. /\ HeapOK' /\ SetsOK' /\ PhaseOK' /\ Pointers' /\ HeapInv' /\ PhaseInv' /\ BatchInv' /\ CancelInv'
      /\ Armed'
      /\ \A b \in Addrs : heap'[b] # Free => heap'[b] = heap[b] /\ Id(b)' = Id(b)
      /\ \A b \in Addrs : heap'[b] # heap[b] => \E e \in timers_ : e[2] = b
      /\ \A e \in expired : Id(e[2])' = Id(e[2])
      /\ timers_' \subseteq timers_
      /\ \A b \in Addrs : Id(b) \in activeTimers_ /\ heap'[b] # Free => Id(b) \in activeTimers_'
  BY <1>1, <1>2, <1>3, CancelKeeps, Zenon
<1>5. /\ pending' \in Seq(Calls)
      /\ \A i \in 1 .. Len(pending') :
           i + 1 \in 1 .. Len(pending) /\ pending'[i] = pending[i + 1] /\ i + 1 # 1
      /\ \A j \in 1 .. Len(pending) : j # 1 => j - 1 \in 1 .. Len(pending') /\ pending'[j - 1] = pending[j]
      /\ DOMAIN pending = 1 .. Len(pending) /\ DOMAIN pending' = 1 .. Len(pending')
      /\ \A i, j \in 1 .. Len(pending') : i + 1 = j + 1 => i = j
  BY <1>2, TailCall, Typed, Zenon
<1>6. PendingInv'
  <2>1. ASSUME NEW i \in 1 .. Len(pending'), IsAdd(pending'[i])
        PROVE  Waits(i)'
    <3>1. PICK k \in 1 .. Len(pending) : pending'[i] = pending[k]
      BY <1>5, Zenon
    <3>2. IsAdd(pending[k]) /\ Waits(k)
      BY <2>1, <3>1, Zenon DEF TQInv, PendingInv
    <3>3. PICK b \in Addrs :
            /\ b = pending[k][2][1] /\ pending[k][2] = Id(b) /\ heap[b] # Free
            /\ \A e \in timers_ \cup expired : e[2] # b
      BY <3>2, Zenon DEF Waits
    <3>4. heap'[b] = heap[b] /\ Id(b)' = Id(b)
      BY <1>4, <3>3, Zenon
    <3> QED
      BY <1>1, <1>4, <3>1, <3>3, <3>4, Zenon DEF Waits
  <2>2. \A i \in 1 .. Len(pending') : Waits(i)'
    BY <2>1, Zenon DEF Waits
  <2>3. ASSUME NEW i \in 1 .. Len(pending'), NEW j \in 1 .. Len(pending'), IsAdd(pending'[i]),
               IsAdd(pending'[j]), pending'[i][2][1] = pending'[j][2][1]
        PROVE  i = j
    <3>1. PICK k \in 1 .. Len(pending) : k = i + 1 /\ pending'[i] = pending[k]
      BY <1>5, Zenon
    <3>2. PICK l \in 1 .. Len(pending) : l = j + 1 /\ pending'[j] = pending[l]
      BY <1>5, Zenon
    <3>3. IsAdd(pending[k]) /\ IsAdd(pending[l]) /\ pending[k][2][1] = pending[l][2][1]
      BY <2>3, <3>1, <3>2, Zenon
    <3>4. k = l
      BY <3>3, Zenon DEF TQInv, PendingInv
    <3> QED
      BY <1>5, <3>1, <3>2, <3>4, Zenon
  <2> QED
    BY <2>2, <2>3, Zenon DEF PendingInv
<1>7. NoneLeaks'
  <2> SUFFICES ASSUME NEW b \in Addrs, heap'[b] # Free
               PROVE  \/ Id(b)' \in activeTimers_' \cup {Id(e[2])' : e \in expired'}
                      \/ \E i \in 1 .. Len(pending') : pending'[i] = <<"add", Id(b)'>>
    BY <1>5, Zenon DEF NoneLeaks
  <2>1. heap[b] # Free /\ Id(b)' = Id(b)
    BY <1>4, Zenon
  <2>2. {Id(e[2])' : e \in expired'} = {Id(e[2]) : e \in expired}
    BY <1>1, <1>4
  <2>3. CASE Id(b) \in activeTimers_ \cup {Id(e[2]) : e \in expired}
    BY <1>4, <2>1, <2>2, <2>3, Zenon
  <2>4. CASE \E i \in DOMAIN pending : pending[i] = <<"add", Id(b)>>
    <3>1. PICK i \in 1 .. Len(pending) : pending[i] = <<"add", Id(b)>>
      BY <1>5, <2>4, Zenon
    <3>2. IsAdd(<<"add", Id(b)>>)
      BY DEF IsAdd
    <3>3. i # 1
      BY <1>2, <3>1, <3>2, Zenon
    <3> QED
      BY <1>5, <2>1, <3>1, <3>3, Zenon
  <2> QED
    BY <2>1, <2>3, <2>4, Zenon DEF TQInv, NoneLeaks
<1>8. TQTypeOK'
  BY <1>1, <1>4, <1>5, Types, Typed, Zenon DEF CallsOK
<1> QED
  BY <1>4, <1>6, <1>7, <1>8, Zenon DEF TQInv

-----------------------------------------------------------------------------
(* handleRead(): getExpired() moves the timers that are due to the batch. *)
LEMMA HandleReadKeeps ==
  ASSUME TQInv, HandleRead
  PROVE  TQInv'
<1>1. /\ loopPc = "idle" /\ polled' = FALSE /\ readAt' = now
      /\ timerfd' = [timerfd EXCEPT !.readable = FALSE]
      /\ expired' = Expired /\ toRun' = Expired /\ timers_' = timers_ \ Expired
      /\ activeTimers_' = activeTimers_ \ {Id(e[2]) : e \in Expired}
      /\ callingExpiredTimers_' = TRUE /\ cancelingTimers_' = {} /\ loopPc' = "batch"
      /\ UNCHANGED <<now, heap, numCreated, pending, adding, ids, ran, cancelled>>
  BY DEF HandleRead, store, others, history
<1>2. Expired \subseteq timers_ /\ expired = {} /\ \A a : Id(a)' = Id(a)
  BY <1>1, Zenon DEF Expired, Id, TQInv, PhaseInv
<1>3. \A d, e \in timers_ : d[2] = e[2] => d = e
  <2> SUFFICES ASSUME NEW d \in timers_, NEW e \in timers_, d[2] = e[2] PROVE d = e
    BY Zenon
  <2>1. /\ d = <<d[1], d[2]>> /\ heap[d[2]].expiration = d[1]
        /\ e = <<e[1], e[2]>> /\ heap[e[2]].expiration = e[1]
    BY Where, Zenon
  <2> QED
    BY <2>1, Zenon
<1>4. Pointers'
  <2>1. \A d, e : Id(d) = Id(e) => d = e
    BY DEF Id
  <2>2. \A d, e \in timers_ : Id(d[2]) = Id(e[2]) => d = e
    BY <1>3, <2>1, Zenon
  <2>3. activeTimers_ = {Id(e[2]) : e \in timers_}
    BY Zenon DEF TQInv, Pointers
  <2>4. activeTimers_' = {Id(e[2]) : e \in timers_ \ Expired}
    BY <1>1, <1>2, <2>2, <2>3, Zenon
  <2>5. activeTimers_' = {Id(e[2])' : e \in timers_'}
    BY <1>1, <1>2, <2>4, Zenon
  <2>6. \A d \in timers_', e \in expired' : d[2] # e[2]
    BY <1>1, <1>2, <1>3, Zenon
  <2>7. \A e \in timers_' \cup expired' : heap'[e[2]] # Free /\ heap'[e[2]].expiration = e[1]
    BY <1>1, <1>2, Zenon DEF TQInv, Pointers
  <2> QED
    BY <2>5, <2>6, <2>7, Zenon DEF Pointers
<1>5. PendingInv'
  <2>1. \A e \in timers_' \cup expired' : e \in timers_
    BY <1>1, <1>2, Zenon
  <2>2. ASSUME NEW i \in 1 .. Len(pending) PROVE Waits(i)'
    <3>1. Waits(i)
      BY Zenon DEF TQInv, PendingInv
    <3> QED
      BY <1>1, <1>2, <2>1, <3>1, Zenon DEF Waits
  <2> QED
    BY <1>1, <2>2, Zenon DEF TQInv, PendingInv
<1>6. HeapInv' /\ PhaseInv' /\ Armed'
  BY <1>1, Zenon DEF TQInv, HeapInv, PhaseInv, NoId, Armed
<1>7. ASSUME NEW e \in Expired PROVE Id(e[2]) \notin cancelled
  <2>1. e[2] \in Addrs
    BY <1>2, Where, Zenon
  <2> QED
    BY <1>2, <2>1, Zenon DEF TQInv, CancelInv, CancelledIsGone
<1>8. BatchInv'
  BY <1>1, <1>2, <1>7, Zenon DEF BatchInv
<1>9. CancelInv'
  BY <1>1, <1>2, Zenon DEF TQInv, CancelInv, CancelledIsGone
<1>10. NoneLeaks'
  <2> SUFFICES ASSUME NEW a \in Addrs, heap[a] # Free
               PROVE  \/ Id(a) \in activeTimers_' \cup {Id(e[2]) : e \in expired'}
                      \/ \E i \in DOMAIN pending : pending[i] = <<"add", Id(a)>>
    BY <1>1, <1>2, Zenon DEF NoneLeaks
  <2> QED
    BY <1>1, <1>2, Zenon DEF TQInv, NoneLeaks
<1>11. TQTypeOK'
  <2>1. now \in 0 .. MaxTime
    BY Typed DEF HeapOK
  <2>2. timerfd' \in [expiry : Times, readable : BOOLEAN]
    <3>1. timerfd \in [expiry : Times, readable : BOOLEAN]
      BY Typed, Zenon DEF PhaseOK
    <3>2. timerfd' = [timerfd EXCEPT !.readable = FALSE]
      BY <1>1, Zenon
    <3> QED
      BY <3>1, <3>2, Zenon
  <2>3. HeapOK' /\ CallsOK'
    BY <1>1, Typed, Zenon DEF HeapOK, CallsOK
  <2>4. SetsOK'
    BY <1>1, <1>2, Typed, Zenon DEF SetsOK
  <2>5. PhaseOK'
    BY <1>1, <2>1, <2>2, Zenon DEF PhaseOK
  <2> QED
    BY <2>3, <2>4, <2>5, Types, Zenon
<1> QED
  BY <1>4, <1>5, <1>6, <1>8, <1>9, <1>10, <1>11, Zenon DEF TQInv

(* reset(): what becomes of each Timer. *)
LEMMA ResetEffect ==
  ASSUME TQInv, Reset
  PROVE  /\ heap' \in [Addrs -> Timers]
         /\ \A e \in Restarted : Id(e[2])' = Id(e[2]) /\ heap'[e[2]] # Free
         /\ \A e \in expired \ Restarted : heap'[e[2]] = Free
         /\ \A a \in Addrs : (\A e \in expired : e[2] # a) => heap'[a] = heap[a]
<1>1. heap' = [a \in Addrs |->
                 IF \E e \in Restarted : e[2] = a
                 THEN Restart(heap[a])
                 ELSE IF \E e \in expired : e[2] = a THEN Free ELSE heap[a]]
  BY Zenon DEF Reset
<1>2. Restarted \subseteq expired /\ \A e \in Restarted : heap[e[2]].interval > 0
  BY Zenon DEF Restarted
<1>3. ASSUME NEW e \in Restarted
      PROVE  Restart(heap[e[2]]) \in Timers /\ Restart(heap[e[2]]).sequence = heap[e[2]].sequence
  <2>1. heap[e[2]] \in Timers /\ readAt \in 0 .. MaxTime /\ heap[e[2]].interval > 0
    BY <1>2, Typed, Where, Zenon DEF HeapOK, PhaseOK
  <2>2. heap[e[2]].interval \in Intervals
    BY <2>1, TimerAssumption DEF Timers
  <2>3. readAt + heap[e[2]].interval \in Times
    BY <2>1, <2>2, Bounds, Zenon
  <2> QED
    BY <2>1, <2>3 DEF Restart, Timers
<1>4. heap' \in [Addrs -> Timers]
  <2>1. ASSUME NEW a \in Addrs
        PROVE  (IF \E e \in Restarted : e[2] = a
                THEN Restart(heap[a])
                ELSE IF \E e \in expired : e[2] = a THEN Free ELSE heap[a]) \in Timers
    <3>1. heap[a] \in Timers /\ Free \in Timers
      BY Typed, FreeTimer, Zenon DEF HeapOK
    <3>2. (\E e \in Restarted : e[2] = a) => Restart(heap[a]) \in Timers
      BY <1>3, Zenon
    <3> QED
      BY <3>1, <3>2, Zenon
  <2> QED
    BY <1>1, <2>1, Zenon
<1>5. ASSUME NEW e \in Restarted
      PROVE  Id(e[2])' = Id(e[2]) /\ heap'[e[2]] # Free
  <2>1. e[2] \in Addrs /\ heap[e[2]].sequence # 0
    BY <1>2, Where, Zenon
  <2>2. heap'[e[2]] = Restart(heap[e[2]])
    BY <1>1, <2>1, Zenon
  <2>3. heap'[e[2]].sequence = heap[e[2]].sequence
    BY <1>3, <2>2, Zenon
  <2>4. Id(e[2])' = Id(e[2])
    <3>1. PICK a \in Addrs : a = e[2]
      BY <2>1, Zenon
    <3> QED
      BY <2>3, <3>1, Zenon DEF Id
  <2> QED
    BY <2>1, <2>3, <2>4, FreeTimer, Zenon
<1>6. ASSUME NEW e \in expired \ Restarted
      PROVE  heap'[e[2]] = Free
  <2>1. e[2] \in Addrs /\ ~ \E d \in Restarted : d[2] = e[2]
    <3>1. ASSUME NEW d \in Restarted, d[2] = e[2] PROVE FALSE
      <4>1. /\ d = <<d[1], d[2]>> /\ heap[d[2]].expiration = d[1]
            /\ e = <<e[1], e[2]>> /\ heap[e[2]].expiration = e[1]
        BY <1>2, Where, Zenon
      <4> QED
        BY <3>1, <4>1, Zenon
    <3> QED
      BY <3>1, Where, Zenon
  <2> QED
    BY <1>1, <2>1, Zenon
<1>7. \A a \in Addrs : (\A e \in expired : e[2] # a) => heap'[a] = heap[a]
  BY <1>1, <1>2, Zenon
<1> QED
  BY <1>4, <1>5, <1>6, <1>7, Zenon

LEMMA ResetArms ==
  ASSUME TQInv, timers_' \subseteq Entries, timerfd' = NextExpire(timers_'), now' = now
  PROVE  Armed' /\ timerfd' \in [expiry : Times, readable : BOOLEAN]
<1>1. HeapOK /\ timerfd \in [expiry : Times, readable : BOOLEAN]
  BY Typed, Zenon DEF PhaseOK
<1>2. CASE timers_' = {}
  BY <1>1, <1>2, Zenon DEF Armed, NextExpire
<1>3. CASE timers_' # {}
  <2> DEFINE S == {e[1] : e \in timers_'}
             m == Min(S)
  <2>1. \A e \in Entries : e[1] \in Times
    BY DEF Entries
  <2>2. S \in SUBSET Times /\ S # {} /\ Times \subseteq Nat
    BY <1>3, <2>1, Bounds DEF Times
  <2>3. m \in S /\ \A y \in S : m <= y
    BY <2>2, MinOf, Zenon
  <2>4. m \in Times /\ timerfd' = ResetTimerfd(m) /\ \A e \in timers_' : m <= e[1] /\ e[1] \in Times
    BY <1>3, <2>1, <2>2, <2>3, Zenon DEF NextExpire
  <2> HIDE DEF S, m
  <2>5. /\ timerfd' \in [expiry : Times, readable : BOOLEAN]
        /\ timerfd'.expiry <= m \/ timerfd'.expiry <= now
    BY <1>1, <2>4, ResetType, Zenon
  <2>6. timerfd'.expiry \in Nat /\ m \in Nat /\ \A e \in timers_' : m <= e[1] /\ e[1] \in Nat
    <3>1. timerfd'.expiry \in Times
      BY <2>5
    <3> QED
      BY <2>2, <2>4, <3>1, Zenon
  <2>7. \A e \in timers_' : timerfd'.expiry <= e[1] \/ timerfd'.expiry <= now
    BY <2>5, <2>6
  <2> QED
    BY <2>5, <2>7, Zenon DEF Armed
<1> QED
  BY <1>2, <1>3, Zenon

LEMMA ResetKeeps ==
  ASSUME TQInv, Reset
  PROVE  TQInv'
<1>1. /\ loopPc = "batch" /\ toRun = {}
      /\ timers_' = timers_ \cup {<<heap'[e[2]].expiration, e[2]>> : e \in Restarted}
      /\ activeTimers_' = activeTimers_ \cup {Id(e[2]) : e \in Restarted}
      /\ timerfd' = NextExpire(timers_') /\ callingExpiredTimers_' = FALSE
      /\ loopPc' = "idle" /\ expired' = {} /\ readAt' = 0
      /\ UNCHANGED <<now, numCreated, toRun, cancelingTimers_, polled, pending, adding, ids, ran, cancelled>>
  BY Zenon DEF Reset, others, history
<1>2. /\ heap' \in [Addrs -> Timers]
      /\ \A e \in Restarted : Id(e[2])' = Id(e[2]) /\ heap'[e[2]] # Free
      /\ \A e \in expired \ Restarted : heap'[e[2]] = Free
      /\ \A a \in Addrs : (\A e \in expired : e[2] # a) => heap'[a] = heap[a]
  BY ResetEffect, Zenon
<1>3. Restarted \subseteq expired /\ \A e \in Restarted : Id(e[2]) \notin cancelingTimers_
  BY Zenon DEF Restarted
<1>4. \A a \in Addrs : (\A e \in expired : e[2] # a) => Id(a)' = Id(a)
  BY <1>2, Zenon DEF Id
<1> DEFINE New(e) == <<heap'[e[2]].expiration, e[2]>>
<1>5. ASSUME NEW e \in Restarted
      PROVE  New(e) \in Entries /\ New(e)[1] = heap'[e[2]].expiration /\ New(e)[2] = e[2] /\ e[2] \in Addrs
  <2>1. e[2] \in Addrs
    BY <1>3, Where, Zenon
  <2>2. heap'[e[2]].expiration \in Times
    BY <1>2, <2>1 DEF Timers
  <2> QED
    BY <2>1, <2>2 DEF Entries
<1>6. timers_' = timers_ \cup {New(e) : e \in Restarted}
  BY <1>1, Zenon
<1> HIDE DEF New
<1>7. \A d \in timers_ : heap'[d[2]] = heap[d[2]] /\ Id(d[2])' = Id(d[2])
  <2>1. \A d \in timers_ : d[2] \in Addrs /\ \A e \in expired : e[2] # d[2]
    BY Where, Zenon DEF TQInv, Pointers
  <2> QED
    BY <1>2, <1>4, <2>1, Zenon
<1>8. Pointers'
  <2>1. activeTimers_ = {Id(e[2]) : e \in timers_}
    BY Zenon DEF TQInv, Pointers
  <2>2. ASSUME NEW e \in timers_' PROVE Id(e[2])' \in activeTimers_'
    <3>1. CASE e \in timers_
      BY <1>1, <1>7, <2>1, <3>1, Zenon
    <3>2. CASE e \in {New(d) : d \in Restarted}
      <4>1. PICK d \in Restarted : e = New(d)
        BY <3>2, Zenon
      <4>2. e[2] = d[2]
        BY <1>5, <4>1, Zenon
      <4>3. Id(d[2])' \in activeTimers_'
        BY <1>1, <1>2, Zenon
      <4> QED
        BY <4>2, <4>3, Zenon
    <3> QED
      BY <1>6, <3>1, <3>2, Zenon
  <2>3. ASSUME NEW t \in activeTimers_' PROVE \E e \in timers_' : t = Id(e[2])'
    <3>1. CASE t \in activeTimers_
      BY <1>6, <1>7, <2>1, <3>1, Zenon
    <3>2. CASE t \in {Id(e[2]) : e \in Restarted}
      <4>1. PICK d \in Restarted : t = Id(d[2])
        BY <3>2, Zenon
      <4>2. PICK e \in timers_' : e = New(d)
        BY <1>6, Zenon
      <4>3. e[2] = d[2]
        BY <1>5, <4>2, Zenon
      <4> QED
        BY <1>2, <4>1, <4>3, Zenon
    <3> QED
      BY <1>1, <3>1, <3>2, Zenon
  <2>4. activeTimers_' = {Id(e[2])' : e \in timers_'}
    BY <2>2, <2>3, Zenon
  <2>5. ASSUME NEW e \in timers_' PROVE heap'[e[2]] # Free /\ heap'[e[2]].expiration = e[1]
    <3>1. CASE e \in timers_
      BY <1>7, <3>1, Where, Zenon
    <3>2. CASE e \in {New(d) : d \in Restarted}
      <4>1. PICK d \in Restarted : e = New(d)
        BY <3>2, Zenon
      <4>2. e[2] = d[2] /\ e[1] = heap'[d[2]].expiration /\ heap'[d[2]] # Free
        BY <1>2, <1>5, <4>1, Zenon
      <4> QED
        BY <4>2, Zenon
    <3> QED
      BY <1>6, <3>1, <3>2, Zenon
  <2> QED
    BY <1>1, <2>4, <2>5, Zenon DEF Pointers
<1>9. ASSUME NEW e \in timers_' PROVE \E d \in timers_ \cup expired : e[2] = d[2]
  <2>1. CASE e \in timers_
    BY <2>1, Zenon
  <2>2. CASE e \in {New(d) : d \in Restarted}
    <3>1. PICK d \in Restarted : e = New(d)
      BY <2>2, Zenon
    <3> QED
      BY <1>3, <1>5, <3>1, Zenon
  <2> QED
    BY <1>6, <2>1, <2>2, Zenon
<1>10. PendingInv'
  <2>1. ASSUME NEW i \in 1 .. Len(pending), IsAdd(pending[i])
        PROVE  Waits(i)'
    <3>1. PICK b \in Addrs :
            /\ b = pending[i][2][1] /\ pending[i][2] = Id(b) /\ heap[b] # Free
            /\ \A e \in timers_ \cup expired : e[2] # b
      BY <2>1, Zenon DEF TQInv, PendingInv, Waits
    <3>2. heap'[b] = heap[b] /\ Id(b)' = Id(b)
      BY <1>2, <1>4, <3>1, Zenon
    <3>3. \A e \in timers_' \cup expired' : e[2] # b
      BY <1>1, <1>9, <3>1, Zenon
    <3> QED
      BY <1>1, <3>1, <3>2, <3>3, Zenon DEF Waits
  <2>2. \A i \in 1 .. Len(pending) : Waits(i)'
    BY <1>1, <2>1, Zenon DEF Waits
  <2> QED
    BY <1>1, <2>2, Zenon DEF TQInv, PendingInv
<1>11. HeapInv'
  <2> SUFFICES ASSUME NEW a \in Addrs, heap'[a] # Free PROVE heap'[a].sequence \in 1 .. numCreated
    BY <1>1, Zenon DEF HeapInv
  <2>1. CASE \A e \in expired : e[2] # a
    BY <1>2, <2>1, Zenon DEF TQInv, HeapInv
  <2>2. CASE \E e \in expired : e[2] = a
    <3>1. PICK e \in Restarted : e[2] = a
      BY <1>2, <2>2, Zenon
    <3>2. Id(a)' = Id(a) /\ heap[a] # Free
      BY <1>2, <1>3, <3>1, Where, Zenon
    <3>3. heap'[a].sequence = heap[a].sequence
      BY <3>2 DEF Id
    <3> QED
      BY <3>2, <3>3, Zenon DEF TQInv, HeapInv
  <2> QED
    BY <2>1, <2>2, Zenon
<1>12. PhaseInv' /\ BatchInv'
  BY <1>1, Zenon DEF TQInv, PhaseInv, NoId, BatchInv
<1>13. CancelInv'
  <2>1. ASSUME NEW a \in Addrs, Id(a)' \in cancelled PROVE FALSE
    <3>1. CASE \A e \in expired : e[2] # a
      BY <1>4, <2>1, <3>1, Zenon DEF TQInv, CancelInv, CancelledIsGone
    <3>2. CASE \E e \in Restarted : e[2] = a
      <4>1. PICK e \in Restarted : e[2] = a
        BY <3>2, Zenon
      <4>2. Id(a)' = Id(e[2]) /\ Id(e[2]) \notin cancelled
        BY <1>2, <1>3, <4>1, Zenon DEF TQInv, BatchInv
      <4> QED
        BY <2>1, <4>2, Zenon
    <3>3. CASE \E e \in expired \ Restarted : e[2] = a
      <4>1. Id(a)'[2] = 0
        BY <1>2, <3>3, FreeTimer DEF Id
      <4>2. \A c \in cancelled : c[2] \in 1 .. numCreated
        BY Zenon DEF TQInv, CancelInv
      <4>3. numCreated \in Nat
        BY Typed DEF HeapOK
      <4>4. \A c \in cancelled : c[2] # 0
        BY <4>2, <4>3
      <4> QED
        BY <2>1, <4>1, <4>4, Zenon
    <3> QED
      BY <3>1, <3>2, <3>3, Zenon
  <2> QED
    BY <1>1, <2>1, Zenon DEF TQInv, CancelInv, CancelledIsGone
<1>14. NoneLeaks'
  <2> SUFFICES ASSUME NEW a \in Addrs, heap'[a] # Free
               PROVE  \/ Id(a)' \in activeTimers_'
                      \/ \E i \in DOMAIN pending : pending[i] = <<"add", Id(a)'>>
    BY <1>1, Zenon DEF NoneLeaks
  <2>1. CASE \A e \in expired : e[2] # a
    <3>1. heap[a] # Free /\ Id(a)' = Id(a)
      BY <1>2, <1>4, <2>1, Zenon
    <3>2. \A e \in expired : Id(e[2]) # Id(a)
      <4>1. \A b : Id(b) = Id(a) => b = a
        BY DEF Id
      <4> QED
        BY <2>1, <4>1, Zenon
    <3> QED
      BY <1>1, <3>1, <3>2, Zenon DEF TQInv, NoneLeaks
  <2>2. CASE \E e \in expired : e[2] = a
    <3>1. PICK e \in Restarted : e[2] = a
      BY <1>2, <2>2, Zenon
    <3> QED
      BY <1>1, <1>2, <3>1, Zenon
  <2> QED
    BY <2>1, <2>2, Zenon
<1>15. timers_' \subseteq Entries
  <2>1. timers_ \subseteq Entries
    BY Typed, Zenon DEF SetsOK
  <2> QED
    BY <1>5, <1>6, <2>1, Zenon
<1>16. Armed' /\ timerfd' \in [expiry : Times, readable : BOOLEAN]
  BY <1>1, <1>15, ResetArms, Zenon
<1>17. TQTypeOK'
  <2>1. HeapOK' /\ CallsOK'
    BY <1>1, <1>2, Typed, Zenon DEF HeapOK, CallsOK
  <2>2. ASSUME NEW e \in Restarted PROVE Id(e[2]) \in TimerIds
    <3>1. e[2] \in Addrs /\ heap \in [Addrs -> Timers]
      BY <1>3, Typed, Where, Zenon DEF HeapOK
    <3> QED
      BY <3>1 DEF Id, TimerIds, Timers
  <2>3. SetsOK'
    <3>1. activeTimers_' \subseteq TimerIds
      BY <1>1, <2>2, Typed, Zenon DEF SetsOK
    <3> QED
      BY <1>1, <1>15, <3>1, Typed, Zenon DEF SetsOK
  <2>4. readAt' \in 0 .. MaxTime
    BY <1>1, TimerAssumption
  <2>5. PhaseOK'
    BY <1>1, <1>16, <2>4, Typed, Zenon DEF PhaseOK
  <2> QED
    BY <2>1, <2>3, <2>5, Types, Zenon
<1> QED
  BY <1>8, <1>10, <1>11, <1>12, <1>13, <1>14, <1>16, <1>17, Zenon DEF TQInv

-----------------------------------------------------------------------------
LEMMA InitHolds ==
  ASSUME TQInit
  PROVE  TQInv
<1>1. /\ now = 1 /\ heap = [a \in Addrs |-> Free] /\ numCreated = 0
      /\ timers_ = {} /\ activeTimers_ = {} /\ callingExpiredTimers_ = FALSE /\ cancelingTimers_ = {}
      /\ loopPc = "idle" /\ expired = {} /\ toRun = {} /\ readAt = 0
      /\ timerfd = [expiry |-> Never, readable |-> FALSE] /\ polled = FALSE
      /\ pending = <<>> /\ adding = NoId /\ ids = {} /\ ran = {} /\ cancelled = {}
  BY Zenon DEF TQInit
<1>2. \A a \in Addrs : heap[a] = Free
  BY <1>1, Zenon
<1>3. TQTypeOK
  <2>1. 1 \in 1 .. MaxTime /\ 0 \in 0 .. MaxTimers /\ 0 \in 0 .. MaxTime
    BY TimerAssumption
  <2>2. HeapOK
    BY <1>1, <2>1, FreeTimer DEF HeapOK
  <2>3. SetsOK
    BY <1>1, Zenon DEF SetsOK
  <2>4. PhaseOK
    <3>1. [expiry |-> Never, readable |-> FALSE] \in [expiry : Times, readable : BOOLEAN]
      BY Bounds DEF Times
    <3> QED
      BY <1>1, <2>1, <3>1, Zenon DEF PhaseOK
  <2>5. <<>> \in Seq(Calls) /\ NoId \in TimerIds
    BY <2>1 DEF NoId, TimerIds
  <2>6. CallsOK
    BY <1>1, <2>5, Zenon DEF CallsOK
  <2> QED
    BY <2>2, <2>3, <2>4, <2>6, Types, Zenon
<1>4. Pointers
  BY <1>1 DEF Pointers
<1>5. HeapInv /\ NoneLeaks
  BY <1>2, Zenon DEF HeapInv, NoneLeaks
<1>6. PendingInv
  <2>1. 1 .. Len(pending) = {}
    BY <1>1
  <2> QED
    BY <2>1, Zenon DEF PendingInv
<1>7. PhaseInv /\ BatchInv /\ CancelInv /\ Armed
  BY <1>1, Zenon DEF PhaseInv, BatchInv, CancelInv, CancelledIsGone, Armed
<1> QED
  BY <1>3, <1>4, <1>5, <1>6, <1>7, Zenon DEF TQInv

LEMMA NextKeeps ==
  ASSUME TQInv, [TQNext]_tqvars
  PROVE  TQInv'
BY AddTimerKeeps, LoopCancelKeeps, OtherAddTimerKeeps, OtherReturnKeeps, OtherCancelKeeps,
   PendingAddKeeps, PendingCancelKeeps, SimpleKeeps, HandleReadKeeps, ResetKeeps, Zenon DEF TQNext

LEMMA QueueInvariant == TQSpec => []TQInv
<1>1. TQInit => TQInv
  BY InitHolds
<1>2. TQInv /\ [TQNext]_tqvars => TQInv'
  BY NextKeeps
<1> QED
  BY <1>1, <1>2, PTL DEF TQSpec

(* Whatever the loop, other threads and the clock do, in whatever order,   *)
(* timers_ and activeTimers_ hold the same live Timers (TimerQueue's       *)
(* assertions on their sizes), no Timer leaks, and the timerfd is armed    *)
(* for the earliest of them.                                               *)
THEOREM TimersConsistent == TQSpec => []QueueConsistent
<1>1. TQInv => QueueConsistent
  <2> SUFFICES ASSUME TQInv PROVE QueueConsistent
    OBVIOUS
  <2>1. Cardinality(activeTimers_) = Cardinality(timers_)
    BY SameSize, Typed, Zenon DEF TQInv
  <2> QED
    BY <2>1, Zenon DEF TQInv, Pointers, QueueConsistent, SameTimers
<1> QED
  BY <1>1, QueueInvariant, PTL

(* A timer that cancelInLoop() found, in the queue or in the batch whose   *)
(* callbacks are running, is not started again and is deleted by the end   *)
(* of the batch.                                                           *)
THEOREM CancelIsFinal == TQSpec => []CancelledIsGone
<1>1. TQInv => CancelledIsGone
  BY DEF TQInv, CancelInv
<1> QED
  BY <1>1, QueueInvariant, PTL

(* A step that deletes a Timer is a cancel of that very timer, or the end  *)
(* of the batch in which this one-shot timer ran: the safety part of       *)
(* RunUnlessCancelled.                                                     *)
THEOREM DeletedOnlyWhenDone == TQSpec => DeletedWhenDone
<1> DEFINE Deletes(a) == heap[a] # Free /\ heap'[a].sequence # heap[a].sequence
           Done(a) == Id(a) \in cancelled' \/ (heap[a].interval = 0 /\ Id(a) \in ran)
<1>1. ASSUME TQInv, [TQNext]_tqvars, NEW a \in Addrs, Deletes(a)
      PROVE  Done(a)
  <2>1. CASE UNCHANGED heap
    BY <1>1, <2>1, Zenon
  <2>2. ASSUME NEW b \in Addrs, NEW delay \in Delays, NEW interval \in Intervals,
               NewTimer(b, delay, interval)
        PROVE  FALSE
    BY <1>1, <2>2, Create, Zenon DEF NewTimer
  <2>3. ASSUME NEW id, CancelInLoop(id)
        PROVE  Done(a)
    <3>1. CASE CancelMisses(id)
      BY <2>1, <3>1, Zenon DEF CancelMisses
    <3>2. CASE \E e \in timers_ : CancelFinds(id, e)
      <4>1. PICK e \in timers_ : CancelFinds(id, e)
        BY <3>2, Zenon
      <4>2. a = e[2]
        BY <1>1, <4>1, Zenon DEF CancelFinds
      <4> QED
        BY <4>1, <4>2, Zenon DEF CancelFinds
    <3> QED
      BY <1>1, <2>3, <3>1, <3>2, CancelEffect, Zenon
  <2>4. CASE Reset
    <3>1. PICK e \in expired \ Restarted : e[2] = a
      <4>1. ~ \A e \in expired : e[2] # a
        BY <1>1, <2>4, ResetEffect, Zenon
      <4>2. ~ \E e \in Restarted : e[2] = a
        <5>1. Id(a)' # Id(a)
          BY <1>1 DEF Id
        <5> QED
          BY <1>1, <2>4, <5>1, ResetEffect, Zenon
      <4> QED
        BY <4>1, <4>2, Zenon
    <3>2. CASE heap[a].interval > 0
      <4>1. Id(a) \in cancelingTimers_
        BY <3>1, <3>2, Zenon DEF Restarted
      <4>2. Id(a) \in cancelled
        BY <1>1, <3>1, <4>1, Zenon DEF TQInv, BatchInv
      <4> QED
        BY <2>4, <4>2 DEF Reset, history
    <3>3. CASE ~(heap[a].interval > 0)
      <4>1. heap[a].interval = 0
        <5>1. heap[a] \in Timers
          BY <1>1, Typed, Zenon DEF HeapOK
        <5>2. heap[a].interval \in Nat
          <6>1. Intervals \cup {0} \subseteq Nat
            BY TimerAssumption
          <6>2. heap[a].interval \in Intervals \cup {0}
            BY <5>1 DEF Timers
          <6> QED
            BY <6>1, <6>2, Zenon
        <5> QED
          BY <3>3, <5>2
      <4>2. toRun = {}
        BY <2>4, Zenon DEF Reset
      <4> QED
        BY <1>1, <3>1, <4>1, <4>2, Zenon DEF TQInv, BatchInv
    <3> QED
      BY <3>2, <3>3, Zenon
  <2>5. CASE AddTimer \/ OtherAddTimer
    BY <2>2, <2>5, Zenon DEF AddTimer, OtherAddTimer
  <2>6. CASE Cancel \/ PendingCancel
    BY <2>3, <2>6, Zenon DEF Cancel, PendingCancel
  <2>7. CASE OtherAddTimerReturn \/ OtherCancel \/ PendingAdd \/ Tick \/ TimerfdExpire \/ PollTimerfd
             \/ HandleRead \/ RunTimer \/ CallbackReturn \/ UNCHANGED tqvars
    <3>1. UNCHANGED heap
      BY <2>7 DEF OtherAddTimerReturn, OtherCancel, PendingAdd, Tick, TimerfdExpire, PollTimerfd,
                  HandleRead, RunTimer, CallbackReturn, tqvars, store
    <3> QED
      BY <2>1, <3>1, Zenon
  <2> QED
    BY <1>1, <2>4, <2>5, <2>6, <2>7, Zenon DEF TQNext
<1>2. TQInv /\ [TQNext]_tqvars =>
        [\A a \in Addrs :
           (heap[a] # Free /\ heap'[a].sequence # heap[a].sequence) =>
             \/ Id(a) \in cancelled'
             \/ heap[a].interval = 0 /\ Id(a) \in ran]_tqvars
  BY <1>1, Zenon
<1> QED
  BY <1>2, QueueInvariant, PTL DEF TQSpec, DeletedWhenDone
=============================================================================
