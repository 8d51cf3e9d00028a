--------------------------- MODULE TcpServerProofs ---------------------------
(***************************************************************************)
(* Proofs about EventLoopThreadPool and TcpServer: round robin spreads     *)
(* connections evenly, and the server keeps track of its connections over  *)
(* the threads, for every number of loops and of connections.              *)
(***************************************************************************)
EXTENDS TcpServer, TLAPS

(* Every loop was returned q times, those before next_ once more. *)
Rounds(q) == \A i \in 1 .. Len(loops_) : given[i] = IF i <= next_ THEN q + 1 ELSE q

PoolInv ==
  /\ PoolTypeOK
  /\ \E q \in Nat : Rounds(q)
  /\ loops_ = <<>> => next_ = 0
  /\ ~poolStarted_ => loops_ = <<>>

LEMMA PoolInvInit == PoolInit => PoolInv
<1> SUFFICES ASSUME PoolInit PROVE PoolInv
  OBVIOUS
<1>1. poolStarted_ \in BOOLEAN
  BY Zenon DEF PoolInit
<1>2. PoolTypeOK
  BY <1>1, MaxThreadsAssumption DEF PoolInit, PoolTypeOK
<1>3. Rounds(0)
  BY DEF PoolInit, Rounds
<1> QED
  BY <1>2, <1>3 DEF PoolInv, PoolInit

LEMMA PoolInvStep == PoolInv /\ [PoolNext]_poolVars => PoolInv'
<1> SUFFICES ASSUME PoolInv, [PoolNext]_poolVars PROVE PoolInv'
  OBVIOUS
<1> USE MaxThreadsAssumption
<1>1. ASSUME NEW n \in 0 .. MaxThreads, SetThreadNum(n) PROVE PoolInv'
  BY <1>1, Zenon DEF SetThreadNum, PoolInv, PoolTypeOK, Rounds
<1>2. ASSUME PoolStart PROVE PoolInv'
  <2>1. next_ = 0 /\ numThreads_ \in 0 .. MaxThreads
    BY <1>2 DEF PoolStart, PoolInv, PoolTypeOK
  <2>2. loops_' \in Seq(1 .. MaxThreads) /\ Len(loops_') = numThreads_
    BY <1>2, <2>1 DEF PoolStart
  <2>3. given' \in [1 .. Len(loops_') -> Nat] /\ Rounds(0)'
    BY <1>2, <2>1, <2>2 DEF PoolStart, Rounds
  <2>4. poolStarted_' \in BOOLEAN
    BY <1>2, Zenon DEF PoolStart
  <2>5. loops_' # <<>> => next_' < Len(loops_')
    BY <1>2, <2>1, <2>2 DEF PoolStart
  <2>6. PoolTypeOK'
    BY <1>2, <2>1, <2>2, <2>3, <2>4, <2>5 DEF PoolStart, PoolTypeOK
  <2> QED
    BY <1>2, <2>1, <2>3, <2>6 DEF PoolStart, PoolInv
<1>3. ASSUME GetNextLoop PROVE PoolInv'
  <2>1. CASE loops_ = <<>>
    BY <1>3, <2>1 DEF GetNextLoop, PoolInv, PoolTypeOK, Rounds
  <2>2. CASE loops_ # <<>>
    <3>1. /\ next_' = Advance /\ given' = [given EXCEPT ![next_ + 1] = @ + 1]
          /\ UNCHANGED <<poolStarted_, numThreads_, loops_>>
      BY <1>3, <2>2 DEF GetNextLoop
    <3>2. PICK q \in Nat : Rounds(q)
      BY DEF PoolInv
    <3>3. Len(loops_) \in Nat /\ next_ \in Nat /\ next_ < Len(loops_)
      BY <2>2 DEF PoolInv, PoolTypeOK
    <3>4. next_' \in Nat /\ next_' < Len(loops_')
      BY <3>1, <3>3 DEF Advance
    <3>5. PoolTypeOK'
      <4>1. given' \in [1 .. Len(loops_') -> Nat]
        <5>1. given \in [1 .. Len(loops_) -> Nat]
          BY Zenon DEF PoolInv, PoolTypeOK
        <5>2. next_ + 1 \in 1 .. Len(loops_)
          BY <3>3
        <5>3. given[next_ + 1] + 1 \in Nat
          BY <5>1, <5>2
        <5> QED
          BY <3>1, <5>1, <5>2, <5>3
      <4>2. poolStarted_' \in BOOLEAN
        BY <3>1 DEF PoolInv, PoolTypeOK
      <4> QED
        BY <3>1, <3>4, <4>1, <4>2 DEF PoolInv, PoolTypeOK
    <3>6. CASE next_ + 1 >= Len(loops_)
      <4>1. Rounds(q + 1)'
        BY <3>1, <3>2, <3>3, <3>6 DEF Rounds, Advance, PoolInv, PoolTypeOK
      <4> QED
        BY <2>2, <3>1, <3>5, <4>1 DEF PoolInv
    <3>7. CASE ~(next_ + 1 >= Len(loops_))
      <4>1. Rounds(q)'
        BY <3>1, <3>2, <3>3, <3>7 DEF Rounds, Advance, PoolInv, PoolTypeOK
      <4> QED
        BY <2>2, <3>1, <3>5, <4>1 DEF PoolInv
    <3> QED
      BY <3>6, <3>7
  <2> QED
    BY <2>1, <2>2
<1>4. CASE UNCHANGED poolVars
  BY <1>4, Zenon DEF poolVars, PoolInv, PoolTypeOK, Rounds
<1> QED
  BY <1>1, <1>2, <1>3, <1>4 DEF PoolNext

(* getNextLoop() spreads connections evenly over any number of threads,    *)
(* and its index into loops_ stays in bounds (a part of PoolTypeOK).       *)
THEOREM RoundRobin == PoolSpec => [](PoolTypeOK /\ Balanced)
<1>1. PoolInv => PoolTypeOK /\ Balanced
  <2> SUFFICES ASSUME PoolInv PROVE PoolTypeOK /\ Balanced
    OBVIOUS
  <2>1. PICK q \in Nat : Rounds(q)
    BY DEF PoolInv
  <2> QED
    BY <2>1 DEF Rounds, Balanced, PoolInv, PoolTypeOK
<1> QED
  BY <1>1, PoolInvInit, PoolInvStep, PTL DEF PoolSpec

-----------------------------------------------------------------------------
(* The functors that concern a connection, and the queues that hold them.  *)
Est(c) == <<"connectEstablished", c>>
Rem(c) == <<"removeConnectionInLoop", c>>
Des(c) == <<"connectDestroyed", c>>

InQueue(q, l, f) == \E i \in 1 .. Len(q[l]) : q[l][i] = f

(* listen() apart, no queue holds a functor twice. *)
OnlyOnce(q) ==
  \A l \in Loops : \A i, j \in 1 .. Len(q[l]) :
    q[l][i] = q[l][j] => i = j \/ q[l][i] = <<"listen">>

StartTypes == started_ \in BOOLEAN /\ startAborted \in BOOLEAN
ConnTypes ==
  /\ state_ \in [Conns -> States]
  /\ watching \in [Conns -> BOOLEAN] /\ registered \in [Conns -> BOOLEAN]
  /\ ups \in [Conns -> Nat] /\ downs \in [Conns -> Nat] /\ destroyed \in [Conns -> BOOLEAN]
LoopTypes == running \in [Loops -> BOOLEAN] /\ quit_ \in [Loops -> BOOLEAN]
MapTypes == connections_ \subseteq Conns /\ loop_ \in [Conns -> Loops]
QueueTypes == queue \in [Loops -> Seq(Functors)]
FlagTypes ==
  /\ serverPc \in {"alive", "starting", "destroying", "gone"}
  /\ failed \in BOOLEAN /\ dangling \in BOOLEAN
ServerTypes ==
  ATypeOK /\ StartTypes /\ ConnTypes /\ LoopTypes /\ MapTypes /\ QueueTypes /\ FlagTypes

(* What the state of a connection says of its channel and of the callbacks *)
(* it got.                                                                 *)
StageOf(c) ==
  /\ state_[c] \in {"none", "kConnecting"} =>
       ups[c] = 0 /\ downs[c] = 0 /\ ~watching[c] /\ ~registered[c] /\ ~destroyed[c]
  /\ state_[c] \in {"kConnected", "kDisconnecting"} =>
       ups[c] = 1 /\ downs[c] = 0 /\ watching[c] /\ registered[c] /\ ~destroyed[c]
  /\ state_[c] = "kDisconnected" =>
       ups[c] = 1 /\ downs[c] = 1 /\ ~watching[c] /\ (registered[c] <=> ~destroyed[c])

Stages == (\A c \in Conns : StageOf(c)) /\ (\A c \in backlog : state_[c] = "none")

(* While the server lives, a functor waits only in the loop it belongs to  *)
(* and finds the connection in the state it asserts.                       *)
ChainOf(c) ==
  \A l \in Loops :
    /\ InQueue(queue, l, Est(c)) => state_[c] = "kConnecting" /\ l = loop_[c] /\ l # 0
    /\ InQueue(queue, l, Rem(c)) =>
         l = 0 /\ state_[c] = "kDisconnected" /\ c \in connections_ /\ loop_[c] # 0 /\ ~destroyed[c]
    /\ InQueue(queue, l, Des(c)) =>
         l = loop_[c] /\ state_[c] = "kDisconnected" /\ c \notin connections_ /\ ~destroyed[c]

MapOf(c) ==
  c \in connections_ <=>
    \/ state_[c] \in {"kConnecting", "kConnected", "kDisconnecting"}
    \/ InQueue(queue, 0, Rem(c))

NoneQuits == \A l \in Loops : ~quit_[l]

AliveInv ==
  Lives => ~failed /\ NoneQuits /\ OnlyOnce(queue) /\ \A c \in Conns : ChainOf(c) /\ MapOf(c)

TSInv == ServerTypes /\ PoolInv /\ Stages /\ AliveInv

-----------------------------------------------------------------------------
(* Functions, functors and queues. *)
LEMMA Replaced ==
  ASSUME NEW S, NEW T, NEW f \in [S -> T], NEW x \in S, NEW v \in T
  PROVE  /\ [f EXCEPT ![x] = v] \in [S -> T] /\ [f EXCEPT ![x] = v][x] = v
         /\ \A y \in S : y # x => [f EXCEPT ![x] = v][y] = f[y]
OBVIOUS

LEMMA FunctorsDiffer ==
  ASSUME NEW c, NEW d
  PROVE  /\ Est(c) = Est(d) => c = d
         /\ Rem(c) = Rem(d) => c = d
         /\ Des(c) = Des(d) => c = d
         /\ Est(c) # Rem(d) /\ Est(c) # Des(d) /\ Rem(c) # Des(d)
         /\ Est(c) # <<"listen">> /\ Rem(c) # <<"listen">> /\ Des(c) # <<"listen">>
BY DEF Est, Rem, Des

LEMMA FunctorTypes ==
  ASSUME NEW c \in Conns
  PROVE  Est(c) \in Functors /\ Rem(c) \in Functors /\ Des(c) \in Functors /\ <<"listen">> \in Functors
BY DEF Est, Rem, Des, Functors

LEMMA AppendIn ==
  ASSUME NEW q \in [Loops -> Seq(Functors)], NEW l \in Loops, NEW f \in Functors
  PROVE  LET r == [q EXCEPT ![l] = Append(@, f)] IN
         /\ r \in [Loops -> Seq(Functors)]
         /\ \A k \in Loops : \A g : InQueue(r, k, g) <=> InQueue(q, k, g) \/ (k = l /\ g = f)
         /\ OnlyOnce(q) /\ (InQueue(q, l, f) => f = <<"listen">>) => OnlyOnce(r)
<1> DEFINE r == [q EXCEPT ![l] = Append(@, f)]
           n == Len(q[l])
<1>1. q[l] \in Seq(Functors) /\ n \in Nat
  OBVIOUS
<1>2. /\ Append(q[l], f) \in Seq(Functors) /\ Len(Append(q[l], f)) = n + 1
      /\ Append(q[l], f)[n + 1] = f /\ \A i \in 1 .. n : Append(q[l], f)[i] = q[l][i]
  BY <1>1
<1>3. r \in [Loops -> Seq(Functors)] /\ r[l] = Append(q[l], f) /\ \A k \in Loops : k # l => r[k] = q[k]
  BY <1>2, Replaced, Zenon
<1> HIDE DEF r
<1>4. Len(r[l]) = n + 1 /\ r[l][n + 1] = f /\ \A i \in 1 .. n : r[l][i] = q[l][i]
  BY <1>2, <1>3, Zenon
<1>5. /\ \A i \in 1 .. n + 1 : i \in 1 .. n \/ i = n + 1
      /\ n + 1 \in 1 .. n + 1 /\ \A i \in 1 .. n : i \in 1 .. n + 1
  BY <1>1
<1> HIDE DEF n
<1>6. ASSUME NEW k \in Loops, NEW g PROVE InQueue(r, k, g) <=> InQueue(q, k, g) \/ (k = l /\ g = f)
  <2>1. CASE k # l
    BY <1>3, <2>1, Zenon DEF InQueue
  <2>2. CASE k = l
    <3>1. ASSUME InQueue(r, l, g) PROVE InQueue(q, l, g) \/ g = f
      <4>1. PICK i \in 1 .. n + 1 : r[l][i] = g
        BY <1>4, <3>1, Zenon DEF InQueue
      <4> QED
        BY <1>4, <1>5, <4>1, Zenon DEF InQueue, n
    <3>2. ASSUME InQueue(q, l, g) PROVE InQueue(r, l, g)
      <4>1. PICK i \in 1 .. n : q[l][i] = g
        BY <3>2, Zenon DEF InQueue, n
      <4> QED
        BY <1>4, <1>5, <4>1, Zenon DEF InQueue
    <3>3. InQueue(r, l, f)
      BY <1>4, <1>5, Zenon DEF InQueue
    <3> QED
      BY <2>2, <3>1, <3>2, <3>3
  <2> QED
    BY <2>1, <2>2
<1>7. ASSUME OnlyOnce(q), InQueue(q, l, f) => f = <<"listen">> PROVE OnlyOnce(r)
  <2> SUFFICES ASSUME NEW k \in Loops, NEW i \in 1 .. Len(r[k]), NEW j \in 1 .. Len(r[k]),
                      r[k][i] = r[k][j]
               PROVE  i = j \/ r[k][i] = <<"listen">>
    BY Zenon DEF OnlyOnce
  <2>1. CASE k # l
    <3>1. r[k] = q[k]
      BY <1>3, <2>1, Zenon
    <3>2. i \in 1 .. Len(q[k]) /\ j \in 1 .. Len(q[k]) /\ q[k][i] = q[k][j]
      BY <3>1, Zenon
    <3> QED
      BY <1>7, <3>1, <3>2, Zenon DEF OnlyOnce
  <2>2. CASE k = l
    <3>1. i \in 1 .. n + 1 /\ j \in 1 .. n + 1
      BY <1>4, <2>2, Zenon
    <3>2. CASE i \in 1 .. n /\ j \in 1 .. n
      BY <1>4, <1>7, <2>2, <3>2, Zenon DEF OnlyOnce, n
    <3>3. CASE i = n + 1 /\ j \in 1 .. n
      BY <1>4, <1>7, <2>2, <3>3, Zenon DEF InQueue, n
    <3>4. CASE j = n + 1 /\ i \in 1 .. n
      BY <1>4, <1>7, <2>2, <3>4, Zenon DEF InQueue, n
    <3> QED
      BY <1>5, <3>1, <3>2, <3>3, <3>4, Zenon
  <2> QED
    BY <2>1, <2>2
<1> QED
  BY <1>3, <1>6, <1>7, Zenon DEF r

LEMMA DropIn ==
  ASSUME NEW q \in [Loops -> Seq(Functors)], NEW l \in Loops, q[l] # <<>>
  PROVE  LET r == [q EXCEPT ![l] = Tail(@)]
             h == Head(q[l]) IN
         /\ r \in [Loops -> Seq(Functors)] /\ InQueue(q, l, h)
         /\ \A k \in Loops : \A g : InQueue(r, k, g) => InQueue(q, k, g)
         /\ \A k \in Loops : \A g : InQueue(q, k, g) /\ (k # l \/ g # h) => InQueue(r, k, g)
         /\ OnlyOnce(q) => OnlyOnce(r)
         /\ OnlyOnce(q) /\ h # <<"listen">> => ~InQueue(r, l, h)
<1> DEFINE r == [q EXCEPT ![l] = Tail(@)]
           h == Head(q[l])
           n == Len(q[l])
<1>1. q[l] \in Seq(Functors) /\ n \in Nat
  OBVIOUS
<1>2. /\ Tail(q[l]) \in Seq(Functors) /\ Len(Tail(q[l])) = n - 1 /\ n - 1 \in Nat
      /\ h = q[l][1] /\ \A i \in 1 .. n - 1 : Tail(q[l])[i] = q[l][i + 1]
  BY <1>1
<1>3. r \in [Loops -> Seq(Functors)] /\ r[l] = Tail(q[l]) /\ \A k \in Loops : k # l => r[k] = q[k]
  BY <1>2, Replaced, Zenon
<1> HIDE DEF r, h
<1>4. Len(r[l]) = n - 1 /\ \A i \in 1 .. n - 1 : r[l][i] = q[l][i + 1]
  BY <1>2, <1>3, Zenon
<1>5. /\ 1 \in 1 .. n /\ \A i \in 1 .. n - 1 : i + 1 \in 1 .. n /\ i + 1 # 1
      /\ \A i, j \in 1 .. n - 1 : i + 1 = j + 1 => i = j
      /\ \A i \in 1 .. n : i = 1 \/ \E j \in 1 .. n - 1 : i = j + 1
  <2>1. /\ 1 \in 1 .. n /\ \A i \in 1 .. n - 1 : i + 1 \in 1 .. n /\ i + 1 # 1
        /\ \A i, j \in 1 .. n - 1 : i + 1 = j + 1 => i = j
    BY <1>1, <1>2
  <2>2. ASSUME NEW i \in 1 .. n, i # 1 PROVE \E j \in 1 .. n - 1 : i = j + 1
    <3>1. i - 1 \in 1 .. n - 1 /\ i = (i - 1) + 1
      BY <1>1, <2>2
    <3> QED
      BY <3>1
  <2> QED
    BY <2>1, <2>2
<1> HIDE DEF n
<1>6. InQueue(q, l, h)
  BY <1>2, <1>5, Zenon DEF InQueue, n
<1>7. ASSUME NEW k \in Loops, NEW g, InQueue(r, k, g) PROVE InQueue(q, k, g)
  <2>1. CASE k # l
    BY <1>3, <1>7, <2>1, Zenon DEF InQueue
  <2>2. CASE k = l
    <3>1. PICK i \in 1 .. n - 1 : r[l][i] = g
      BY <1>4, <1>7, <2>2, Zenon DEF InQueue
    <3> QED
      BY <1>4, <1>5, <2>2, <3>1, Zenon DEF InQueue, n
  <2> QED
    BY <2>1, <2>2
<1>8. ASSUME NEW k \in Loops, NEW g, InQueue(q, k, g), k # l \/ g # h PROVE InQueue(r, k, g)
  <2>1. CASE k # l
    BY <1>3, <1>8, <2>1, Zenon DEF InQueue
  <2>2. CASE k = l
    <3>1. PICK i \in 1 .. n : q[l][i] = g
      BY <1>8, <2>2, Zenon DEF InQueue, n
    <3>2. i # 1
      BY <1>2, <1>8, <2>2, <3>1, Zenon
    <3>3. PICK j \in 1 .. n - 1 : i = j + 1
      BY <1>5, <3>2, Zenon
    <3>4. r[l][j] = g
      BY <1>4, <3>1, <3>3
    <3> QED
      BY <1>4, <2>2, <3>4, Zenon DEF InQueue
  <2> QED
    BY <2>1, <2>2
<1>9. ASSUME OnlyOnce(q) PROVE OnlyOnce(r)
  <2> SUFFICES ASSUME NEW k \in Loops, NEW i \in 1 .. Len(r[k]), NEW j \in 1 .. Len(r[k]),
                      r[k][i] = r[k][j]
               PROVE  i = j \/ r[k][i] = <<"listen">>
    BY Zenon DEF OnlyOnce
  <2>1. CASE k # l
    <3>1. r[k] = q[k]
      BY <1>3, <2>1, Zenon
    <3>2. i \in 1 .. Len(q[k]) /\ j \in 1 .. Len(q[k]) /\ q[k][i] = q[k][j]
      BY <3>1, Zenon
    <3> QED
      BY <1>9, <3>1, <3>2, Zenon DEF OnlyOnce
  <2>2. CASE k = l
    <3>1. i \in 1 .. n - 1 /\ j \in 1 .. n - 1
      BY <1>4, <2>2, Zenon
    <3>2. r[k][i] = q[l][i + 1] /\ r[k][j] = q[l][j + 1] /\ i + 1 \in 1 .. n /\ j + 1 \in 1 .. n
      BY <1>4, <1>5, <2>2, <3>1, Zenon
    <3>3. i + 1 = j + 1 \/ q[l][i + 1] = <<"listen">>
      BY <1>9, <3>2, Zenon DEF OnlyOnce, n
    <3> QED
      BY <1>5, <3>1, <3>2, <3>3, Zenon
  <2> QED
    BY <2>1, <2>2
<1>10. ASSUME OnlyOnce(q), h # <<"listen">>, InQueue(r, l, h) PROVE FALSE
  <2>1. PICK i \in 1 .. n - 1 : r[l][i] = h
    BY <1>4, <1>10, Zenon DEF InQueue
  <2>2. q[l][i + 1] = q[l][1] /\ i + 1 \in 1 .. n /\ 1 \in 1 .. n /\ i + 1 # 1
    BY <1>2, <1>4, <1>5, <2>1, Zenon
  <2> QED
    BY <1>2, <1>10, <2>2, Zenon DEF OnlyOnce, n
<1> QED
  BY <1>3, <1>6, <1>7, <1>8, <1>9, <1>10, Zenon DEF r, h

LEMMA LoopFacts == 0 \in Loops /\ 1 .. MaxThreads \subseteq Loops /\ \A l \in 1 .. MaxThreads : l # 0
BY MaxThreadsAssumption DEF Loops

(* getNextLoop() returns a loop: the base loop or one of the pool. *)
LEMMA NextLoopIsLoop ==
  ASSUME PoolTypeOK
  PROVE  NextLoop \in Loops
<1>1. CASE loops_ = <<>>
  BY <1>1, LoopFacts, Zenon DEF NextLoop, baseLoop_
<1>2. CASE loops_ # <<>>
  <2>1. loops_ \in Seq(1 .. MaxThreads) /\ next_ \in Nat /\ next_ < Len(loops_)
    BY <1>2 DEF PoolTypeOK
  <2> DEFINE S == 1 .. MaxThreads
  <2>2. loops_[next_ + 1] \in S
    <3> HIDE DEF S
    <3>1. loops_ \in Seq(S) /\ next_ + 1 \in 1 .. Len(loops_)
      <4>1. loops_ \in Seq(S)
        BY <2>1 DEF S
      <4>2. Len(loops_) \in Nat
        BY <4>1
      <4> QED
        BY <2>1, <4>1, <4>2
    <3> QED
      BY <3>1
  <2> QED
    BY <1>2, <2>2, LoopFacts, Zenon DEF NextLoop
<1> QED
  BY <1>1, <1>2

-----------------------------------------------------------------------------
(* The parts of the invariant that a step leaves alone. *)
SameConn(d) ==
  /\ state_'[d] = state_[d] /\ watching'[d] = watching[d] /\ registered'[d] = registered[d]
  /\ ups'[d] = ups[d] /\ downs'[d] = downs[d] /\ destroyed'[d] = destroyed[d]

(* The same functors of d are queued, in the same loops. *)
Alike(q, r, d) ==
  \A l \in Loops : /\ InQueue(r, l, Est(d)) <=> InQueue(q, l, Est(d))
                   /\ InQueue(r, l, Rem(d)) <=> InQueue(q, l, Rem(d))
                   /\ InQueue(r, l, Des(d)) <=> InQueue(q, l, Des(d))

SamePlace(d) ==
  /\ loop_'[d] = loop_[d] /\ (d \in connections_' <=> d \in connections_)
  /\ Alike(queue, queue', d)

LEMMA StageFrame ==
  ASSUME NEW d \in Conns, StageOf(d), SameConn(d)
  PROVE  StageOf(d)'
BY Zenon DEF StageOf, SameConn

LEMMA PlaceFrame ==
  ASSUME NEW d \in Conns, ChainOf(d), MapOf(d), SameConn(d), SamePlace(d)
  PROVE  ChainOf(d)' /\ MapOf(d)'
<1>1. ChainOf(d)'
  BY Zenon DEF ChainOf, SameConn, SamePlace, Alike
<1>2. MapOf(d)'
  BY LoopFacts, Zenon DEF MapOf, SameConn, SamePlace, Alike
<1> QED
  BY <1>1, <1>2

(* A step that concerns one connection. *)
LEMMA OneConnKeeps ==
  ASSUME Stages, NEW c \in Conns, \A d \in Conns : d # c => SameConn(d), StageOf(c)',
         backlog \subseteq Conns, backlog' \subseteq backlog, state_'[c] # "none" => c \notin backlog'
  PROVE  Stages'
<1>1. ASSUME NEW d \in Conns PROVE StageOf(d)'
  BY <1>1, StageFrame, Zenon DEF Stages
<1>2. ASSUME NEW d \in backlog' PROVE state_'[d] = "none"
  BY <1>2, Zenon DEF Stages, SameConn
<1> QED
  BY <1>1, <1>2, Zenon DEF Stages

LEMMA OneConnAlive ==
  ASSUME AliveInv, NEW c \in Conns, \A d \in Conns : d # c => SameConn(d) /\ SamePlace(d),
         serverPc' = serverPc, quit_' = quit_,
         Lives => ~failed' /\ OnlyOnce(queue') /\ ChainOf(c)' /\ MapOf(c)'
  PROVE  AliveInv'
<1> SUFFICES ASSUME Lives'
             PROVE  ~failed' /\ NoneQuits' /\ OnlyOnce(queue)' /\ \A d \in Conns : ChainOf(d)' /\ MapOf(d)'
  BY Zenon DEF AliveInv
<1>1. Lives
  BY Zenon DEF Lives
<1>2. NoneQuits /\ \A d \in Conns : ChainOf(d) /\ MapOf(d)
  BY <1>1, Zenon DEF AliveInv
<1>3. NoneQuits'
  BY <1>2, Zenon DEF NoneQuits
<1>4. ASSUME NEW d \in Conns, d # c PROVE ChainOf(d)' /\ MapOf(d)'
  BY <1>2, <1>4, PlaceFrame, Zenon
<1>5. \A d \in Conns : ChainOf(d)' /\ MapOf(d)'
  BY <1>1, <1>4, Zenon
<1> QED
  BY <1>1, <1>3, <1>5

(* A step that concerns no connection, or that ends the server's life. *)
LEMMA IdleKeeps ==
  ASSUME Stages, AliveInv, UNCHANGED conns, \A c \in backlog' : c \in backlog \/ state_[c] = "none",
         Lives' => Lives /\ UNCHANGED <<loop_, connections_, queue, quit_, failed>>
  PROVE  Stages' /\ AliveInv'
<1>1. /\ state_' = state_ /\ watching' = watching /\ registered' = registered /\ ups' = ups
      /\ downs' = downs /\ destroyed' = destroyed
  BY DEF conns
<1>2. \A d \in Conns : SameConn(d)
  BY <1>1, Zenon DEF SameConn
<1>3. Stages'
  <2>1. \A d \in Conns : StageOf(d)'
    BY <1>2, StageFrame, Zenon DEF Stages
  <2>2. \A d \in backlog' : state_'[d] = "none"
    BY <1>1, Zenon DEF Stages
  <2> QED
    BY <2>1, <2>2, Zenon DEF Stages
<1>4. ASSUME Lives'
      PROVE  ~failed' /\ NoneQuits' /\ OnlyOnce(queue)' /\ \A d \in Conns : ChainOf(d)' /\ MapOf(d)'
  <2>1. /\ loop_' = loop_ /\ connections_' = connections_ /\ queue' = queue /\ quit_' = quit_
        /\ failed' = failed /\ Lives
    BY <1>4, Zenon
  <2>2. ~failed /\ NoneQuits /\ OnlyOnce(queue) /\ \A d \in Conns : ChainOf(d) /\ MapOf(d)
    BY <2>1, Zenon DEF AliveInv
  <2>3. \A d \in Conns : SamePlace(d)
    BY <2>1, Zenon DEF SamePlace, Alike
  <2>4. \A d \in Conns : ChainOf(d)' /\ MapOf(d)'
    BY <1>2, <2>2, <2>3, PlaceFrame, Zenon
  <2>5. NoneQuits' /\ OnlyOnce(queue)'
    BY <2>1, <2>2, Zenon DEF NoneQuits, OnlyOnce
  <2> QED
    BY <2>1, <2>2, <2>4, <2>5, Zenon
<1> QED
  BY <1>3, <1>4, Zenon DEF AliveInv

-----------------------------------------------------------------------------
(* The stages of a connection. *)
LEMMA EstablishedStage ==
  ASSUME ConnTypes, NEW c \in Conns, StageOf(c), state_[c] \in {"none", "kConnecting"},
         Established(c), UNCHANGED <<downs, destroyed>>
  PROVE  ConnTypes' /\ StageOf(c)' /\ state_'[c] = "kConnected" /\ \A d \in Conns : d # c => SameConn(d)
<1>1. /\ state_' = [state_ EXCEPT ![c] = "kConnected"] /\ watching' = [watching EXCEPT ![c] = TRUE]
      /\ registered' = [registered EXCEPT ![c] = TRUE] /\ ups' = [ups EXCEPT ![c] = ups[c] + 1]
      /\ downs' = downs /\ destroyed' = destroyed
  BY Zenon DEF Established
<1>2. ups[c] = 0 /\ downs[c] = 0 /\ ~destroyed[c]
  BY Zenon DEF StageOf
<1>3. ups[c] + 1 = 1 /\ ups[c] + 1 \in Nat
  BY <1>2
<1>4. "kConnected" \in States
  BY DEF States
<1>5. /\ state_' \in [Conns -> States] /\ state_'[c] = "kConnected"
      /\ \A d \in Conns : d # c => state_'[d] = state_[d]
  BY <1>1, <1>4, Replaced, Zenon DEF ConnTypes
<1>6. /\ watching' \in [Conns -> BOOLEAN] /\ watching'[c] = TRUE
      /\ \A d \in Conns : d # c => watching'[d] = watching[d]
  BY <1>1, Replaced, Zenon DEF ConnTypes
<1>7. /\ registered' \in [Conns -> BOOLEAN] /\ registered'[c] = TRUE
      /\ \A d \in Conns : d # c => registered'[d] = registered[d]
  BY <1>1, Replaced, Zenon DEF ConnTypes
<1>8. /\ ups' \in [Conns -> Nat] /\ ups'[c] = 1
      /\ \A d \in Conns : d # c => ups'[d] = ups[d]
  BY <1>1, <1>3, Replaced, Zenon DEF ConnTypes
<1>9. StageOf(c)'
  BY <1>1, <1>2, <1>5, <1>6, <1>7, <1>8 DEF StageOf
<1> QED
  BY <1>1, <1>5, <1>6, <1>7, <1>8, <1>9, Zenon DEF ConnTypes, SameConn

(* A change of state_ alone: newConnection() and shutdown(). *)
LEMMA StateStage ==
  ASSUME ConnTypes, NEW c \in Conns, StageOf(c), NEW s,
         \/ state_[c] = "none" /\ s = "kConnecting"
         \/ state_[c] = "kConnected" /\ s = "kDisconnecting",
         state_' = [state_ EXCEPT ![c] = s],
         UNCHANGED <<watching, registered, ups, downs, destroyed>>
  PROVE  ConnTypes' /\ StageOf(c)' /\ state_'[c] = s /\ \A d \in Conns : d # c => SameConn(d)
<1>1. /\ watching' = watching /\ registered' = registered /\ ups' = ups
      /\ downs' = downs /\ destroyed' = destroyed
  OBVIOUS
<1>2. s \in States
  BY DEF States
<1>3. /\ state_' \in [Conns -> States] /\ state_'[c] = s
      /\ \A d \in Conns : d # c => state_'[d] = state_[d]
  BY <1>2, Replaced, Zenon DEF ConnTypes
<1>4. StageOf(c)'
  BY <1>1, <1>3 DEF StageOf
<1> QED
  BY <1>1, <1>3, <1>4, Zenon DEF ConnTypes, SameConn

LEMMA DownStage ==
  ASSUME ConnTypes, NEW c \in Conns, StageOf(c), state_[c] \in {"kConnected", "kDisconnecting"},
         GoDown(c), registered' = registered \/ (registered' = [registered EXCEPT ![c] = FALSE]),
         destroyed' \in [Conns -> BOOLEAN], \A d \in Conns : d # c => destroyed'[d] = destroyed[d],
         registered'[c] <=> ~destroyed'[c], ups' = ups
  PROVE  /\ ConnTypes' /\ StageOf(c)' /\ state_'[c] = "kDisconnected" /\ watching'[c] = FALSE
         /\ \A d \in Conns : d # c => SameConn(d)
<1>1. /\ state_' = [state_ EXCEPT ![c] = "kDisconnected"] /\ watching' = [watching EXCEPT ![c] = FALSE]
      /\ downs' = [downs EXCEPT ![c] = downs[c] + 1]
  BY Zenon DEF GoDown
<1>2. ups[c] = 1 /\ downs[c] = 0
  BY Zenon DEF StageOf
<1>3. downs[c] + 1 = 1 /\ downs[c] + 1 \in Nat
  BY <1>2
<1>4. "kDisconnected" \in States
  BY DEF States
<1>5. /\ state_' \in [Conns -> States] /\ state_'[c] = "kDisconnected"
      /\ \A d \in Conns : d # c => state_'[d] = state_[d]
  BY <1>1, <1>4, Replaced, Zenon DEF ConnTypes
<1>6. /\ watching' \in [Conns -> BOOLEAN] /\ watching'[c] = FALSE
      /\ \A d \in Conns : d # c => watching'[d] = watching[d]
  BY <1>1, Replaced, Zenon DEF ConnTypes
<1>7. /\ registered' \in [Conns -> BOOLEAN]
      /\ \A d \in Conns : d # c => registered'[d] = registered[d]
  <2>1. CASE registered' = registered
    BY <2>1, Zenon DEF ConnTypes
  <2>2. CASE registered' = [registered EXCEPT ![c] = FALSE]
    BY <2>2, Replaced, Zenon DEF ConnTypes
  <2> QED
    BY <2>1, <2>2
<1>8. /\ downs' \in [Conns -> Nat] /\ downs'[c] = 1
      /\ \A d \in Conns : d # c => downs'[d] = downs[d]
  BY <1>1, <1>3, Replaced, Zenon DEF ConnTypes
<1>9. StageOf(c)'
  BY <1>2, <1>5, <1>6, <1>8 DEF StageOf
<1> QED
  BY <1>5, <1>6, <1>7, <1>8, <1>9, Zenon DEF ConnTypes, SameConn

(* connectDestroyed(), whether its assert() holds or not. *)
LEMMA DestroyedStage ==
  ASSUME ConnTypes, failed \in BOOLEAN, NEW c \in Conns, StageOf(c), ConnectDestroyed(c)
  PROVE  /\ ConnTypes' /\ StageOf(c)' /\ failed' \in BOOLEAN
         /\ \A d \in Conns : d # c => SameConn(d)
         /\ state_'[c] = state_[c] \/ state_[c] = "kConnected"
         /\ state_[c] = "kDisconnected" /\ ~destroyed[c] => failed' = failed /\ destroyed'[c] = TRUE
<1>1. /\ \/ state_[c] = "kConnected" /\ GoDown(c)
         \/ state_[c] # "kConnected" /\ state_' = state_ /\ watching' = watching /\ downs' = downs
      /\ ups' = ups
  BY DEF ConnectDestroyed
<1>2. \/ /\ registered[c] /\ ~watching'[c]
         /\ registered' = [registered EXCEPT ![c] = FALSE]
         /\ destroyed' = [destroyed EXCEPT ![c] = TRUE] /\ failed' = failed
      \/ /\ ~(registered[c] /\ ~watching'[c])
         /\ failed' = TRUE /\ registered' = registered /\ destroyed' = destroyed
  BY Zenon DEF ConnectDestroyed
<1>3. failed' \in BOOLEAN
  BY <1>2, Zenon
<1>4. ASSUME registered[c], ~watching'[c],
             registered' = [registered EXCEPT ![c] = FALSE], destroyed' = [destroyed EXCEPT ![c] = TRUE]
      PROVE  /\ destroyed' \in [Conns -> BOOLEAN] /\ destroyed'[c] = TRUE
             /\ registered' \in [Conns -> BOOLEAN] /\ registered'[c] = FALSE
             /\ \A d \in Conns : d # c => destroyed'[d] = destroyed[d] /\ registered'[d] = registered[d]
  <2>1. destroyed \in [Conns -> BOOLEAN] /\ registered \in [Conns -> BOOLEAN]
    BY Zenon DEF ConnTypes
  <2>2. /\ destroyed' \in [Conns -> BOOLEAN] /\ destroyed'[c] = TRUE
        /\ \A d \in Conns : d # c => destroyed'[d] = destroyed[d]
    BY <1>4, <2>1, Replaced, Zenon
  <2>3. /\ registered' \in [Conns -> BOOLEAN] /\ registered'[c] = FALSE
        /\ \A d \in Conns : d # c => registered'[d] = registered[d]
    BY <1>4, <2>1, Replaced, Zenon
  <2> QED
    BY <2>2, <2>3, Zenon
<1>5. CASE state_[c] = "kConnected"
  <2>1. registered[c] /\ GoDown(c) /\ watching'[c] = FALSE
    <3>1. registered[c] /\ GoDown(c)
      BY <1>1, <1>5, Zenon DEF StageOf
    <3>2. watching' = [watching EXCEPT ![c] = FALSE]
      BY <3>1, Zenon DEF GoDown
    <3>3. watching'[c] = FALSE
      BY <3>2, Replaced, Zenon DEF ConnTypes
    <3> QED
      BY <3>1, <3>3
  <2>2. registered' = [registered EXCEPT ![c] = FALSE] /\ destroyed' = [destroyed EXCEPT ![c] = TRUE]
    BY <1>2, <2>1, Zenon
  <2>3. ConnTypes' /\ StageOf(c)' /\ \A d \in Conns : d # c => SameConn(d)
    BY <1>1, <1>4, <1>5, <2>1, <2>2, DownStage, Zenon
  <2> QED
    BY <1>3, <1>5, <2>3
<1>6. CASE state_[c] # "kConnected"
  <2>1. state_' = state_ /\ watching' = watching /\ downs' = downs /\ ups' = ups
    BY <1>1, <1>6, Zenon
  <2>2. CASE registered[c] /\ ~watching[c]
    <3>1. /\ registered' = [registered EXCEPT ![c] = FALSE] /\ destroyed' = [destroyed EXCEPT ![c] = TRUE]
          /\ failed' = failed
      BY <1>2, <2>1, <2>2, Zenon
    <3>2. state_[c] = "kDisconnected"
      <4>1. state_[c] \in States
        BY DEF ConnTypes
      <4> QED
        BY <2>2, <4>1, Zenon DEF States, StageOf
    <3>3. StageOf(c)'
      BY <1>4, <2>1, <2>2, <3>1, <3>2, Zenon DEF StageOf
    <3> QED
      BY <1>3, <1>4, <2>1, <2>2, <3>1, <3>3, Zenon DEF ConnTypes, SameConn
  <2>3. CASE ~(registered[c] /\ ~watching[c])
    <3>1. registered' = registered /\ destroyed' = destroyed
      BY <1>2, <2>1, <2>3, Zenon
    <3>2. \A d \in Conns : SameConn(d)
      BY <2>1, <3>1, Zenon DEF SameConn
    <3>3. StageOf(c)'
      BY <3>2, StageFrame, Zenon
    <3>4. ~(state_[c] = "kDisconnected" /\ ~destroyed[c])
      BY <2>3, Zenon DEF StageOf
    <3> QED
      BY <1>3, <2>1, <3>1, <3>2, <3>3, <3>4, Zenon DEF ConnTypes
  <2> QED
    BY <2>2, <2>3, Zenon
<1> QED
  BY <1>5, <1>6, Zenon

-----------------------------------------------------------------------------
(* A functor of one connection, queued or run, is none of another. *)
LEMMA PushAlike ==
  ASSUME NEW q \in [Loops -> Seq(Functors)], NEW l \in Loops, NEW c \in Conns, NEW d \in Conns, d # c,
         NEW f \in {Est(c), Rem(c), Des(c)}
  PROVE  Alike(q, [q EXCEPT ![l] = Append(@, f)], d)
<1>1. f \in Functors
  BY FunctorTypes, Zenon
<1>2. f # Est(d) /\ f # Rem(d) /\ f # Des(d)
  BY FunctorsDiffer, Zenon
<1>3. \A k \in Loops : \A g :
        InQueue([q EXCEPT ![l] = Append(@, f)], k, g) <=> InQueue(q, k, g) \/ (k = l /\ g = f)
  BY <1>1, AppendIn, Zenon
<1> QED
  BY <1>2, <1>3, Zenon DEF Alike

LEMMA DropAlike ==
  ASSUME NEW q \in [Loops -> Seq(Functors)], NEW l \in Loops, q[l] # <<>>, NEW d \in Conns,
         Head(q[l]) # Est(d), Head(q[l]) # Rem(d), Head(q[l]) # Des(d)
  PROVE  Alike(q, [q EXCEPT ![l] = Tail(@)], d)
<1> DEFINE r == [q EXCEPT ![l] = Tail(@)]
<1>1. /\ \A k \in Loops : \A g : InQueue(r, k, g) => InQueue(q, k, g)
      /\ \A k \in Loops : \A g : InQueue(q, k, g) /\ (k # l \/ g # Head(q[l])) => InQueue(r, k, g)
  BY DropIn, Zenon
<1> HIDE DEF r
<1>2. Alike(q, r, d)
  BY <1>1, Zenon DEF Alike
<1> QED
  BY <1>2 DEF r

LEMMA AlikeTransitive ==
  ASSUME NEW p, NEW q, NEW r, NEW d, Alike(p, q, d), Alike(q, r, d)
  PROVE  Alike(p, r, d)
BY Zenon DEF Alike

(* While the server lives: what waits for a connection that is none of     *)
(* these stages.                                                           *)
LEMMA NothingWaits ==
  ASSUME NEW c \in Conns, ChainOf(c), state_[c] # "kConnecting", state_[c] # "kDisconnected"
  PROVE  \A l \in Loops : ~InQueue(queue, l, Est(c)) /\ ~InQueue(queue, l, Rem(c)) /\ ~InQueue(queue, l, Des(c))
BY Zenon DEF ChainOf

(* The parts of the invariant. *)
LEMMA TSFacts ==
  ASSUME TSInv
  PROVE  /\ PoolInv /\ PoolTypeOK /\ ATypeOK /\ StartTypes /\ ConnTypes /\ LoopTypes /\ MapTypes
         /\ QueueTypes /\ FlagTypes /\ Stages /\ AliveInv
         /\ backlog \subseteq Conns /\ (\A c \in Conns : StageOf(c))
         /\ connections_ \subseteq Conns /\ loop_ \in [Conns -> Loops]
         /\ queue \in [Loops -> Seq(Functors)] /\ failed \in BOOLEAN
BY Zenon DEF TSInv, ServerTypes, PoolInv, Stages, ATypeOK, MapTypes, QueueTypes, FlagTypes

LEMMA AliveFacts ==
  ASSUME AliveInv, Lives
  PROVE  ~failed /\ NoneQuits /\ OnlyOnce(queue) /\ \A c \in Conns : ChainOf(c) /\ MapOf(c)
BY Zenon DEF AliveInv

(* The acceptor keeps its types, whatever it does. *)
AcceptorStep ==
  \/ Listen \/ OthersClose \/ UNCHANGED accepting
  \/ \E c \in Conns : ClientConnects(c) \/ ClientAborts(c) \/ Accept(c, Sockets)
  \/ AcceptFull(Sockets) \/ AcceptAndClose(Sockets) \/ OpenIdle(Sockets) \/ OthersOpen(Sockets)

LEMMA AcceptorTypes == ATypeOK /\ AcceptorStep => ATypeOK'
<1> SUFFICES ASSUME ATypeOK, AcceptorStep PROVE ATypeOK'
  OBVIOUS
<1> USE AcceptorAssumption
<1>1. ASSUME Listen PROVE ATypeOK'
  BY <1>1, Zenon DEF Listen, ATypeOK
<1>2. ASSUME OthersClose PROVE ATypeOK'
  <2>1. others' \in 0 .. MaxOthers
    BY <1>2 DEF OthersClose, ATypeOK
  <2> QED
    BY <1>2, <2>1, Zenon DEF OthersClose, ATypeOK
<1>3. ASSUME UNCHANGED accepting PROVE ATypeOK'
  BY <1>3, Zenon DEF accepting, ATypeOK
<1>4. ASSUME NEW c \in Conns, ClientConnects(c) PROVE ATypeOK'
  BY <1>4, Zenon DEF ClientConnects, ATypeOK
<1>5. ASSUME NEW c \in Conns, ClientAborts(c) PROVE ATypeOK'
  BY <1>5, Zenon DEF ClientAborts, ATypeOK
<1>6. ASSUME NEW c \in Conns, Accept(c, Sockets) PROVE ATypeOK'
  BY <1>6, Zenon DEF Accept, ATypeOK
<1>7. ASSUME AcceptFull(Sockets) PROVE ATypeOK'
  BY <1>7, Zenon DEF AcceptFull, ATypeOK
<1>8. ASSUME AcceptAndClose(Sockets) PROVE ATypeOK'
  <2>1. backlog' \subseteq Conns /\ refused' \subseteq Conns
    <3>1. \/ \E c \in backlog : backlog' = backlog \ {c} /\ refused' = refused \cup {c}
          \/ backlog' = backlog /\ refused' = refused
      BY <1>8, Zenon DEF AcceptAndClose
    <3> QED
      BY <3>1 DEF ATypeOK
  <2>2. /\ acceptPc' = "open" /\ listenning_' = listenning_ /\ idleFd_' = idleFd_
        /\ others' = others /\ taken' = taken
    BY <1>8, Zenon DEF AcceptAndClose
  <2> QED
    BY <2>1, <2>2, Zenon DEF ATypeOK
<1>9. ASSUME OpenIdle(Sockets) PROVE ATypeOK'
  BY <1>9, Zenon DEF OpenIdle, ATypeOK
<1>10. ASSUME OthersOpen(Sockets) PROVE ATypeOK'
  <2>1. others' \in 0 .. MaxOthers
    BY <1>10 DEF OthersOpen, ATypeOK
  <2> QED
    BY <1>10, <2>1, Zenon DEF OthersOpen, ATypeOK
<1> QED
  BY <1>1, <1>2, <1>3, <1>4, <1>5, <1>6, <1>7, <1>8, <1>9, <1>10, Zenon DEF AcceptorStep

(* removeConnectionInLoop(): its assert() holds of a connection in the     *)
(* map, which it erases and hands on to the connection's own loop.         *)
LEMMA RemoveInLoop ==
  ASSUME MapTypes, failed \in BOOLEAN, NEW c \in Conns, NEW q \in [Loops -> Seq(Functors)],
         RemoveConnectionInLoop(c, q)
  PROVE  /\ connections_' \subseteq Conns /\ failed' \in BOOLEAN /\ queue' \in [Loops -> Seq(Functors)]
         /\ c \in connections_ =>
              /\ connections_' = connections_ \ {c} /\ failed' = failed
              /\ queue' = [q EXCEPT ![loop_[c]] = Append(@, Des(c))]
<1>1. loop_[c] \in Loops /\ connections_ \subseteq Conns
  BY DEF MapTypes
<1>2. CASE c \in connections_
  <2>1. /\ connections_' = connections_ \ {c} /\ failed' = failed
        /\ queue' = [q EXCEPT ![loop_[c]] = Append(@, Des(c))]
    BY <1>2, Zenon DEF RemoveConnectionInLoop, Des
  <2>2. queue' \in [Loops -> Seq(Functors)]
    BY <1>1, <2>1, FunctorTypes, AppendIn
  <2> QED
    BY <1>1, <2>1, <2>2, Zenon
<1>3. CASE c \notin connections_
  BY <1>1, <1>3, Zenon DEF RemoveConnectionInLoop
<1> QED
  BY <1>2, <1>3

-----------------------------------------------------------------------------
(* newConnection(): the connection was in the backlog, so nothing knows it *)
(* yet.                                                                    *)
LEMMA NewConnectionKeeps ==
  ASSUME TSInv, NEW c \in Conns, NewConnection(c)
  PROVE  TSInv'
<1>0. /\ PoolInv /\ PoolTypeOK /\ ATypeOK /\ StartTypes /\ ConnTypes /\ LoopTypes /\ MapTypes
      /\ QueueTypes /\ FlagTypes /\ Stages /\ AliveInv
      /\ backlog \subseteq Conns /\ (\A d \in Conns : StageOf(d))
      /\ connections_ \subseteq Conns /\ loop_ \in [Conns -> Loops]
      /\ queue \in [Loops -> Seq(Functors)]
  BY TSFacts, Zenon
<1>1. /\ Accept(c, Sockets) /\ GetNextLoop /\ loop_' = [loop_ EXCEPT ![c] = NextLoop]
      /\ connections_' = connections_ \cup {c}
      /\ started_' = started_ /\ startAborted' = startAborted
      /\ running' = running /\ quit_' = quit_ /\ serverPc' = serverPc /\ failed' = failed
      /\ dangling' = dangling /\ downs' = downs /\ destroyed' = destroyed
  BY Zenon DEF NewConnection, starting, loops
<1>2. c \in backlog /\ backlog' = backlog \ {c}
  BY <1>1, Zenon DEF Accept
<1>3. state_[c] = "none"
  BY <1>0, <1>2, Zenon DEF Stages
<1>4. NextLoop \in Loops
  BY <1>0, NextLoopIsLoop, Zenon
<1>5. PoolInv'
  BY <1>0, <1>1, PoolInvStep, Zenon DEF PoolNext
<1>6. ATypeOK'
  BY <1>0, <1>1, AcceptorTypes, Zenon DEF AcceptorStep
<1>7. /\ loop_' \in [Conns -> Loops] /\ loop_'[c] = NextLoop
      /\ \A d \in Conns : d # c => loop_'[d] = loop_[d]
  BY <1>0, <1>1, <1>4, Replaced, Zenon
<1>8. StartTypes' /\ LoopTypes' /\ MapTypes' /\ FlagTypes'
  BY <1>0, <1>1, <1>7, Zenon DEF StartTypes, LoopTypes, MapTypes, FlagTypes
<1>9. /\ ConnTypes' /\ StageOf(c)' /\ state_'[c] \in {"kConnected", "kConnecting"}
      /\ \A d \in Conns : d # c => SameConn(d)
      /\ \/ queue' = queue /\ state_'[c] = "kConnected"
         \/ /\ queue' = [queue EXCEPT ![NextLoop] = Append(@, Est(c))]
            /\ state_'[c] = "kConnecting" /\ NextLoop # 0
  <2>1. CASE NextLoop = baseLoop_
    <3>1. Established(c) /\ queue' = queue
      BY <2>1, Zenon DEF NewConnection
    <3>2. ConnTypes' /\ StageOf(c)' /\ state_'[c] = "kConnected" /\ \A d \in Conns : d # c => SameConn(d)
      BY <1>0, <1>1, <1>3, <3>1, EstablishedStage
    <3> QED
      BY <3>1, <3>2, Zenon
  <2>2. CASE NextLoop # baseLoop_
    <3>1. /\ state_' = [state_ EXCEPT ![c] = "kConnecting"]
          /\ queue' = [queue EXCEPT ![NextLoop] = Append(@, Est(c))]
          /\ watching' = watching /\ registered' = registered /\ ups' = ups
      BY <2>2, Zenon DEF NewConnection, Enqueue, Est
    <3>2. ConnTypes' /\ StageOf(c)' /\ state_'[c] = "kConnecting" /\ \A d \in Conns : d # c => SameConn(d)
      BY <1>0, <1>1, <1>3, <3>1, StateStage, Zenon
    <3>3. NextLoop # 0
      BY <2>2 DEF baseLoop_
    <3> QED
      BY <3>1, <3>2, <3>3, Zenon
  <2> QED
    BY <2>1, <2>2
<1>10. Stages'
  <2>1. backlog' \subseteq backlog /\ c \notin backlog'
    BY <1>2, Zenon
  <2> QED
    BY <1>0, <1>9, <2>1, OneConnKeeps, Zenon
<1>11. Est(c) \in Functors /\ Est(c) # Rem(c) /\ Est(c) # Des(c)
  BY FunctorTypes, FunctorsDiffer, Zenon
<1>12. QueueTypes'
  <2>1. CASE queue' = queue
    BY <1>0, <2>1, Zenon DEF QueueTypes
  <2>2. CASE queue' = [queue EXCEPT ![NextLoop] = Append(@, Est(c))]
    BY <1>0, <1>4, <1>11, <2>2, AppendIn DEF QueueTypes
  <2> QED
    BY <1>9, <2>1, <2>2, Zenon
<1>13. ASSUME NEW d \in Conns, d # c PROVE SamePlace(d)
  <2>1. Alike(queue, queue', d)
    <3>1. CASE queue' = queue
      BY <3>1, Zenon DEF Alike
    <3>2. CASE queue' = [queue EXCEPT ![NextLoop] = Append(@, Est(c))]
      BY <1>0, <1>4, <1>13, <3>2, PushAlike, Zenon
    <3> QED
      BY <1>9, <3>1, <3>2, Zenon
  <2>2. d \in connections_' <=> d \in connections_
    BY <1>1, <1>13, Zenon
  <2> QED
    BY <1>7, <1>13, <2>1, <2>2, Zenon DEF SamePlace
<1>14. ASSUME Lives PROVE ~failed' /\ OnlyOnce(queue') /\ ChainOf(c)' /\ MapOf(c)'
  <2>1. ~failed /\ OnlyOnce(queue) /\ ChainOf(c)
    BY <1>0, <1>14, AliveFacts, Zenon
  <2>2. \A l \in Loops : ~InQueue(queue, l, Est(c)) /\ ~InQueue(queue, l, Rem(c)) /\ ~InQueue(queue, l, Des(c))
    <3>1. state_[c] # "kConnecting" /\ state_[c] # "kDisconnected"
      BY <1>3
    <3> QED
      BY <2>1, <3>1, NothingWaits, Zenon
  <2>3. c \in connections_'
    BY <1>1, Zenon
  <2>4. CASE queue' = queue /\ state_'[c] = "kConnected"
    <3>1. ChainOf(c)' /\ MapOf(c)'
      BY <2>2, <2>3, <2>4, Zenon DEF ChainOf, MapOf
    <3> QED
      BY <1>1, <2>1, <2>4, <3>1, Zenon
  <2>5. CASE /\ queue' = [queue EXCEPT ![NextLoop] = Append(@, Est(c))]
             /\ state_'[c] = "kConnecting" /\ NextLoop # 0
    <3>1. \A k \in Loops : \A g : InQueue(queue', k, g) <=> InQueue(queue, k, g) \/ (k = NextLoop /\ g = Est(c))
      BY <1>0, <1>4, <1>11, <2>5, AppendIn, Zenon
    <3>2. OnlyOnce(queue')
      <4>1. queue \in [Loops -> Seq(Functors)] /\ NextLoop \in Loops /\ Est(c) \in Functors
        BY <1>0, <1>4, <1>11, Zenon
      <4>2. OnlyOnce(queue) /\ ~InQueue(queue, NextLoop, Est(c))
        BY <2>1, <2>2, <4>1, Zenon
      <4>3. queue' = [queue EXCEPT ![NextLoop] = Append(@, Est(c))]
        BY <2>5, Zenon
      <4>4. OnlyOnce([queue EXCEPT ![NextLoop] = Append(@, Est(c))])
        BY <4>1, <4>2, AppendIn, Zenon
      <4> QED
        BY <4>3, <4>4, Zenon
    <3>3. ChainOf(c)'
      BY <1>7, <1>11, <2>2, <2>5, <3>1, Zenon DEF ChainOf
    <3>4. MapOf(c)'
      BY <2>3, <2>5, Zenon DEF MapOf
    <3> QED
      BY <1>1, <2>1, <3>2, <3>3, <3>4, Zenon
  <2> QED
    BY <1>9, <2>4, <2>5, Zenon
<1>15. AliveInv'
  BY <1>0, <1>1, <1>9, <1>13, <1>14, OneConnAlive, Zenon
<1> QED
  BY <1>5, <1>6, <1>8, <1>9, <1>10, <1>12, <1>15, Zenon DEF TSInv, ServerTypes

(* shutdown(): only the state changes. *)
LEMMA ShutdownKeeps ==
  ASSUME TSInv, NEW c \in Conns, Shutdown(c)
  PROVE  TSInv'
<1>0. /\ PoolInv /\ ATypeOK /\ StartTypes /\ ConnTypes /\ LoopTypes /\ MapTypes
      /\ QueueTypes /\ FlagTypes /\ Stages /\ AliveInv
      /\ backlog \subseteq Conns /\ (\A d \in Conns : StageOf(d))
  BY TSFacts, Zenon
<1>1. /\ UNCHANGED poolVars /\ UNCHANGED accepting /\ started_' = started_ /\ startAborted' = startAborted
      /\ running' = running /\ quit_' = quit_ /\ serverPc' = serverPc /\ failed' = failed
      /\ dangling' = dangling /\ connections_' = connections_ /\ loop_' = loop_ /\ queue' = queue
      /\ watching' = watching /\ registered' = registered /\ ups' = ups /\ downs' = downs
      /\ destroyed' = destroyed
      /\ state_[c] = "kConnected" /\ state_' = [state_ EXCEPT ![c] = "kDisconnecting"]
  BY Zenon DEF Shutdown, starting, loops
<1>2. PoolInv' /\ ATypeOK'
  BY <1>0, <1>1, PoolInvStep, AcceptorTypes, Zenon DEF AcceptorStep
<1>3. StartTypes' /\ LoopTypes' /\ MapTypes' /\ QueueTypes' /\ FlagTypes'
  BY <1>0, <1>1, Zenon DEF StartTypes, LoopTypes, MapTypes, QueueTypes, FlagTypes
<1>4. ConnTypes' /\ StageOf(c)' /\ state_'[c] = "kDisconnecting" /\ \A d \in Conns : d # c => SameConn(d)
  BY <1>0, <1>1, StateStage, Zenon
<1>5. Stages'
  <2>1. backlog' = backlog
    BY <1>1, Zenon DEF accepting
  <2>2. c \notin backlog
    <3>1. state_[c] # "none"
      BY <1>1
    <3> QED
      BY <1>0, <3>1, Zenon DEF Stages
  <2> QED
    BY <1>0, <1>4, <2>1, <2>2, OneConnKeeps, Zenon
<1>6. \A d \in Conns : SamePlace(d)
  BY <1>1, Zenon DEF SamePlace, Alike
<1>7. ASSUME Lives PROVE ~failed' /\ OnlyOnce(queue') /\ ChainOf(c)' /\ MapOf(c)'
  <2>1. ~failed /\ OnlyOnce(queue) /\ ChainOf(c) /\ MapOf(c)
    BY <1>0, <1>7, AliveFacts, Zenon
  <2>2. state_[c] # "kConnecting" /\ state_[c] # "kDisconnected"
    BY <1>1
  <2>3. \A l \in Loops : ~InQueue(queue, l, Est(c)) /\ ~InQueue(queue, l, Rem(c)) /\ ~InQueue(queue, l, Des(c))
    BY <2>1, <2>2, NothingWaits, Zenon
  <2>4. ChainOf(c)'
    BY <1>1, <2>3, Zenon DEF ChainOf
  <2>5. MapOf(c)'
    BY <1>1, <1>4, <2>1, Zenon DEF MapOf
  <2> QED
    BY <1>1, <2>1, <2>4, <2>5, Zenon
<1>8. AliveInv'
  BY <1>0, <1>1, <1>4, <1>6, <1>7, OneConnAlive, Zenon
<1> QED
  BY <1>2, <1>3, <1>4, <1>5, <1>8, Zenon DEF TSInv, ServerTypes

(* handleClose(), in the loop of the connection: the base loop erases it   *)
(* at once, another loop asks the base loop to.                            *)
LEMMA HandleCloseKeeps ==
  ASSUME TSInv, NEW c \in Conns, HandleClose(c)
  PROVE  TSInv'
<1>0. /\ PoolInv /\ ATypeOK /\ StartTypes /\ ConnTypes /\ LoopTypes /\ MapTypes
      /\ FlagTypes /\ Stages /\ AliveInv
      /\ backlog \subseteq Conns /\ (\A d \in Conns : StageOf(d))
      /\ connections_ \subseteq Conns /\ loop_ \in [Conns -> Loops]
      /\ queue \in [Loops -> Seq(Functors)] /\ failed \in BOOLEAN
  BY TSFacts, Zenon
<1>1. /\ UNCHANGED poolVars /\ UNCHANGED accepting /\ started_' = started_ /\ startAborted' = startAborted
      /\ running' = running /\ quit_' = quit_ /\ serverPc' = serverPc
      /\ dangling' = dangling /\ loop_' = loop_ /\ registered' = registered /\ ups' = ups
      /\ destroyed' = destroyed /\ watching[c] /\ GoDown(c)
      /\ \/ loop_[c] = baseLoop_ /\ RemoveConnectionInLoop(c, queue)
         \/ /\ loop_[c] # baseLoop_ /\ queue' = [queue EXCEPT ![0] = Append(@, Rem(c))]
            /\ connections_' = connections_ /\ failed' = failed
  <2>1. watching[c] /\ state_[c] \in States
    BY <1>0, Zenon DEF HandleClose, ConnTypes
  <2>2. state_[c] \in {"kConnected", "kDisconnecting"}
    BY <1>0, <2>1, Zenon DEF States, StageOf
  <2> QED
    BY <2>1, <2>2, Zenon DEF HandleClose, starting, loops, Enqueue, Rem
<1>2. PoolInv' /\ ATypeOK'
  BY <1>0, <1>1, PoolInvStep, AcceptorTypes, Zenon DEF AcceptorStep
<1>3. state_[c] \in {"kConnected", "kDisconnecting"}
  <2>1. state_[c] \in States
    BY <1>0 DEF ConnTypes
  <2> QED
    BY <1>0, <1>1, <2>1, Zenon DEF States, StageOf
<1>4. registered[c] /\ ~destroyed[c] /\ destroyed \in [Conns -> BOOLEAN]
  BY <1>0, <1>3, Zenon DEF StageOf, ConnTypes
<1>5. /\ ConnTypes' /\ StageOf(c)' /\ state_'[c] = "kDisconnected"
      /\ \A d \in Conns : d # c => SameConn(d)
  BY <1>0, <1>1, <1>3, <1>4, DownStage, Zenon
<1>6. Stages'
  <2>1. backlog' = backlog
    BY <1>1, Zenon DEF accepting
  <2>2. c \notin backlog
    <3>1. state_[c] # "none"
      BY <1>3
    <3> QED
      BY <1>0, <3>1, Zenon DEF Stages
  <2> QED
    BY <1>0, <1>5, <2>1, <2>2, OneConnKeeps, Zenon
<1>7. /\ 0 \in Loops /\ loop_[c] \in Loops /\ Rem(c) \in Functors /\ Des(c) \in Functors
      /\ Est(c) # Rem(c) /\ Est(c) # Des(c) /\ Rem(c) # Des(c)
  BY <1>0, LoopFacts, FunctorTypes, FunctorsDiffer, Zenon
<1>8. connections_' \subseteq Conns /\ failed' \in BOOLEAN /\ queue' \in [Loops -> Seq(Functors)]
  <2>1. CASE RemoveConnectionInLoop(c, queue)
    BY <1>0, <2>1, RemoveInLoop, Zenon
  <2>2. CASE /\ queue' = [queue EXCEPT ![0] = Append(@, Rem(c))]
             /\ connections_' = connections_ /\ failed' = failed
    <3>1. queue' \in [Loops -> Seq(Functors)]
      BY <1>0, <1>7, <2>2, AppendIn
    <3> QED
      BY <1>0, <2>2, <3>1, Zenon
  <2> QED
    BY <1>1, <2>1, <2>2, Zenon
<1>9. StartTypes' /\ LoopTypes' /\ MapTypes' /\ QueueTypes' /\ FlagTypes'
  BY <1>0, <1>1, <1>8, Zenon DEF StartTypes, LoopTypes, MapTypes, QueueTypes, FlagTypes
<1>10. AliveInv'
  <2>1. CASE ~Lives
    BY <1>1, <2>1, Zenon DEF AliveInv, Lives
  <2>2. CASE Lives
    <3>1. ~failed /\ OnlyOnce(queue) /\ ChainOf(c) /\ MapOf(c)
      BY <1>0, <2>2, AliveFacts, Zenon
    <3>2. c \in connections_
      BY <1>3, <3>1, Zenon DEF MapOf
    <3>3. \A l \in Loops : ~InQueue(queue, l, Est(c)) /\ ~InQueue(queue, l, Rem(c)) /\ ~InQueue(queue, l, Des(c))
      <4>1. state_[c] # "kConnecting" /\ state_[c] # "kDisconnected"
        BY <1>3
      <4> QED
        BY <3>1, <4>1, NothingWaits, Zenon
    <3>4. CASE loop_[c] = baseLoop_
      <4>1. /\ connections_' = connections_ \ {c} /\ failed' = failed
            /\ queue' = [queue EXCEPT ![loop_[c]] = Append(@, Des(c))]
        BY <1>0, <1>1, <3>2, <3>4, RemoveInLoop, Zenon
      <4>2. \A k \in Loops : \A g : InQueue(queue', k, g) <=> InQueue(queue, k, g) \/ (k = loop_[c] /\ g = Des(c))
        BY <1>0, <1>7, <4>1, AppendIn, Zenon
      <4>3. OnlyOnce(queue')
        <5>1. queue \in [Loops -> Seq(Functors)] /\ loop_[c] \in Loops /\ Des(c) \in Functors
          BY <1>0, <1>7, Zenon
        <5>2. OnlyOnce(queue) /\ ~InQueue(queue, loop_[c], Des(c))
          BY <3>1, <3>3, <5>1, Zenon
        <5>3. queue' = [queue EXCEPT ![loop_[c]] = Append(@, Des(c))]
          BY <4>1, Zenon
        <5>4. OnlyOnce([queue EXCEPT ![loop_[c]] = Append(@, Des(c))])
          BY <5>1, <5>2, AppendIn, Zenon
        <5> QED
          BY <5>3, <5>4, Zenon
      <4>4. ChainOf(c)'
        BY <1>1, <1>4, <1>5, <1>7, <3>3, <4>1, <4>2, Zenon DEF ChainOf
      <4>5. MapOf(c)'
        <5>1. ~InQueue(queue', 0, Rem(c))
          BY <1>7, <3>3, <4>2, Zenon
        <5>2. state_'[c] \notin {"kConnecting", "kConnected", "kDisconnecting"}
          BY <1>5
        <5> QED
          BY <4>1, <5>1, <5>2, Zenon DEF MapOf
      <4>6. ASSUME NEW d \in Conns, d # c PROVE SamePlace(d)
        <5>1. Alike(queue, queue', d)
          BY <1>0, <1>7, <4>1, <4>6, PushAlike, Zenon
        <5> QED
          BY <1>1, <4>1, <4>6, <5>1, Zenon DEF SamePlace
      <4> QED
        BY <1>0, <1>1, <1>5, <3>1, <4>1, <4>3, <4>4, <4>5, <4>6, OneConnAlive, Zenon
    <3>5. CASE loop_[c] # baseLoop_
      <4>1. /\ connections_' = connections_ /\ failed' = failed
            /\ queue' = [queue EXCEPT ![0] = Append(@, Rem(c))]
        BY <1>1, <3>5, Zenon
      <4>2. \A k \in Loops : \A g : InQueue(queue', k, g) <=> InQueue(queue, k, g) \/ (k = 0 /\ g = Rem(c))
        BY <1>0, <1>7, <4>1, AppendIn, Zenon
      <4>3. OnlyOnce(queue')
        BY <1>0, <1>7, <3>1, <3>3, <4>1, AppendIn, Zenon
      <4>4. loop_[c] # 0
        BY <3>5 DEF baseLoop_
      <4>5. ChainOf(c)'
        BY <1>1, <1>4, <1>5, <1>7, <3>2, <3>3, <4>1, <4>2, <4>4, Zenon DEF ChainOf
      <4>6. MapOf(c)'
        BY <1>7, <3>2, <4>1, <4>2, Zenon DEF MapOf
      <4>7. ASSUME NEW d \in Conns, d # c PROVE SamePlace(d)
        <5>1. Alike(queue, queue', d)
          BY <1>0, <1>7, <4>1, <4>7, PushAlike, Zenon
        <5> QED
          BY <1>1, <4>1, <5>1, Zenon DEF SamePlace
      <4> QED
        BY <1>0, <1>1, <1>5, <3>1, <4>1, <4>3, <4>5, <4>6, <4>7, OneConnAlive, Zenon
    <3> QED
      BY <3>4, <3>5
  <2> QED
    BY <2>1, <2>2
<1> QED
  BY <1>2, <1>5, <1>6, <1>9, <1>10, Zenon DEF TSInv, ServerTypes

-----------------------------------------------------------------------------
(* The loops run their functors. *)
LEMMA RunEstablishedKeeps ==
  ASSUME TSInv, NEW l \in Loops, NEW c \in Conns, RunConnectEstablished(l, c)
  PROVE  TSInv'
<1>0. /\ PoolInv /\ ATypeOK /\ StartTypes /\ ConnTypes /\ LoopTypes /\ MapTypes
      /\ FlagTypes /\ Stages /\ AliveInv
      /\ backlog \subseteq Conns /\ (\A d \in Conns : StageOf(d))
      /\ queue \in [Loops -> Seq(Functors)] /\ failed \in BOOLEAN
  BY TSFacts, Zenon
<1>1. /\ UNCHANGED poolVars /\ UNCHANGED accepting /\ started_' = started_ /\ startAborted' = startAborted
      /\ running' = running /\ quit_' = quit_ /\ serverPc' = serverPc
      /\ dangling' = dangling /\ loop_' = loop_ /\ connections_' = connections_ /\ downs' = downs
      /\ destroyed' = destroyed /\ queue[l] # <<>> /\ Head(queue[l]) = Est(c)
      /\ queue' = [queue EXCEPT ![l] = Tail(@)]
      /\ \/ state_[c] = "kConnecting" /\ Established(c) /\ failed' = failed
         \/ /\ state_[c] # "kConnecting" /\ failed' = TRUE
            /\ state_' = state_ /\ watching' = watching /\ registered' = registered /\ ups' = ups
  BY Zenon DEF RunConnectEstablished, starting, loops, Dequeue, Dropped, Est
<1>2. PoolInv' /\ ATypeOK'
  BY <1>0, <1>1, PoolInvStep, AcceptorTypes, Zenon DEF AcceptorStep
<1>3. /\ queue' \in [Loops -> Seq(Functors)] /\ InQueue(queue, l, Est(c))
      /\ \A k \in Loops : \A g : InQueue(queue', k, g) => InQueue(queue, k, g)
      /\ OnlyOnce(queue) => OnlyOnce(queue')
      /\ OnlyOnce(queue) /\ Est(c) # <<"listen">> => ~InQueue(queue', l, Est(c))
  <2>1. queue \in [Loops -> Seq(Functors)] /\ queue[l] # <<>>
    BY <1>0, <1>1, Zenon
  <2> DEFINE r == [queue EXCEPT ![l] = Tail(@)]
             h == Head(queue[l])
  <2>2. h = Est(c) /\ queue' = r
    BY <1>1, Zenon
  <2>3. /\ r \in [Loops -> Seq(Functors)] /\ InQueue(queue, l, h)
        /\ \A k \in Loops : \A g : InQueue(r, k, g) => InQueue(queue, k, g)
        /\ OnlyOnce(queue) => OnlyOnce(r)
        /\ OnlyOnce(queue) /\ h # <<"listen">> => ~InQueue(r, l, h)
    BY <2>1, DropIn, Zenon
  <2> HIDE DEF r, h
  <2> QED
    BY <2>2, <2>3
<1>4. failed' \in BOOLEAN
  BY <1>0, <1>1, Zenon
<1>5. StartTypes' /\ LoopTypes' /\ MapTypes' /\ QueueTypes' /\ FlagTypes'
  BY <1>0, <1>1, <1>3, <1>4, Zenon DEF StartTypes, LoopTypes, MapTypes, QueueTypes, FlagTypes
<1>6. /\ ConnTypes' /\ StageOf(c)' /\ (\A d \in Conns : d # c => SameConn(d))
      /\ state_[c] = "kConnecting" => state_'[c] = "kConnected" /\ failed' = failed
      /\ state_[c] # "kConnecting" => state_'[c] = state_[c]
  <2>1. CASE state_[c] = "kConnecting"
    <3>1. Established(c) /\ failed' = failed
      BY <1>1, <2>1, Zenon
    <3>2. ConnTypes' /\ StageOf(c)' /\ state_'[c] = "kConnected" /\ \A d \in Conns : d # c => SameConn(d)
      BY <1>0, <1>1, <2>1, <3>1, EstablishedStage
    <3> QED
      BY <2>1, <3>1, <3>2, Zenon
  <2>2. CASE state_[c] # "kConnecting"
    <3>1. state_' = state_ /\ watching' = watching /\ registered' = registered /\ ups' = ups
      BY <1>1, <2>2, Zenon
    <3>2. \A d \in Conns : SameConn(d)
      BY <1>1, <3>1, Zenon DEF SameConn
    <3>3. StageOf(c)'
      BY <1>0, <3>2, StageFrame, Zenon
    <3> QED
      BY <1>0, <1>1, <2>2, <3>1, <3>2, <3>3, Zenon DEF ConnTypes
  <2> QED
    BY <2>1, <2>2
<1>7. Stages'
  <2>1. backlog' = backlog
    BY <1>1, Zenon DEF accepting
  <2>2. state_'[c] # "none" => c \notin backlog
    <3>1. c \in backlog => state_[c] = "none"
      BY <1>0, Zenon DEF Stages
    <3> QED
      BY <1>6, <3>1
  <2> QED
    BY <1>0, <1>6, <2>1, <2>2, OneConnKeeps, Zenon
<1>8. AliveInv'
  <2>1. ASSUME NEW d \in Conns, d # c PROVE SamePlace(d)
    <3>1. Est(c) # Est(d) /\ Est(c) # Rem(d) /\ Est(c) # Des(d)
      BY <2>1, FunctorsDiffer, Zenon
    <3>2. Alike(queue, queue', d)
      BY <1>0, <1>1, <3>1, DropAlike, Zenon
    <3> QED
      BY <1>1, <3>2, Zenon DEF SamePlace
  <2>2. ASSUME Lives PROVE ~failed' /\ OnlyOnce(queue') /\ ChainOf(c)' /\ MapOf(c)'
    <3>1. ~failed /\ OnlyOnce(queue) /\ ChainOf(c) /\ MapOf(c)
      BY <1>0, <2>2, AliveFacts, Zenon
    <3>2. state_[c] = "kConnecting" /\ l = loop_[c]
      BY <1>3, <3>1, Zenon DEF ChainOf
    <3>3. state_'[c] = "kConnected" /\ ~failed' /\ state_[c] # "kDisconnected"
      <4>1. state_'[c] = "kConnected" /\ failed' = failed
        BY <1>6, <3>2, Zenon
      <4>2. state_[c] # "kDisconnected"
        BY <3>2
      <4> QED
        BY <3>1, <4>1, <4>2, Zenon
    <3>4. OnlyOnce(queue') /\ ~InQueue(queue', l, Est(c))
      BY <1>3, <3>1, FunctorsDiffer, Zenon
    <3>5. \A k \in Loops : ~InQueue(queue', k, Est(c)) /\ ~InQueue(queue', k, Rem(c)) /\ ~InQueue(queue', k, Des(c))
      BY <1>3, <3>1, <3>2, <3>3, <3>4, Zenon DEF ChainOf
    <3>6. ChainOf(c)'
      BY <3>5, Zenon DEF ChainOf
    <3>7. c \in connections_'
      BY <1>1, <3>1, <3>2, Zenon DEF MapOf
    <3>8. MapOf(c)'
      BY <3>3, <3>7, Zenon DEF MapOf
    <3> QED
      BY <3>3, <3>4, <3>6, <3>8, Zenon
  <2> QED
    BY <1>0, <1>1, <1>6, <2>1, <2>2, OneConnAlive, Zenon
<1> QED
  BY <1>2, <1>5, <1>6, <1>7, <1>8, Zenon DEF TSInv, ServerTypes

LEMMA RunDestroyedKeeps ==
  ASSUME TSInv, NEW l \in Loops, NEW c \in Conns, RunConnectDestroyed(l, c)
  PROVE  TSInv'
<1>0. /\ PoolInv /\ ATypeOK /\ StartTypes /\ ConnTypes /\ LoopTypes /\ MapTypes
      /\ FlagTypes /\ Stages /\ AliveInv
      /\ backlog \subseteq Conns /\ (\A d \in Conns : StageOf(d))
      /\ queue \in [Loops -> Seq(Functors)] /\ failed \in BOOLEAN
  BY TSFacts, Zenon
<1>1. /\ UNCHANGED poolVars /\ UNCHANGED accepting /\ started_' = started_ /\ startAborted' = startAborted
      /\ running' = running /\ quit_' = quit_ /\ serverPc' = serverPc
      /\ dangling' = dangling /\ loop_' = loop_ /\ connections_' = connections_
      /\ queue[l] # <<>> /\ Head(queue[l]) = Des(c)
      /\ queue' = [queue EXCEPT ![l] = Tail(@)] /\ ConnectDestroyed(c)
  BY Zenon DEF RunConnectDestroyed, starting, loops, Dequeue, Dropped, Des
<1>2. PoolInv' /\ ATypeOK'
  BY <1>0, <1>1, PoolInvStep, AcceptorTypes, Zenon DEF AcceptorStep
<1>3. /\ queue' \in [Loops -> Seq(Functors)] /\ InQueue(queue, l, Des(c))
      /\ \A k \in Loops : \A g : InQueue(queue', k, g) => InQueue(queue, k, g)
      /\ OnlyOnce(queue) => OnlyOnce(queue')
      /\ OnlyOnce(queue) /\ Des(c) # <<"listen">> => ~InQueue(queue', l, Des(c))
  <2>1. queue \in [Loops -> Seq(Functors)] /\ queue[l] # <<>>
    BY <1>0, <1>1, Zenon
  <2> DEFINE r == [queue EXCEPT ![l] = Tail(@)]
             h == Head(queue[l])
  <2>2. h = Des(c) /\ queue' = r
    BY <1>1, Zenon
  <2>3. /\ r \in [Loops -> Seq(Functors)] /\ InQueue(queue, l, h)
        /\ \A k \in Loops : \A g : InQueue(r, k, g) => InQueue(queue, k, g)
        /\ OnlyOnce(queue) => OnlyOnce(r)
        /\ OnlyOnce(queue) /\ h # <<"listen">> => ~InQueue(r, l, h)
    BY <2>1, DropIn, Zenon
  <2> HIDE DEF r, h
  <2> QED
    BY <2>2, <2>3
<1>4. /\ ConnTypes' /\ StageOf(c)' /\ failed' \in BOOLEAN
      /\ \A d \in Conns : d # c => SameConn(d)
      /\ state_'[c] = state_[c] \/ state_[c] = "kConnected"
      /\ state_[c] = "kDisconnected" /\ ~destroyed[c] => failed' = failed /\ destroyed'[c] = TRUE
  BY <1>0, <1>1, DestroyedStage, Zenon
<1>5. StartTypes' /\ LoopTypes' /\ MapTypes' /\ QueueTypes' /\ FlagTypes'
  BY <1>0, <1>1, <1>3, <1>4, Zenon DEF StartTypes, LoopTypes, MapTypes, QueueTypes, FlagTypes
<1>6. Stages'
  <2>1. backlog' = backlog
    BY <1>1, Zenon DEF accepting
  <2>2. state_'[c] # "none" => c \notin backlog
    <3>1. c \in backlog => state_[c] = "none"
      BY <1>0, Zenon DEF Stages
    <3> QED
      BY <1>4, <3>1
  <2> QED
    BY <1>0, <1>4, <2>1, <2>2, OneConnKeeps, Zenon
<1>7. AliveInv'
  <2>1. ASSUME NEW d \in Conns, d # c PROVE SamePlace(d)
    <3>1. Des(c) # Est(d) /\ Des(c) # Rem(d) /\ Des(c) # Des(d)
      BY <2>1, FunctorsDiffer, Zenon
    <3>2. Alike(queue, queue', d)
      BY <1>0, <1>1, <3>1, DropAlike, Zenon
    <3> QED
      BY <1>1, <3>2, Zenon DEF SamePlace
  <2>2. ASSUME Lives PROVE ~failed' /\ OnlyOnce(queue') /\ ChainOf(c)' /\ MapOf(c)'
    <3>1. ~failed /\ OnlyOnce(queue) /\ ChainOf(c) /\ MapOf(c)
      BY <1>0, <2>2, AliveFacts, Zenon
    <3>2. l = loop_[c] /\ state_[c] = "kDisconnected" /\ c \notin connections_ /\ ~destroyed[c]
      BY <1>3, <3>1, Zenon DEF ChainOf
    <3>3. state_'[c] = "kDisconnected" /\ ~failed' /\ state_[c] # "kConnecting"
      BY <1>4, <3>1, <3>2
    <3>4. OnlyOnce(queue') /\ ~InQueue(queue', l, Des(c))
      BY <1>3, <3>1, FunctorsDiffer, Zenon
    <3>5. \A k \in Loops : ~InQueue(queue', k, Est(c)) /\ ~InQueue(queue', k, Rem(c)) /\ ~InQueue(queue', k, Des(c))
      BY <1>3, <3>1, <3>2, <3>3, <3>4, Zenon DEF ChainOf
    <3>6. ChainOf(c)'
      BY <3>5, Zenon DEF ChainOf
    <3>7. c \notin connections_' /\ state_'[c] \notin {"kConnecting", "kConnected", "kDisconnecting"}
      BY <1>1, <3>2, <3>3
    <3>8. MapOf(c)'
      BY <3>5, <3>7, LoopFacts, Zenon DEF MapOf
    <3> QED
      BY <3>3, <3>4, <3>6, <3>8, Zenon
  <2> QED
    BY <1>0, <1>1, <1>4, <2>1, <2>2, OneConnAlive, Zenon
<1> QED
  BY <1>2, <1>4, <1>5, <1>6, <1>7, Zenon DEF TSInv, ServerTypes

LEMMA RunRemoveKeeps ==
  ASSUME TSInv, NEW c \in Conns, RunRemoveConnection(c)
  PROVE  TSInv'
<1> DEFINE q == [queue EXCEPT ![0] = Tail(@)]
<1>0. /\ PoolInv /\ ATypeOK /\ StartTypes /\ ConnTypes /\ LoopTypes /\ MapTypes
      /\ FlagTypes /\ Stages /\ AliveInv
      /\ backlog \subseteq Conns /\ (\A d \in Conns : StageOf(d))
      /\ connections_ \subseteq Conns /\ loop_ \in [Conns -> Loops]
      /\ queue \in [Loops -> Seq(Functors)] /\ failed \in BOOLEAN /\ 0 \in Loops
  BY TSFacts, LoopFacts, Zenon
<1>1. /\ UNCHANGED poolVars /\ UNCHANGED accepting /\ started_' = started_ /\ startAborted' = startAborted
      /\ running' = running /\ quit_' = quit_ /\ serverPc' = serverPc /\ loop_' = loop_
      /\ state_' = state_ /\ watching' = watching /\ registered' = registered /\ ups' = ups
      /\ downs' = downs /\ destroyed' = destroyed /\ UNCHANGED conns
      /\ queue[0] # <<>> /\ Head(queue[0]) = Rem(c) /\ serverPc # "starting"
      /\ \/ serverPc = "alive" /\ RemoveConnectionInLoop(c, q) /\ dangling' = dangling
         \/ /\ serverPc # "alive" /\ dangling' = TRUE /\ queue' = q
            /\ connections_' = connections_ /\ failed' = failed
  <2>1. serverPc \in {"alive", "gone"}
    BY Zenon DEF RunRemoveConnection, Dequeue, Handling
  <2>2. serverPc # "starting"
    BY <2>1
  <2>3. queue[0] # <<>> /\ Head(queue[0]) = Rem(c)
    BY Zenon DEF RunRemoveConnection, Dequeue, Rem
  <2>4. UNCHANGED <<poolVars, accepting, starting, conns, loop_, loops, serverPc>>
    BY Zenon DEF RunRemoveConnection
  <2>5. \/ serverPc = "alive" /\ RemoveConnectionInLoop(c, q) /\ dangling' = dangling
        \/ /\ serverPc # "alive" /\ dangling' = TRUE /\ queue' = q
           /\ connections_' = connections_ /\ failed' = failed
    BY Zenon DEF RunRemoveConnection, Dropped
  <2> QED
    BY <2>2, <2>3, <2>4, <2>5, Zenon DEF starting, loops, conns
<1>2. PoolInv' /\ ATypeOK'
  BY <1>0, <1>1, PoolInvStep, AcceptorTypes, Zenon DEF AcceptorStep
<1>3. /\ q \in [Loops -> Seq(Functors)] /\ InQueue(queue, 0, Rem(c))
      /\ \A k \in Loops : \A g : InQueue(q, k, g) => InQueue(queue, k, g)
      /\ OnlyOnce(queue) => OnlyOnce(q)
      /\ OnlyOnce(queue) /\ Rem(c) # <<"listen">> => ~InQueue(q, 0, Rem(c))
  <2>1. queue[0] # <<>> /\ Head(queue[0]) = Rem(c)
    BY <1>1, Zenon
  <2>2. /\ q \in [Loops -> Seq(Functors)] /\ InQueue(queue, 0, Head(queue[0]))
        /\ \A k \in Loops : \A g : InQueue(q, k, g) => InQueue(queue, k, g)
        /\ OnlyOnce(queue) => OnlyOnce(q)
        /\ OnlyOnce(queue) /\ Head(queue[0]) # <<"listen">> => ~InQueue(q, 0, Head(queue[0]))
    BY <1>0, <2>1, DropIn, Zenon
  <2> HIDE DEF q
  <2> QED
    BY <2>1, <2>2, Zenon
<1>4. ASSUME NEW d \in Conns, d # c PROVE Alike(queue, q, d)
  <2>1. Rem(c) # Est(d) /\ Rem(c) # Rem(d) /\ Rem(c) # Des(d)
    BY <1>4, FunctorsDiffer, Zenon
  <2> QED
    BY <1>0, <1>1, <2>1, DropAlike, Zenon
<1> HIDE DEF q
<1>5. /\ connections_' \subseteq Conns /\ failed' \in BOOLEAN /\ queue' \in [Loops -> Seq(Functors)]
      /\ dangling' \in BOOLEAN
  <2>1. CASE RemoveConnectionInLoop(c, q) /\ dangling' = dangling
    <3>1. connections_' \subseteq Conns /\ failed' \in BOOLEAN /\ queue' \in [Loops -> Seq(Functors)]
      BY <1>0, <1>3, <2>1, RemoveInLoop, Zenon
    <3> QED
      BY <1>0, <2>1, <3>1, Zenon DEF FlagTypes
  <2>2. CASE dangling' = TRUE /\ queue' = q /\ connections_' = connections_ /\ failed' = failed
    BY <1>0, <1>3, <2>2, Zenon
  <2> QED
    BY <1>1, <2>1, <2>2, Zenon
<1>6. StartTypes' /\ LoopTypes' /\ MapTypes' /\ QueueTypes' /\ FlagTypes' /\ ConnTypes'
  BY <1>0, <1>1, <1>5, Zenon DEF StartTypes, LoopTypes, MapTypes, QueueTypes, FlagTypes, ConnTypes
<1>7. \A d \in Conns : SameConn(d)
  BY <1>1, Zenon DEF SameConn
<1>8. Stages'
  <2>1. backlog' = backlog
    BY <1>1, Zenon DEF accepting
  <2>2. \A d \in Conns : StageOf(d)'
    BY <1>0, <1>7, StageFrame, Zenon
  <2> QED
    BY <1>0, <1>1, <2>1, <2>2, Zenon DEF Stages
<1>9. AliveInv'
  <2>1. CASE ~Lives
    BY <1>1, <2>1, Zenon DEF AliveInv, Lives
  <2>2. CASE Lives
    <3>1. ~failed /\ OnlyOnce(queue) /\ ChainOf(c) /\ MapOf(c)
      BY <1>0, <2>2, AliveFacts, Zenon
    <3>2. state_[c] = "kDisconnected" /\ c \in connections_ /\ loop_[c] # 0 /\ loop_[c] \in Loops
      BY <1>0, <1>3, <3>1, Zenon DEF ChainOf
    <3>3. serverPc = "alive"
      BY <1>1, <2>2, Zenon DEF Lives
    <3>4. /\ connections_' = connections_ \ {c} /\ failed' = failed
          /\ queue' = [q EXCEPT ![loop_[c]] = Append(@, Des(c))]
      BY <1>0, <1>1, <1>3, <3>2, <3>3, RemoveInLoop, Zenon
    <3>5. Des(c) \in Functors /\ Des(c) # Rem(c) /\ Des(c) # Est(c)
      BY FunctorTypes, FunctorsDiffer, Zenon
    <3>6. \A k \in Loops : \A g : InQueue(queue', k, g) <=> InQueue(q, k, g) \/ (k = loop_[c] /\ g = Des(c))
      <4>1. q \in [Loops -> Seq(Functors)]
        BY <1>3
      <4>2. loop_[c] \in Loops /\ Des(c) \in Functors
        BY <3>2, <3>5, Zenon
      <4>3. queue' = [q EXCEPT ![loop_[c]] = Append(@, Des(c))]
        BY <3>4, Zenon
      <4> DEFINE d == Des(c)
                 m == loop_[c]
      <4> HIDE DEF q, d, m
      <4>4. \A k \in Loops : \A g : InQueue([q EXCEPT ![m] = Append(@, d)], k, g)
                               <=> InQueue(q, k, g) \/ (k = m /\ g = d)
        BY <4>1, <4>2, AppendIn, Zenon DEF d, m
      <4> QED
        BY <4>3, <4>4, Zenon DEF d, m
    <3>7. /\ ~InQueue(q, 0, Rem(c)) /\ OnlyOnce(q)
          /\ \A k \in Loops : ~InQueue(q, k, Est(c)) /\ ~InQueue(q, k, Rem(c)) /\ ~InQueue(q, k, Des(c))
      <4>1. ~InQueue(q, 0, Rem(c)) /\ OnlyOnce(q)
        BY <1>3, <3>1, FunctorsDiffer, Zenon
      <4>2. state_[c] # "kConnecting"
        BY <3>2
      <4>3. ASSUME NEW k \in Loops
            PROVE  ~InQueue(q, k, Est(c)) /\ ~InQueue(q, k, Rem(c)) /\ ~InQueue(q, k, Des(c))
        BY <1>3, <3>1, <3>2, <4>1, <4>2, Zenon DEF ChainOf
      <4> QED
        BY <4>1, <4>3, Zenon
    <3>8. OnlyOnce(queue')
      <4>1. q \in [Loops -> Seq(Functors)] /\ OnlyOnce(q) /\ ~InQueue(q, loop_[c], Des(c))
        BY <1>3, <3>2, <3>7, Zenon
      <4>2. OnlyOnce([q EXCEPT ![loop_[c]] = Append(@, Des(c))])
        BY <3>2, <3>5, <4>1, AppendIn, Zenon
      <4> QED
        BY <3>4, <4>2, Zenon
    <3>9. ~destroyed[c]
      BY <1>0, <1>3, <3>1, Zenon DEF ChainOf
    <3>10. ChainOf(c)'
      BY <1>1, <3>2, <3>4, <3>5, <3>6, <3>7, <3>9, Zenon DEF ChainOf
    <3>11. MapOf(c)'
      <4>1. ~InQueue(queue', 0, Rem(c)) /\ c \notin connections_'
        BY <1>0, <3>4, <3>5, <3>6, <3>7, Zenon
      <4>2. state_'[c] \notin {"kConnecting", "kConnected", "kDisconnecting"}
        BY <1>1, <3>2, Zenon
      <4> QED
        BY <4>1, <4>2, Zenon DEF MapOf
    <3>12. ASSUME NEW d \in Conns, d # c PROVE SamePlace(d)
      <4>1. Alike(q, queue', d)
        BY <1>3, <3>2, <3>4, <3>12, PushAlike, Zenon
      <4>2. Alike(queue, queue', d)
        BY <1>4, <3>12, <4>1, AlikeTransitive, Zenon
      <4> QED
        BY <1>1, <3>4, <3>12, <4>2, Zenon DEF SamePlace
    <3> QED
      BY <1>0, <1>1, <1>7, <3>1, <3>4, <3>8, <3>10, <3>11, <3>12, OneConnAlive, Zenon
  <2> QED
    BY <2>1, <2>2
<1> QED
  BY <1>2, <1>6, <1>8, <1>9, Zenon DEF TSInv, ServerTypes

(* A step that leaves conns, loop_ and the map alone and queues or runs    *)
(* listen().                                                               *)
LEMMA ListenKeeps ==
  ASSUME Stages, AliveInv, UNCHANGED <<conns, loop_, connections_, quit_, failed, serverPc>>,
         backlog' = backlog, Lives => OnlyOnce(queue'), \A d \in Conns : Alike(queue, queue', d)
  PROVE  Stages' /\ AliveInv'
<1>1. /\ state_' = state_ /\ watching' = watching /\ registered' = registered /\ ups' = ups
      /\ downs' = downs /\ destroyed' = destroyed /\ loop_' = loop_ /\ connections_' = connections_
      /\ quit_' = quit_ /\ failed' = failed /\ serverPc' = serverPc
  BY Zenon DEF conns
<1>2. \A d \in Conns : SameConn(d) /\ SamePlace(d)
  BY <1>1, Zenon DEF SameConn, SamePlace
<1>3. Stages'
  <2>1. \A d \in Conns : StageOf(d)'
    BY <1>2, StageFrame, Zenon DEF Stages
  <2> QED
    BY <1>1, <2>1, Zenon DEF Stages
<1>4. ASSUME Lives'
      PROVE  ~failed' /\ NoneQuits' /\ OnlyOnce(queue)' /\ \A d \in Conns : ChainOf(d)' /\ MapOf(d)'
  <2>1. Lives
    BY <1>1, <1>4, Zenon DEF Lives
  <2>2. ~failed /\ NoneQuits /\ \A d \in Conns : ChainOf(d) /\ MapOf(d)
    BY <2>1, AliveFacts, Zenon
  <2>3. \A d \in Conns : ChainOf(d)' /\ MapOf(d)'
    BY <1>2, <2>2, PlaceFrame, Zenon
  <2>4. NoneQuits'
    BY <1>1, <2>2, Zenon DEF NoneQuits
  <2> QED
    BY <1>1, <2>1, <2>2, <2>3, <2>4
<1> QED
  BY <1>3, <1>4, Zenon DEF AliveInv

LEMMA RunListenKeeps ==
  ASSUME TSInv, RunListen
  PROVE  TSInv'
<1>0. /\ PoolInv /\ ATypeOK /\ StartTypes /\ ConnTypes /\ LoopTypes /\ MapTypes
      /\ FlagTypes /\ Stages /\ AliveInv
      /\ queue \in [Loops -> Seq(Functors)] /\ 0 \in Loops
  BY TSFacts, LoopFacts, Zenon
<1>1. /\ UNCHANGED poolVars /\ (Listen \/ UNCHANGED accepting) /\ UNCHANGED <<started_, startAborted>>
      /\ UNCHANGED <<conns, loop_, connections_, quit_, failed, serverPc>>
      /\ running' = running /\ dangling' \in BOOLEAN
      /\ queue[0] # <<>> /\ Head(queue[0]) = <<"listen">> /\ queue' = [queue EXCEPT ![0] = Tail(@)]
  BY <1>0, Zenon DEF RunListen, starting, loops, Dequeue, Dropped, FlagTypes
<1>2. PoolInv' /\ ATypeOK' /\ backlog' = backlog
  BY <1>0, <1>1, PoolInvStep, AcceptorTypes, Zenon DEF AcceptorStep, Listen, accepting
<1>3. queue' \in [Loops -> Seq(Functors)] /\ (OnlyOnce(queue) => OnlyOnce(queue'))
  BY <1>0, <1>1, DropIn, Zenon
<1>4. ASSUME NEW d \in Conns PROVE Alike(queue, queue', d)
  <2>1. <<"listen">> # Est(d) /\ <<"listen">> # Rem(d) /\ <<"listen">> # Des(d)
    BY FunctorsDiffer, Zenon
  <2> QED
    BY <1>0, <1>1, <2>1, DropAlike, Zenon
<1>5. Lives => OnlyOnce(queue')
  BY <1>0, <1>3, AliveFacts, Zenon
<1>6. Stages' /\ AliveInv'
  BY <1>0, <1>1, <1>2, <1>4, <1>5, ListenKeeps, Zenon
<1>7. StartTypes' /\ LoopTypes' /\ MapTypes' /\ QueueTypes' /\ FlagTypes' /\ ConnTypes'
  BY <1>0, <1>1, <1>3, Zenon DEF StartTypes, LoopTypes, MapTypes, QueueTypes, FlagTypes, ConnTypes, conns
<1> QED
  BY <1>2, <1>6, <1>7, Zenon DEF TSInv, ServerTypes

(* start() by another thread. *)
LEMMA OtherStartKeeps ==
  ASSUME TSInv, OtherStart
  PROVE  TSInv'
<1>0. /\ PoolInv /\ ATypeOK /\ StartTypes /\ ConnTypes /\ LoopTypes /\ MapTypes
      /\ FlagTypes /\ Stages /\ AliveInv
      /\ queue \in [Loops -> Seq(Functors)] /\ 0 \in Loops
  BY TSFacts, LoopFacts, Zenon
<1>1. /\ UNCHANGED poolVars /\ UNCHANGED accepting
      /\ UNCHANGED <<conns, loop_, connections_, quit_, failed, serverPc>>
      /\ running' = running /\ dangling' = dangling
      /\ \/ /\ queue' = [queue EXCEPT ![0] = Append(@, <<"listen">>)]
            /\ started_' = started_ /\ startAborted' = startAborted
         \/ started_' = TRUE /\ startAborted' = TRUE /\ queue' = queue
  BY Zenon DEF OtherStart, loops, Enqueue
<1>2. PoolInv' /\ ATypeOK' /\ backlog' = backlog
  BY <1>0, <1>1, PoolInvStep, AcceptorTypes, Zenon DEF AcceptorStep, accepting
<1>3. StartTypes'
  BY <1>0, <1>1, Zenon DEF StartTypes
<1>4. /\ queue' \in [Loops -> Seq(Functors)] /\ (OnlyOnce(queue) => OnlyOnce(queue'))
      /\ \A d \in Conns : Alike(queue, queue', d)
  <2>1. CASE queue' = queue
    BY <1>0, <2>1, Zenon DEF Alike
  <2>2. CASE queue' = [queue EXCEPT ![0] = Append(@, <<"listen">>)]
    <3>1. <<"listen">> \in Functors
      BY DEF Functors
    <3>2. /\ queue' \in [Loops -> Seq(Functors)] /\ (OnlyOnce(queue) => OnlyOnce(queue'))
          /\ \A k \in Loops : \A g : InQueue(queue', k, g) <=> InQueue(queue, k, g) \/ (k = 0 /\ g = <<"listen">>)
      <4> DEFINE r == [queue EXCEPT ![0] = Append(@, <<"listen">>)]
      <4>1. /\ r \in [Loops -> Seq(Functors)] /\ (OnlyOnce(queue) => OnlyOnce(r))
            /\ \A k \in Loops : \A g : InQueue(r, k, g) <=> InQueue(queue, k, g) \/ (k = 0 /\ g = <<"listen">>)
        BY <1>0, <3>1, AppendIn, Zenon
      <4>2. queue' = r
        BY <2>2, Zenon
      <4> HIDE DEF r
      <4> QED
        BY <4>1, <4>2, Zenon
    <3>3. ASSUME NEW d \in Conns PROVE Alike(queue, queue', d)
      <4>1. <<"listen">> # Est(d) /\ <<"listen">> # Rem(d) /\ <<"listen">> # Des(d)
        BY FunctorsDiffer, Zenon
      <4> QED
        BY <3>2, <4>1, Zenon DEF Alike
    <3> QED
      BY <3>2, <3>3
  <2> QED
    BY <1>1, <2>1, <2>2, Zenon
<1>5. Lives => OnlyOnce(queue')
  BY <1>0, <1>4, AliveFacts, Zenon
<1>6. Stages' /\ AliveInv'
  BY <1>0, <1>1, <1>2, <1>4, <1>5, ListenKeeps, Zenon
<1>7. LoopTypes' /\ MapTypes' /\ QueueTypes' /\ FlagTypes' /\ ConnTypes'
  BY <1>0, <1>1, <1>4, Zenon DEF LoopTypes, MapTypes, QueueTypes, FlagTypes, ConnTypes, conns
<1> QED
  BY <1>2, <1>3, <1>6, <1>7, Zenon DEF TSInv, ServerTypes

(* ~TcpServer(): connectDestroyed() here, or in the connection's loop.     *)
LEMMA DtorConnKeeps ==
  ASSUME TSInv, NEW c \in Conns, ServerDtorConn(c)
  PROVE  TSInv'
<1>0. /\ PoolInv /\ ATypeOK /\ StartTypes /\ ConnTypes /\ LoopTypes /\ MapTypes
      /\ FlagTypes /\ Stages /\ AliveInv
      /\ backlog \subseteq Conns /\ (\A d \in Conns : StageOf(d))
      /\ connections_ \subseteq Conns /\ loop_ \in [Conns -> Loops]
      /\ queue \in [Loops -> Seq(Functors)] /\ failed \in BOOLEAN
  BY TSFacts, Zenon
<1>1. /\ UNCHANGED poolVars /\ UNCHANGED accepting /\ started_' = started_ /\ startAborted' = startAborted
      /\ running' = running /\ quit_' = quit_ /\ serverPc' = serverPc /\ serverPc = "destroying"
      /\ dangling' = dangling /\ loop_' = loop_ /\ connections_' = connections_ \ {c}
      /\ \/ ConnectDestroyed(c) /\ queue' = queue
         \/ /\ queue' = [queue EXCEPT ![loop_[c]] = Append(@, Des(c))]
            /\ UNCHANGED conns /\ failed' = failed
  BY Zenon DEF ServerDtorConn, starting, loops, Enqueue, Des
<1>2. PoolInv' /\ ATypeOK'
  BY <1>0, <1>1, PoolInvStep, AcceptorTypes, Zenon DEF AcceptorStep
<1>3. backlog' = backlog
  BY <1>1, Zenon DEF accepting
<1>4. ~Lives' /\ AliveInv'
  <2>1. ~Lives'
    BY <1>1 DEF Lives
  <2> QED
    BY <2>1, Zenon DEF AliveInv
<1>5. failed' \in BOOLEAN /\ queue' \in [Loops -> Seq(Functors)] /\ ConnTypes' /\ Stages'
  <2>1. CASE ConnectDestroyed(c) /\ queue' = queue
    <3>1. /\ ConnTypes' /\ StageOf(c)' /\ failed' \in BOOLEAN
          /\ \A d \in Conns : d # c => SameConn(d)
          /\ state_'[c] = state_[c] \/ state_[c] = "kConnected"
      BY <1>0, <2>1, DestroyedStage, Zenon
    <3>2. state_'[c] # "none" => c \notin backlog
      <4>1. c \in backlog => state_[c] = "none"
        BY <1>0, Zenon DEF Stages
      <4> QED
        BY <3>1, <4>1
    <3>3. Stages'
      BY <1>0, <1>3, <3>1, <3>2, OneConnKeeps, Zenon
    <3> QED
      BY <1>0, <2>1, <3>1, <3>3, Zenon
  <2>2. CASE /\ queue' = [queue EXCEPT ![loop_[c]] = Append(@, Des(c))]
             /\ UNCHANGED conns /\ failed' = failed
    <3>1. queue' \in [Loops -> Seq(Functors)]
      <4>1. loop_[c] \in Loops /\ Des(c) \in Functors
        BY <1>0, FunctorTypes
      <4> QED
        BY <1>0, <2>2, <4>1, AppendIn
    <3>2. Stages'
      BY <1>0, <1>3, <1>4, <2>2, IdleKeeps, Zenon
    <3> QED
      BY <1>0, <2>2, <3>1, <3>2, Zenon DEF ConnTypes, conns
  <2> QED
    BY <1>1, <2>1, <2>2, Zenon
<1>6. StartTypes' /\ LoopTypes' /\ MapTypes' /\ QueueTypes' /\ FlagTypes'
  BY <1>0, <1>1, <1>5, Zenon DEF StartTypes, LoopTypes, MapTypes, QueueTypes, FlagTypes
<1> QED
  BY <1>2, <1>4, <1>5, <1>6, Zenon DEF TSInv, ServerTypes

(* The steps that concern no connection. *)
LEMMA QuietKeeps ==
  ASSUME TSInv, PoolInv', ATypeOK', StartTypes', LoopTypes', QueueTypes',
         serverPc' \in {"alive", "starting", "destroying", "gone"},
         UNCHANGED <<conns, loop_, connections_, failed, dangling>>,
         \A c \in backlog' : c \in backlog \/ state_[c] = "none",
         Lives' => Lives /\ queue' = queue /\ quit_' = quit_
  PROVE  TSInv'
<1>0. ConnTypes /\ MapTypes /\ FlagTypes /\ Stages /\ AliveInv
  BY TSFacts, Zenon
<1>1. /\ UNCHANGED conns /\ loop_' = loop_ /\ connections_' = connections_ /\ failed' = failed
      /\ dangling' = dangling
  BY Zenon
<1>2. ConnTypes' /\ MapTypes' /\ FlagTypes'
  BY <1>0, <1>1, Zenon DEF ConnTypes, MapTypes, FlagTypes, conns
<1>3. Stages' /\ AliveInv'
  BY <1>0, <1>1, IdleKeeps, Zenon
<1> QED
  BY <1>2, <1>3, Zenon DEF TSInv, ServerTypes

LEMMA StartKeeps ==
  ASSUME TSInv, Start
  PROVE  TSInv'
<1>0. PoolInv /\ ATypeOK /\ StartTypes /\ LoopTypes /\ QueueTypes
  BY TSFacts, Zenon
<1>1. /\ serverPc = "alive" /\ serverPc' = "starting" /\ started_' = TRUE /\ startAborted' = startAborted
      /\ PoolStart \/ UNCHANGED poolVars
      /\ running' = [l \in Loops |-> running[l] \/ l \in 1 .. Len(loops_')]
      /\ UNCHANGED accepting /\ UNCHANGED <<conns, loop_, connections_, failed, dangling>>
      /\ queue' = queue /\ quit_' = quit_
  BY Zenon DEF Start
<1>2. PoolInv' /\ ATypeOK'
  BY <1>0, <1>1, PoolInvStep, AcceptorTypes, Zenon DEF AcceptorStep, PoolNext
<1>3. StartTypes' /\ QueueTypes'
  BY <1>0, <1>1, Zenon DEF StartTypes, QueueTypes
<1>4. LoopTypes'
  <2>1. running' \in [Loops -> BOOLEAN]
    BY <1>1, Zenon
  <2> QED
    BY <1>0, <1>1, <2>1, Zenon DEF LoopTypes
<1>5. backlog' = backlog
  BY <1>1, Zenon DEF accepting
<1>6. Lives
  BY <1>1, Zenon DEF Lives
<1> QED
  BY <1>1, <1>2, <1>3, <1>4, <1>5, <1>6, QuietKeeps, Zenon

LEMMA StartListenKeeps ==
  ASSUME TSInv, StartListen
  PROVE  TSInv'
<1>0. PoolInv /\ ATypeOK /\ StartTypes /\ LoopTypes /\ QueueTypes
  BY TSFacts, Zenon
<1>1. /\ serverPc = "starting" /\ serverPc' = "alive" /\ Listen
      /\ UNCHANGED poolVars /\ started_' = started_ /\ startAborted' = startAborted
      /\ UNCHANGED <<conns, loop_, connections_, failed, dangling>>
      /\ queue' = queue /\ quit_' = quit_ /\ running' = running
  BY Zenon DEF StartListen, loops
<1>2. PoolInv' /\ ATypeOK' /\ backlog' = backlog
  BY <1>0, <1>1, PoolInvStep, AcceptorTypes, Zenon DEF AcceptorStep, Listen
<1>3. StartTypes' /\ QueueTypes' /\ LoopTypes'
  BY <1>0, <1>1, Zenon DEF StartTypes, QueueTypes, LoopTypes
<1>4. Lives
  BY <1>1, Zenon DEF Lives
<1> QED
  BY <1>1, <1>2, <1>3, <1>4, QuietKeeps, Zenon

(* Clients, other threads, handleRead() with no descriptor left. *)
LEMMA OutsideKeeps ==
  ASSUME TSInv, Outside \/ Refuse
  PROVE  TSInv'
<1>0. PoolInv /\ ATypeOK /\ StartTypes /\ LoopTypes /\ QueueTypes /\ FlagTypes
  BY TSFacts, Zenon
<1>1. /\ UNCHANGED poolVars /\ UNCHANGED starting /\ UNCHANGED loops /\ serverPc' = serverPc
      /\ queue' = queue /\ UNCHANGED <<conns, loop_, connections_, failed, dangling>>
  BY Zenon DEF Outside, Refuse
<1>2. /\ AcceptorStep
      /\ \A d \in backlog' : d \in backlog \/ state_[d] = "none"
  <2>1. ASSUME NEW c \in Conns, state_[c] = "none", ClientConnects(c)
        PROVE  AcceptorStep /\ \A d \in backlog' : d \in backlog \/ state_[d] = "none"
    BY <2>1, Zenon DEF AcceptorStep, ClientConnects
  <2>2. ASSUME NEW c \in Conns, ClientAborts(c)
        PROVE  AcceptorStep /\ \A d \in backlog' : d \in backlog \/ state_[d] = "none"
    BY <2>2, Zenon DEF AcceptorStep, ClientAborts
  <2>3. ASSUME OthersOpen(Sockets) \/ OthersClose \/ AcceptFull(Sockets) \/ OpenIdle(Sockets)
        PROVE  AcceptorStep /\ backlog' = backlog
    BY <2>3, Zenon DEF AcceptorStep, OthersOpen, OthersClose, AcceptFull, OpenIdle
  <2>4. ASSUME AcceptAndClose(Sockets)
        PROVE  AcceptorStep /\ \A d \in backlog' : d \in backlog
    <3>1. (\E c \in backlog : backlog' = backlog \ {c}) \/ backlog' = backlog
      BY <2>4, Zenon DEF AcceptAndClose
    <3>2. \A d \in backlog' : d \in backlog
      BY <3>1
    <3> QED
      BY <2>4, <3>2, Zenon DEF AcceptorStep
  <2> QED
    BY <2>1, <2>2, <2>3, <2>4, Zenon DEF Outside, Refuse
<1>3. PoolInv' /\ ATypeOK'
  BY <1>0, <1>1, <1>2, PoolInvStep, AcceptorTypes, Zenon
<1>4. StartTypes' /\ QueueTypes' /\ LoopTypes'
  BY <1>0, <1>1, Zenon DEF StartTypes, QueueTypes, LoopTypes, starting, loops
<1>5. serverPc' \in {"alive", "starting", "destroying", "gone"} /\ quit_' = quit_ /\ (Lives' => Lives)
  BY <1>0, <1>1, Zenon DEF FlagTypes, Lives, loops
<1> QED
  BY <1>1, <1>2, <1>3, <1>4, <1>5, QuietKeeps, Zenon

(* The rest of ~TcpServer(), and a loop that ends. *)
LEMMA DtorKeeps ==
  ASSUME TSInv, ServerDtor \/ ServerDtorDone \/ \E l \in Loops : ServerDtorQuit(l)
  PROVE  TSInv'
<1>0. PoolInv /\ ATypeOK /\ StartTypes /\ LoopTypes /\ QueueTypes
  BY TSFacts, Zenon
<1>1. /\ UNCHANGED poolVars /\ UNCHANGED starting /\ running' = running
      /\ backlog' = backlog /\ queue' = queue
      /\ UNCHANGED <<conns, loop_, connections_, failed, dangling>>
  <2>1. CASE ServerDtor
    BY <2>1, Zenon DEF ServerDtor, loops, accepting
  <2>2. CASE ServerDtorDone
    BY <2>2, Zenon DEF ServerDtorDone, loops
  <2>3. CASE \E l \in Loops : ServerDtorQuit(l)
    BY <2>3, Zenon DEF ServerDtorQuit, accepting
  <2> QED
    BY <2>1, <2>2, <2>3, Zenon
<1>2. ATypeOK'
  <2>1. UNCHANGED accepting \/ (idleFd_' = FALSE /\ UNCHANGED <<listenning_, acceptPc, backlog, others, refused, taken>>)
    BY Zenon DEF ServerDtor, ServerDtorDone, ServerDtorQuit
  <2> QED
    BY <1>0, <2>1, Zenon DEF ATypeOK, accepting
<1>3. serverPc' \in {"destroying", "gone"}
  BY Zenon DEF ServerDtor, ServerDtorDone, ServerDtorQuit
<1>4. /\ serverPc' \in {"alive", "starting", "destroying", "gone"} /\ ~Lives'
  BY <1>3 DEF Lives
<1>5. quit_' \in [Loops -> BOOLEAN]
  <2>1. quit_' = quit_ \/ \E l \in Loops : quit_' = [quit_ EXCEPT ![l] = TRUE]
    BY DEF ServerDtor, ServerDtorDone, ServerDtorQuit, loops
  <2>2. CASE quit_' = quit_
    BY <1>0, <2>2, Zenon DEF LoopTypes
  <2>3. ASSUME NEW l \in Loops, quit_' = [quit_ EXCEPT ![l] = TRUE] PROVE quit_' \in [Loops -> BOOLEAN]
    BY <1>0, <2>3, Replaced, Zenon DEF LoopTypes
  <2> QED
    BY <2>1, <2>2, <2>3, Zenon
<1>6. PoolInv' /\ StartTypes' /\ QueueTypes' /\ LoopTypes'
  BY <1>0, <1>1, <1>5, PoolInvStep, Zenon DEF StartTypes, QueueTypes, LoopTypes, starting
<1> QED
  BY <1>1, <1>2, <1>4, <1>6, QuietKeeps, Zenon

LEMMA LoopExitKeeps ==
  ASSUME TSInv, NEW l \in Loops, LoopExit(l)
  PROVE  TSInv'
<1>0. PoolInv /\ ATypeOK /\ StartTypes /\ LoopTypes /\ QueueTypes /\ FlagTypes /\ AliveInv
  BY TSFacts, Zenon
<1>1. /\ UNCHANGED poolVars /\ UNCHANGED accepting /\ UNCHANGED starting
      /\ running' = [running EXCEPT ![l] = FALSE] /\ queue' = [queue EXCEPT ![l] = <<>>]
      /\ quit_' = quit_ /\ serverPc' = serverPc /\ quit_[l]
      /\ UNCHANGED <<conns, loop_, connections_, failed, dangling>>
  BY Zenon DEF LoopExit
<1>2. ~Lives'
  BY <1>0, <1>1, AliveFacts, Zenon DEF NoneQuits, Lives
<1>3. queue' \in [Loops -> Seq(Functors)]
  <2>1. <<>> \in Seq(Functors)
    OBVIOUS
  <2> QED
    BY <1>0, <1>1, <2>1, Replaced, Zenon DEF QueueTypes
<1>4. running' \in [Loops -> BOOLEAN]
  BY <1>0, <1>1, Replaced, Zenon DEF LoopTypes
<1>5. PoolInv' /\ ATypeOK' /\ backlog' = backlog
  BY <1>0, <1>1, PoolInvStep, AcceptorTypes, Zenon DEF AcceptorStep, accepting
<1>6. StartTypes' /\ QueueTypes' /\ LoopTypes'
  BY <1>0, <1>1, <1>3, <1>4, Zenon DEF StartTypes, QueueTypes, LoopTypes, starting
<1>7. serverPc' \in {"alive", "starting", "destroying", "gone"}
  BY <1>0, <1>1, Zenon DEF FlagTypes
<1> QED
  BY <1>1, <1>2, <1>5, <1>6, <1>7, QuietKeeps, Zenon

-----------------------------------------------------------------------------
LEMMA TSInvStep == TSInv /\ [TSNext]_tsvars => TSInv'
<1> SUFFICES ASSUME TSInv, [TSNext]_tsvars PROVE TSInv'
  OBVIOUS
<1>1. CASE Start \/ StartListen \/ OtherStart
  BY <1>1, StartKeeps, StartListenKeeps, OtherStartKeeps, Zenon
<1>2. ASSUME NEW c \in Conns, NewConnection(c) \/ HandleClose(c) \/ Shutdown(c) \/ ServerDtorConn(c)
      PROVE  TSInv'
  BY <1>2, NewConnectionKeeps, HandleCloseKeeps, ShutdownKeeps, DtorConnKeeps, Zenon
<1>3. CASE Outside \/ Refuse
  BY <1>3, OutsideKeeps, Zenon
<1>4. CASE ServerDtor \/ ServerDtorDone \/ \E l \in Loops : ServerDtorQuit(l)
  BY <1>4, DtorKeeps, Zenon
<1>5. ASSUME NEW l \in Loops, LoopStep(l) PROVE TSInv'
  BY <1>5, RunListenKeeps, RunRemoveKeeps, RunEstablishedKeeps, RunDestroyedKeeps, Zenon DEF LoopStep
<1>6. ASSUME NEW l \in Loops, LoopExit(l) PROVE TSInv'
  BY <1>6, LoopExitKeeps, Zenon
<1>7. CASE UNCHANGED tsvars
  <2>0. PoolInv /\ ATypeOK /\ StartTypes /\ LoopTypes /\ QueueTypes /\ FlagTypes
    BY TSFacts, Zenon
  <2>1. /\ UNCHANGED poolVars /\ UNCHANGED accepting /\ UNCHANGED starting /\ UNCHANGED loops
        /\ serverPc' = serverPc /\ queue' = queue
        /\ UNCHANGED <<conns, loop_, connections_, failed, dangling>>
    BY <1>7, Zenon DEF tsvars
  <2>2. PoolInv' /\ ATypeOK' /\ backlog' = backlog
    BY <2>0, <2>1, PoolInvStep, AcceptorTypes, Zenon DEF AcceptorStep, accepting
  <2>3. StartTypes' /\ QueueTypes' /\ LoopTypes'
    BY <2>0, <2>1, Zenon DEF StartTypes, QueueTypes, LoopTypes, starting, loops
  <2>4. serverPc' \in {"alive", "starting", "destroying", "gone"} /\ quit_' = quit_ /\ (Lives' => Lives)
    BY <2>0, <2>1, Zenon DEF FlagTypes, Lives, loops
  <2> QED
    BY <2>1, <2>2, <2>3, <2>4, QuietKeeps, Zenon
<1> QED
  BY <1>1, <1>2, <1>3, <1>4, <1>5, <1>6, <1>7, Zenon DEF TSNext

LEMMA TSInvInit == TSInit => TSInv
<1> SUFFICES ASSUME TSInit PROVE TSInv
  OBVIOUS
<1>1. PoolInv
  <2>1. /\ poolStarted_ = FALSE /\ numThreads_ \in 0 .. MaxThreads
        /\ next_ = 0 /\ loops_ = <<>> /\ given = <<>>
    BY Zenon DEF TSInit
  <2>2. poolStarted_ \in BOOLEAN
    BY <2>1, Zenon
  <2>3. PoolTypeOK
    BY <2>1, <2>2, MaxThreadsAssumption DEF PoolTypeOK
  <2>4. Rounds(0)
    BY <2>1 DEF Rounds
  <2> QED
    BY <2>1, <2>3, <2>4 DEF PoolInv
<1>2. ATypeOK /\ backlog = {}
  <2>1. AInit
    BY Zenon DEF TSInit
  <2>2. others \in 0 .. MaxOthers
    BY <2>1, AcceptorAssumption DEF AInit
  <2> QED
    BY <2>1, <2>2, Zenon DEF AInit, ATypeOK
<1>3. StartTypes /\ LoopTypes
  BY Zenon DEF TSInit, StartTypes, LoopTypes
<1>4. 0 \in Loops /\ loop_ = [c \in Conns |-> 0] /\ connections_ = {}
  BY LoopFacts, Zenon DEF TSInit
<1>5. MapTypes
  BY <1>4 DEF MapTypes
<1>6. QueueTypes /\ \A l \in Loops : queue[l] = <<>>
  BY DEF TSInit, QueueTypes
<1>7. FlagTypes /\ ~failed
  BY Zenon DEF TSInit, FlagTypes
<1>8. \A c \in Conns : state_[c] = "none" /\ ups[c] = 0 /\ downs[c] = 0
  BY DEF TSInit
<1>9. \A c \in Conns : watching[c] = FALSE /\ registered[c] = FALSE /\ destroyed[c] = FALSE
  BY Zenon DEF TSInit
<1>10. ConnTypes
  <2>1. state_ \in [Conns -> States] /\ ups \in [Conns -> Nat] /\ downs \in [Conns -> Nat]
    BY DEF TSInit, States
  <2>2. watching \in [Conns -> BOOLEAN] /\ registered \in [Conns -> BOOLEAN] /\ destroyed \in [Conns -> BOOLEAN]
    BY Zenon DEF TSInit
  <2> QED
    BY <2>1, <2>2, Zenon DEF ConnTypes
<1>11. Stages
  <2>1. ASSUME NEW c \in Conns PROVE StageOf(c)
    <3>1. state_[c] = "none" /\ ups[c] = 0 /\ downs[c] = 0
      BY <1>8, Zenon
    <3>2. ~watching[c] /\ ~registered[c] /\ ~destroyed[c]
      BY <1>9, Zenon
    <3> QED
      BY <3>1, <3>2 DEF StageOf
  <2> QED
    BY <1>2, <2>1, Zenon DEF Stages
<1>12. AliveInv
  <2>1. \A l \in Loops : 1 .. Len(queue[l]) = {}
    BY <1>6
  <2>2. OnlyOnce(queue) /\ \A l \in Loops : \A f : ~InQueue(queue, l, f)
    BY <2>1, Zenon DEF OnlyOnce, InQueue
  <2>3. NoneQuits
    BY Zenon DEF TSInit, NoneQuits
  <2>4. ASSUME NEW c \in Conns PROVE ChainOf(c) /\ MapOf(c)
    <3>1. state_[c] \notin {"kConnecting", "kConnected", "kDisconnecting"} /\ c \notin connections_
      BY <1>4, <1>8
    <3> QED
      BY <1>4, <2>2, <3>1, Zenon DEF ChainOf, MapOf
  <2> QED
    BY <1>7, <2>2, <2>3, <2>4, Zenon DEF AliveInv
<1> QED
  BY <1>1, <1>2, <1>3, <1>5, <1>6, <1>7, <1>10, <1>11, <1>12, Zenon DEF TSInv, ServerTypes

LEMMA TSInvariant == TSSpec => []TSInv
BY TSInvInit, TSInvStep, PTL DEF TSSpec

(* The server keeps track of its connections, for any number of loops,     *)
(* connections and descriptors: no assert() of the chain from              *)
(* newConnection() to connectDestroyed() fails while it lives,             *)
(* connections_ holds what is up or still to be erased, and the            *)
(* connection callback says UP once and DOWN once before the destruction.  *)
THEOREM ServerTracksConnections == TSSpec => []ConnectionsTracked
<1>1. TSInv => ConnectionsTracked
  <2> SUFFICES ASSUME TSInv PROVE ConnectionsTracked
    OBVIOUS
  <2>0. /\ PoolTypeOK /\ ATypeOK /\ StartTypes /\ ConnTypes /\ LoopTypes /\ MapTypes
        /\ QueueTypes /\ FlagTypes /\ AliveInv /\ \A c \in Conns : StageOf(c)
    BY TSFacts, Zenon
  <2>1. TSTypeOK
    BY <2>0, Zenon DEF TSTypeOK, StartTypes, ConnTypes, LoopTypes, MapTypes, QueueTypes, FlagTypes
  <2>2. NoAssertWhileAlive
    BY <2>0, AliveFacts, Zenon DEF NoAssertWhileAlive
  <2>3. MapMatches
    BY <2>0, AliveFacts, Zenon DEF MapMatches, MapOf, InQueue, Rem
  <2>4. ASSUME NEW c \in Conns PROVE ups[c] <= 1 /\ downs[c] <= ups[c] /\ (destroyed[c] => downs[c] = 1)
    <3>1. state_[c] \in States
      BY <2>0 DEF ConnTypes
    <3>2. \/ ups[c] = 0 /\ downs[c] = 0 /\ ~destroyed[c]
          \/ ups[c] = 1 /\ downs[c] = 0 /\ ~destroyed[c]
          \/ ups[c] = 1 /\ downs[c] = 1
      BY <2>0, <3>1, Zenon DEF States, StageOf
    <3> QED
      BY <3>2
  <2>5. UpDownOnce
    BY <2>4, Zenon DEF UpDownOnce
  <2> QED
    BY <2>1, <2>2, <2>3, <2>5, Zenon DEF ConnectionsTracked
<1> QED
  BY <1>1, TSInvariant, PTL

(* The server's use of getNextLoop(), once for each connection it accepts, *)
(* spreads the connections evenly over its threads.                        *)
THEOREM ServerSpreadsLoad == TSSpec => []Balanced
<1>1. TSInv => Balanced
  <2> SUFFICES ASSUME PoolInv PROVE Balanced
    BY Zenon DEF TSInv
  <2>1. PICK q \in Nat : Rounds(q)
    BY DEF PoolInv
  <2> QED
    BY <2>1 DEF Rounds, Balanced, PoolInv, PoolTypeOK
<1> QED
  BY <1>1, TSInvariant, PTL
=============================================================================
