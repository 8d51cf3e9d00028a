-------------------------- MODULE TcpConnectionProofs --------------------------
(***************************************************************************)
(* A TcpConnection sends its bytes in order and ends once, for any number  *)
(* and length of messages, any high-water mark and any interleaving of the *)
(* loop, the second thread and the peer.                                   *)
(***************************************************************************)
EXTENDS TcpConnection, SequenceTheorems, TLAPS

IsDestroy(f) == f.op = "connectDestroyed"
Live == {kConnected, kDisconnecting}

(* Where connectDestroyed() is left to run. *)
InQueue == {i \in DOMAIN pendingFunctors_ : IsDestroy(pendingFunctors_[i])}
InBatch == {i \in called + 1 .. Len(functors) : IsDestroy(functors[i])}
DestroyWaits == InQueue # {} \/ InBatch # {}

(* A functor that carries a message carries some bytes of it. *)
WellFormed(fs) == \A i \in DOMAIN fs : fs[i].op = "sendInLoop" => fs[i].data # <<>>

(* connectDestroyed() is queued once, when the connection goes down, and   *)
(* has not run while it waits.                                             *)
FunctorInv ==
  /\ loopPc # "functors" => functors = <<>> /\ called = 0
  /\ WellFormed(pendingFunctors_) /\ WellFormed(functors)
  /\ DestroyWaits => state_ = kDisconnected /\ ~destroyed
  /\ \A i, j \in InQueue : i = j
  /\ \A i, j \in InBatch : i = j
  /\ InQueue = {} \/ InBatch = {}

(* Nothing has happened to a connection that is not yet established. *)
Unborn ==
  /\ ups = 0 /\ downs = 0 /\ ~reading /\ ~writing /\ ~registered /\ ~wrClosed /\ ~destroyed
  /\ outputBuffer_ = <<>> /\ pendingFunctors_ = <<>> /\ functors = <<>> /\ dropped = {}
  /\ owner /\ ~holder /\ ~failed /\ ~dangling /\ otherPc = "idle" /\ loopPc = "idle"

(* What each state_ stands for. *)
LifeInv ==
  /\ state_ = kConnecting => Unborn
  /\ state_ # kConnecting => ups = 1
  /\ state_ \in Live => downs = 0 /\ reading /\ registered /\ ~destroyed
  /\ state_ = kConnected => owner
  /\ state_ = kDisconnecting => owner \/ failed
  /\ state_ = kDisconnected =>
       downs = 1 /\ ~reading /\ ~writing /\ ~owner /\ (destroyed <=> ~registered)
  /\ state_ = kDisconnected /\ ~destroyed => DestroyWaits
  /\ failed => state_ = kDisconnecting /\ destroyedWhile = kDisconnecting

(* The bytes, and when they may be given up. *)
OutputInv ==
  /\ StreamInOrder /\ OutputDrains /\ GivenUpOnlyWhenClosed
  /\ wrClosed => state_ \in {kDisconnecting, kDisconnected}

TCInv == TCTypeOK /\ FunctorInv /\ LifeInv /\ OutputInv

-----------------------------------------------------------------------------
(* The parts of TCTypeOK. *)
BytesOK == outputBuffer_ \in Seq(Bytes) /\ wire \in Seq(Bytes) /\ stream \in Seq(Bytes)
           /\ sent \in [Senders -> Seq(Bytes)]

QueueOK ==
  pendingFunctors_ \in Seq(FunctorSet) /\ functors \in Seq(FunctorSet) /\ called \in 0 .. Len(functors)

FlagsOK ==
  /\ reading \in BOOLEAN /\ writing \in BOOLEAN /\ registered \in BOOLEAN /\ wrClosed \in BOOLEAN
  /\ owner \in BOOLEAN /\ holder \in BOOLEAN /\ failed \in BOOLEAN /\ dangling \in BOOLEAN
  /\ destroyed \in BOOLEAN

OtherOK ==
  /\ state_ \in States /\ peer \in {"open", "fin", "reset", "dead"} /\ unread \in 0 .. MaxUnread
  /\ loopPc \in {"idle", "write", "functors"} /\ otherPc \in {"idle", "push"}
  /\ messages \in 0 .. MaxMessages /\ dropped \subseteq 1 .. MaxMessages
  /\ ups \in Nat /\ downs \in Nat /\ destroyedWhile \in States \cup {"none"}

LEMMA Types ==
  /\ TCTypeOK <=> BytesOK /\ QueueOK /\ FlagsOK /\ OtherOK
  /\ TCTypeOK' <=> BytesOK' /\ QueueOK' /\ FlagsOK' /\ OtherOK'
BY Zenon DEF TCTypeOK, BytesOK, QueueOK, FlagsOK, OtherOK

-----------------------------------------------------------------------------
(* Sequences: a prefix that moves from the second to the first. *)
LEMMA MovePrefix ==
  ASSUME NEW s \in Seq(Bytes), NEW d \in Seq(Bytes), NEW n \in 0 .. Len(d)
  PROVE  /\ SubSeq(d, 1, n) \in Seq(Bytes) /\ From(d, n) \in Seq(Bytes)
         /\ Len(From(d, n)) = Len(d) - n
         /\ (s \o SubSeq(d, 1, n)) \o From(d, n) = s \o d
<1> DEFINE a == SubSeq(d, 1, n)
           b == From(d, n)
<1>1. /\ Len(d) \in Nat /\ n \in Nat /\ n <= Len(d)
  BY LenProperties
<1>2. /\ a \in Seq(Bytes) /\ Len(a) = n /\ \A i \in 1 .. n : a[i] = d[i]
  <2>1. \A i \in 1 .. n : d[i] \in Bytes
    BY <1>1
  <2>2. /\ SubSeq(d, 1, n) \in Seq(Bytes)
        /\ Len(SubSeq(d, 1, n)) = IF 1 <= n THEN n - 1 + 1 ELSE 0
        /\ \A i \in 1 .. n - 1 + 1 : SubSeq(d, 1, n)[i] = d[1 + i - 1]
    BY <1>1, <2>1, SubSeqProperties
  <2> QED
    BY <1>1, <2>2
<1>3. /\ b \in Seq(Bytes) /\ Len(b) = Len(d) - n
      /\ \A i \in 1 .. Len(d) - n : b[i] = d[n + i]
  <2> DEFINE k == n + 1
             e == Len(d)
  <2>1. \A i \in k .. e : d[i] \in Bytes
    BY <1>1
  <2>2. /\ SubSeq(d, k, e) \in Seq(Bytes)
        /\ Len(SubSeq(d, k, e)) = IF k <= e THEN e - k + 1 ELSE 0
        /\ \A i \in 1 .. e - k + 1 : SubSeq(d, k, e)[i] = d[k + i - 1]
    BY <1>1, <2>1, SubSeqProperties
  <2> QED
    BY <1>1, <2>2 DEF From
<1> HIDE DEF a, b
<1>4. a \in Seq(Bytes) /\ b \in Seq(Bytes) /\ Len(a) = n /\ Len(b) = Len(d) - n
  BY <1>2, <1>3
<1>5. a \o b = d
  <2>1. a \o b \in Seq(Bytes) /\ Len(a \o b) = Len(d)
    BY <1>1, <1>4
  <2>2. ASSUME NEW i \in 1 .. Len(d)
        PROVE  (a \o b)[i] = d[i]
    <3>1. CASE i <= n
      <4>1. (a \o b)[i] = a[i]
        BY <1>1, <1>4, <3>1
      <4> QED
        BY <1>1, <1>2, <3>1, <4>1
    <3>2. CASE i > n
      <4>1. (a \o b)[i] = b[i - n]
        BY <1>1, <1>4, <3>2
      <4>2. i - n \in 1 .. Len(d) - n /\ n + (i - n) = i
        BY <1>1, <3>2
      <4> QED
        BY <1>3, <4>1, <4>2
    <3>3. i <= n \/ i > n
      BY <1>1
    <3> QED
      BY <3>1, <3>2, <3>3, Zenon
  <2> QED
    BY <2>1, <2>2, SeqEqual, Zenon
<1>6. (s \o a) \o b = s \o (a \o b)
  BY <1>4
<1> QED
  BY <1>4, <1>5, <1>6, Zenon DEF a, b

LEMMA ConcatBytes ==
  ASSUME NEW s \in Seq(Bytes), NEW t \in Seq(Bytes), NEW u \in Seq(Bytes)
  PROVE  (s \o t) \o u = s \o (t \o u)
OBVIOUS

LEMMA ConcatFunctors ==
  ASSUME NEW s \in Seq(FunctorSet), NEW t \in Seq(FunctorSet), NEW u \in Seq(FunctorSet)
  PROVE  (s \o t) \o u = s \o (t \o u)
OBVIOUS

-----------------------------------------------------------------------------
(* sendInLoop(). *)

(* Functors that only call back. *)
Quiet(fs) == \A i \in DOMAIN fs : fs[i].op \in {"writeComplete", "highWaterMark"}

LEMMA CallbackFunctors ==
  ASSUME NEW a \in BOOLEAN, NEW k, NEW l
  PROVE  LET y == IF a THEN <<WriteCompleteOf>> ELSE <<>>
             z == HighWater(k, l)
         IN  y \in Seq(FunctorSet) /\ z \in Seq(FunctorSet) /\ y \o z \in Seq(FunctorSet) /\ Quiet(y \o z)
<1> DEFINE y == IF a THEN <<WriteCompleteOf>> ELSE <<>>
           z == HighWater(k, l)
<1>1. WriteCompleteOf \in FunctorSet /\ HighWaterMarkOf \in FunctorSet
  BY DEF WriteCompleteOf, HighWaterMarkOf, FunctorSet
<1>2. y \in Seq(FunctorSet) /\ z \in Seq(FunctorSet)
  BY <1>1 DEF HighWater
<1>3. Quiet(y) /\ Quiet(z)
  BY DEF Quiet, HighWater, WriteCompleteOf, HighWaterMarkOf
<1> HIDE DEF y, z
<1>4. y \o z \in Seq(FunctorSet) /\ Quiet(y \o z)
  BY <1>2, <1>3 DEF Quiet
<1> QED
  BY <1>2, <1>4 DEF y, z

LEMMA TookKeeps ==
  ASSUME TCTypeOK, OutputInv, state_ \in Live, ~wrClosed,
         NEW data \in Seq(Bytes), data # <<>>, NEW n \in 0 .. Len(data),
         outputBuffer_ # <<>> => n = 0, Took(data, n), UNCHANGED <<state_, wrClosed, peer>>
  PROVE  /\ wire' \in Seq(Bytes) /\ outputBuffer_' \in Seq(Bytes) /\ stream' \in Seq(Bytes)
         /\ writing' \in BOOLEAN /\ UNCHANGED dropped
         /\ OutputInv'
         /\ \E x \in Seq(FunctorSet) : pendingFunctors_' = pendingFunctors_ \o x /\ Quiet(x)
<1> DEFINE rest == From(data, n)
           took == SubSeq(data, 1, n)
<1>1. /\ wire \in Seq(Bytes) /\ outputBuffer_ \in Seq(Bytes) /\ stream \in Seq(Bytes)
      /\ stream = wire \o outputBuffer_ /\ writing \in BOOLEAN
  BY DEF TCTypeOK, OutputInv, StreamInOrder
<1>2. /\ wire' = wire \o took /\ outputBuffer_' = outputBuffer_ \o rest
      /\ writing' = (writing \/ rest # <<>>) /\ stream' = stream \o data /\ UNCHANGED dropped
  BY DEF Took
<1>3. /\ took \in Seq(Bytes) /\ rest \in Seq(Bytes) /\ Len(rest) = Len(data) - n
      /\ (wire \o took) \o rest = wire \o data
  BY <1>1, MovePrefix, Zenon
<1>4. n = 0 => took = <<>> /\ rest = data
  BY DEF From
<1>5. \E x \in Seq(FunctorSet) : pendingFunctors_' = pendingFunctors_ \o x /\ Quiet(x)
  <2> DEFINE y == IF rest = <<>> THEN <<WriteCompleteOf>> ELSE <<>>
             z == HighWater(Len(outputBuffer_), Len(outputBuffer_'))
  <2>1. pendingFunctors_' = pendingFunctors_ \o y \o z /\ pendingFunctors_ \in Seq(FunctorSet)
    BY DEF Took, TCTypeOK
  <2>2. /\ y \in Seq(FunctorSet) /\ z \in Seq(FunctorSet)
        /\ y \o z \in Seq(FunctorSet) /\ Quiet(y \o z)
    BY CallbackFunctors, Zenon
  <2> HIDE DEF y, z
  <2>3. y \in Seq(FunctorSet) /\ z \in Seq(FunctorSet)
    BY <2>2
  <2>4. (pendingFunctors_ \o y) \o z = pendingFunctors_ \o (y \o z)
    BY <2>1, <2>3, ConcatFunctors, Zenon
  <2> QED
    BY <2>1, <2>2, <2>4, Zenon
<1> HIDE DEF rest, took
<1>6. /\ wire' \in Seq(Bytes) /\ outputBuffer_' \in Seq(Bytes) /\ stream' \in Seq(Bytes)
      /\ writing' \in BOOLEAN
  BY <1>1, <1>2, <1>3
<1>7. StreamInOrder'
  <2>1. CASE outputBuffer_ = <<>>
    <3>1. outputBuffer_' = rest /\ stream = wire
      BY <1>1, <1>2, <1>3, <2>1
    <3> QED
      BY <1>2, <1>3, <3>1, Zenon DEF StreamInOrder
  <2>2. CASE outputBuffer_ # <<>>
    <3>1. wire' = wire /\ outputBuffer_' = outputBuffer_ \o data
      BY <1>1, <1>2, <1>4, <2>2
    <3>2. wire \in Seq(Bytes) /\ outputBuffer_ \in Seq(Bytes)
      BY <1>1, Zenon
    <3>3. (wire \o outputBuffer_) \o data = wire \o (outputBuffer_ \o data)
      BY <3>2, ConcatBytes
    <3> QED
      BY <1>1, <1>2, <3>1, <3>3, Zenon DEF StreamInOrder
  <2> QED
    BY <2>1, <2>2
<1>8. WriteInterest' /\ FinAfterData'
  <2>1. writing <=> outputBuffer_ # <<>>
    BY DEF OutputInv, OutputDrains, WriteInterest, Live
  <2>2. outputBuffer_' # <<>> <=> (outputBuffer_ # <<>> \/ rest # <<>>)
    BY <1>1, <1>2, <1>3
  <2> QED
    BY <1>2, <2>1, <2>2, Zenon DEF WriteInterest, FinAfterData
<1>9. GivenUpOnlyWhenClosed' /\ (wrClosed' => state_' \in {kDisconnecting, kDisconnected})
  BY <1>2 DEF OutputInv, GivenUpOnlyWhenClosed, Broken
<1> QED
  BY <1>2, <1>5, <1>6, <1>7, <1>8, <1>9, Zenon DEF OutputInv, OutputDrains

LEMMA GiveUpKeeps ==
  ASSUME TCTypeOK, OutputInv, NEW data \in Seq(Bytes), data # <<>>, GiveUp(data),
         wrClosed \/ Broken \/ state_ = kDisconnected, UNCHANGED <<state_, wrClosed, peer>>
  PROVE  /\ wire' \in Seq(Bytes) /\ outputBuffer_' \in Seq(Bytes) /\ stream' \in Seq(Bytes)
         /\ UNCHANGED writing /\ dropped' \subseteq 1 .. MaxMessages
         /\ OutputInv'
         /\ \E x \in Seq(FunctorSet) : pendingFunctors_' = pendingFunctors_ \o x /\ Quiet(x)
<1>1. dropped' = dropped \cup {data[1][2]} /\ UNCHANGED <<wire, outputBuffer_, writing, pendingFunctors_, stream>>
  BY DEF GiveUp
<1>2. data[1] \in Bytes
  OBVIOUS
<1>3. data[1][2] \in 1 .. MaxMessages
  BY <1>2 DEF Bytes
<1>4. pendingFunctors_' = pendingFunctors_ \o <<>> /\ <<>> \in Seq(FunctorSet) /\ Quiet(<<>>)
  BY <1>1 DEF TCTypeOK, Quiet
<1>5. \E x \in Seq(FunctorSet) : pendingFunctors_' = pendingFunctors_ \o x /\ Quiet(x)
  BY <1>4, Zenon
<1>6. /\ wire' \in Seq(Bytes) /\ outputBuffer_' \in Seq(Bytes) /\ stream' \in Seq(Bytes)
      /\ dropped' \subseteq 1 .. MaxMessages
  BY <1>1, <1>3, Zenon DEF TCTypeOK
<1>7. OutputInv'
  BY <1>1 DEF OutputInv, StreamInOrder, OutputDrains, WriteInterest, FinAfterData, GivenUpOnlyWhenClosed, Broken
<1> QED
  BY <1>1, <1>5, <1>6, <1>7, Zenon

LEMMA SendKeeps ==
  ASSUME TCTypeOK, OutputInv, state_ # kConnecting, NEW data \in Seq(Bytes), data # <<>>,
         SendInLoop(data), UNCHANGED <<state_, wrClosed, peer>>
  PROVE  /\ wire' \in Seq(Bytes) /\ outputBuffer_' \in Seq(Bytes) /\ stream' \in Seq(Bytes)
         /\ writing' \in BOOLEAN /\ dropped' \subseteq 1 .. MaxMessages
         /\ state_ = kDisconnected => UNCHANGED writing
         /\ OutputInv'
         /\ \E x \in Seq(FunctorSet) : pendingFunctors_' = pendingFunctors_ \o x /\ Quiet(x)
<1>1. writing \in BOOLEAN /\ dropped \subseteq 1 .. MaxMessages /\ state_ \in States
  BY DEF TCTypeOK
<1>2. CASE state_ = kDisconnected
  <2>1. GiveUp(data)
    BY <1>2 DEF SendInLoop
  <2> QED
    BY <1>1, <1>2, <2>1, GiveUpKeeps, Zenon
<1>3. CASE state_ # kDisconnected
  <2>1. state_ \in Live
    BY <1>1, <1>3 DEF Live, States
  <2>2. /\ writing <=> outputBuffer_ # <<>>
        /\ wrClosed => outputBuffer_ = <<>>
    BY <2>1 DEF OutputInv, OutputDrains, WriteInterest, FinAfterData, Live
  <2>3. CASE writing \/ outputBuffer_ # <<>>
    <3>1. Took(data, 0) /\ 0 \in 0 .. Len(data)
      BY <1>3, <2>3 DEF SendInLoop
    <3> QED
      BY <1>1, <1>3, <2>1, <2>2, <2>3, <3>1, TookKeeps, Zenon
  <2>4. CASE ~(writing \/ outputBuffer_ # <<>>)
    <3>1. PICK n \in WriteResults(Len(data)) : IF n = EPIPE THEN GiveUp(data) ELSE Took(data, n)
      BY <1>3, <2>4 DEF SendInLoop
    <3>2. CASE n = EPIPE
      <4>1. wrClosed \/ Broken
        BY <3>2 DEF WriteResults, EPIPE
      <4>2. GiveUp(data)
        BY <3>1, <3>2
      <4> QED
        BY <1>1, <1>3, <4>1, <4>2, GiveUpKeeps, Zenon
    <3>3. CASE n # EPIPE
      <4>1. Took(data, n)
        BY <3>1, <3>3
      <4>2. ~wrClosed /\ n \in 0 .. Len(data)
        BY <3>3 DEF WriteResults
      <4> QED
        BY <1>1, <1>3, <2>1, <2>4, <4>1, <4>2, TookKeeps, Zenon
    <3> QED
      BY <3>2, <3>3, Zenon
  <2> QED
    BY <2>3, <2>4, Zenon
<1> QED
  BY <1>2, <1>3, Zenon

-----------------------------------------------------------------------------
(* The queue of functors. *)
LEMMA FunctorsKeep ==
  ASSUME TCTypeOK, FunctorInv, NEW x \in Seq(FunctorSet), WellFormed(x),
         \A i \in DOMAIN x : ~IsDestroy(x[i]), pendingFunctors_' = pendingFunctors_ \o x,
         UNCHANGED <<functors, state_, destroyed>>, loopPc' = "functors" <=> loopPc = "functors",
         \/ called' = called
         \/ called < Len(functors) /\ called' = called + 1 /\ ~IsDestroy(functors[called + 1])
  PROVE  FunctorInv' /\ (DestroyWaits' <=> DestroyWaits) /\ pendingFunctors_' \in Seq(FunctorSet)
<1>1. /\ pendingFunctors_ \in Seq(FunctorSet) /\ functors \in Seq(FunctorSet)
      /\ called \in Nat /\ Len(functors) \in Nat
  BY DEF TCTypeOK
<1>2. InQueue' = InQueue
  BY <1>1 DEF InQueue
<1>3. InBatch' = InBatch
  BY <1>1 DEF InBatch
<1>4. WellFormed(pendingFunctors_')
  BY <1>1 DEF FunctorInv, WellFormed
<1>5. loopPc' # "functors" => functors' = <<>> /\ called' = 0
  BY <1>1 DEF FunctorInv
<1>6. pendingFunctors_' \in Seq(FunctorSet)
  BY <1>1
<1> QED
  BY <1>2, <1>3, <1>4, <1>5, <1>6 DEF FunctorInv, DestroyWaits, WellFormed

-----------------------------------------------------------------------------
(* The steps. *)
LEMMA InitHolds == TCInit => TCInv
<1> SUFFICES ASSUME TCInit PROVE TCInv
  OBVIOUS
<1>1. TCTypeOK
  <2>1. /\ <<>> \in Seq(Bytes) /\ <<>> \in Seq(FunctorSet) /\ 0 \in 0 .. Len(<<>>)
        /\ 0 \in 0 .. MaxUnread /\ 0 \in 0 .. MaxMessages /\ kConnecting \in States
    BY ConnectionAssumption DEF States
  <2> QED
    BY <2>1, Zenon DEF TCInit, TCTypeOK
<1>2. FunctorInv
  BY DEF TCInit, FunctorInv, WellFormed, DestroyWaits, InQueue, InBatch
<1>3. LifeInv
  BY DEF TCInit, LifeInv, Unborn, Live, kConnecting, kConnected, kDisconnecting, kDisconnected
<1>4. OutputInv
  BY DEF TCInit, OutputInv, StreamInOrder, OutputDrains, WriteInterest, FinAfterData,
         GivenUpOnlyWhenClosed, Broken, kConnecting, kConnected, kDisconnecting, kDisconnected
<1> QED
  BY <1>1, <1>2, <1>3, <1>4 DEF TCInv

LEMMA EstablishedKeeps ==
  ASSUME TCInv, ConnectEstablished
  PROVE  TCInv'
<1>0. TCTypeOK /\ FunctorInv /\ LifeInv /\ OutputInv
  BY DEF TCInv
<1>1. Unborn
  BY <1>0 DEF LifeInv, ConnectEstablished
<1>2. TCTypeOK'
  <2>1. BytesOK'
    BY <1>0, Types DEF BytesOK, ConnectEstablished, kernel, loopVars, flags, sending, States, kConnected
  <2>2. QueueOK'
    BY <1>0, Types DEF QueueOK, ConnectEstablished, kernel, loopVars, flags, sending, States, kConnected
  <2>3. FlagsOK'
    BY <1>0, Types, Zenon DEF FlagsOK, ConnectEstablished, kernel, loopVars, flags, sending, States, kConnected
  <2>4. OtherOK'
    BY <1>0, Types DEF OtherOK, ConnectEstablished, kernel, loopVars, flags, sending, States, kConnected
  <2> QED
    BY <2>1, <2>2, <2>3, <2>4, Types, Zenon
<1>3. FunctorInv' /\ (DestroyWaits' <=> DestroyWaits) /\ ~DestroyWaits
  BY <1>0, <1>1 DEF FunctorInv, WellFormed, DestroyWaits, InQueue, InBatch, ConnectEstablished, loopVars, Unborn
<1>4. LifeInv'
  BY <1>1, <1>3 DEF LifeInv, Unborn, Live, ConnectEstablished, kernel, loopVars, flags, sending,
                    kConnecting, kConnected, kDisconnecting, kDisconnected
<1>5. OutputInv'
  BY <1>0, <1>1 DEF OutputInv, StreamInOrder, OutputDrains, WriteInterest, FinAfterData,
         GivenUpOnlyWhenClosed, Broken, Unborn, ConnectEstablished, kernel, sending
<1> QED
  BY <1>2, <1>3, <1>4, <1>5 DEF TCInv

(* Steps that leave the connection alone. *)
LEMMA AloneKeeps ==
  ASSUME TCInv, TCTypeOK', UNCHANGED <<state_, channel, outputBuffer_, wire, wrClosed, pendingFunctors_, functors,
         called, owner, flags, sending, life>>,
         Broken => Broken',
         loopPc' = "functors" <=> loopPc = "functors",
         state_ = kConnecting => UNCHANGED <<holder, otherPc, loopPc>>
  PROVE  TCInv'
<1>0. TCTypeOK /\ FunctorInv /\ LifeInv /\ OutputInv
  BY DEF TCInv
<1>1. FunctorInv' /\ (DestroyWaits' <=> DestroyWaits)
  BY <1>0 DEF FunctorInv, WellFormed, DestroyWaits, InQueue, InBatch, life
<1>2. LifeInv'
  BY <1>0, <1>1 DEF LifeInv, Unborn, channel, flags, sending, life
<1>3. OutputInv'
  BY <1>0 DEF OutputInv, StreamInOrder, OutputDrains, WriteInterest, FinAfterData,
         GivenUpOnlyWhenClosed, Broken, channel, sending
<1> QED
  BY <1>1, <1>2, <1>3 DEF TCInv

LEMMA OthersKeep ==
  ASSUME TCInv, PeerSends \/ PeerCloses \/ OtherSendTest \/ OtherRelease
                \/ HandleWriteNothing
  PROVE  TCInv'
<1>0. TCTypeOK /\ LifeInv
  BY DEF TCInv
<1>1. CASE PeerSends
  <2>1. unread' \in 0 .. MaxUnread
    BY <1>0, <1>1, ConnectionAssumption DEF TCTypeOK, PeerSends
  <2>2. TCTypeOK'
    <3>1. BytesOK'
      BY <1>0, <1>1, <2>1, Types DEF BytesOK, PeerSends, channel, loopVars, threads, flags, sending, life
    <3>2. QueueOK'
      BY <1>0, <1>1, <2>1, Types DEF QueueOK, PeerSends, channel, loopVars, threads, flags, sending, life
    <3>3. FlagsOK'
      BY <1>0, <1>1, <2>1, Types, Zenon DEF FlagsOK, PeerSends, channel, loopVars, threads, flags, sending, life
    <3>4. OtherOK'
      BY <1>0, <1>1, <2>1, Types DEF OtherOK, PeerSends, channel, loopVars, threads, flags, sending, life
    <3> QED
      BY <3>1, <3>2, <3>3, <3>4, Types, Zenon
  <2> QED
    BY <1>1, <2>2, AloneKeeps DEF PeerSends, loopVars, threads, Broken
<1>2. CASE PeerCloses
  <2>1. TCTypeOK'
    <3>1. BytesOK'
      BY <1>0, <1>2, Types DEF BytesOK, PeerCloses, channel, loopVars, threads, flags, sending, life
    <3>2. QueueOK'
      BY <1>0, <1>2, Types DEF QueueOK, PeerCloses, channel, loopVars, threads, flags, sending, life
    <3>3. FlagsOK'
      BY <1>0, <1>2, Types, Zenon DEF FlagsOK, PeerCloses, channel, loopVars, threads, flags, sending, life
    <3>4. OtherOK'
      BY <1>0, <1>2, Types DEF OtherOK, PeerCloses, channel, loopVars, threads, flags, sending, life
    <3> QED
      BY <3>1, <3>2, <3>3, <3>4, Types, Zenon
  <2> QED
    BY <1>2, <2>1, AloneKeeps DEF PeerCloses, loopVars, threads, Broken
<1>3. CASE OtherSendTest
  <2>1. TCTypeOK'
    <3>1. BytesOK'
      BY <1>0, <1>3, Types DEF BytesOK, OtherSendTest, channel, kernel, loopVars, flags, sending, life
    <3>2. QueueOK'
      BY <1>0, <1>3, Types DEF QueueOK, OtherSendTest, channel, kernel, loopVars, flags, sending, life
    <3>3. FlagsOK'
      BY <1>0, <1>3, Types, Zenon DEF FlagsOK, OtherSendTest, channel, kernel, loopVars, flags, sending, life
    <3>4. OtherOK'
      BY <1>0, <1>3, Types DEF OtherOK, OtherSendTest, channel, kernel, loopVars, flags, sending, life
    <3> QED
      BY <3>1, <3>2, <3>3, <3>4, Types, Zenon
  <2>2. state_ # kConnecting
    BY <1>0, <1>3 DEF LifeInv, Unborn, OtherSendTest
  <2> QED
    BY <1>3, <2>1, <2>2, AloneKeeps DEF OtherSendTest, kernel, loopVars, Broken
<1>4. CASE OtherRelease
  <2>1. TCTypeOK'
    <3>1. /\ holder' \in BOOLEAN
          /\ UNCHANGED <<state_, channel, outputBuffer_, kernel, pendingFunctors_, loopVars, owner,
                         otherPc, flags, sending, life>>
      BY <1>4, Zenon DEF OtherRelease
    <3> QED
      <4>1. BytesOK'
        BY <1>0, <3>1, Types DEF BytesOK, channel, kernel, loopVars, flags, sending, life
      <4>2. QueueOK'
        BY <1>0, <3>1, Types DEF QueueOK, channel, kernel, loopVars, flags, sending, life
      <4>3. FlagsOK'
        BY <1>0, <3>1, Types, Zenon DEF FlagsOK, channel, kernel, loopVars, flags, sending, life
      <4>4. OtherOK'
        BY <1>0, <3>1, Types DEF OtherOK, channel, kernel, loopVars, flags, sending, life
      <4> QED
        BY <4>1, <4>2, <4>3, <4>4, Types, Zenon
  <2>2. state_ # kConnecting
    BY <1>0, <1>4 DEF LifeInv, Unborn, OtherRelease
  <2> QED
    BY <1>4, <2>1, <2>2, AloneKeeps, Zenon DEF OtherRelease, kernel, loopVars, Broken
<1>6. CASE HandleWriteNothing
  <2>1. TCTypeOK'
    <3>1. BytesOK'
      BY <1>0, <1>6, Types DEF BytesOK, HandleWriteNothing, channel, kernel, threads, flags, sending, life
    <3>2. QueueOK'
      BY <1>0, <1>6, Types DEF QueueOK, HandleWriteNothing, channel, kernel, threads, flags, sending, life
    <3>3. FlagsOK'
      BY <1>0, <1>6, Types, Zenon DEF FlagsOK, HandleWriteNothing, channel, kernel, threads, flags, sending, life
    <3>4. OtherOK'
      BY <1>0, <1>6, Types DEF OtherOK, HandleWriteNothing, channel, kernel, threads, flags, sending, life
    <3> QED
      BY <3>1, <3>2, <3>3, <3>4, Types, Zenon
  <2>2. state_ # kConnecting
    BY <1>0, <1>6 DEF LifeInv, Unborn, HandleWriteNothing
  <2> QED
    BY <1>6, <2>1, <2>2, AloneKeeps DEF HandleWriteNothing, kernel, threads, Broken
<1> QED
  BY <1>1, <1>2, <1>3, <1>4, <1>6

(* A message that is put together. *)
LEMMA MessageType ==
  ASSUME messages \in 0 .. MaxMessages, messages < MaxMessages, NEW len \in 1 .. MaxLen,
         NEW who \in Senders
  PROVE  /\ messages + 1 \in 0 .. MaxMessages
         /\ Message(who, messages + 1, len) \in Seq(Bytes) /\ Message(who, messages + 1, len) # <<>>
<1> DEFINE m == messages + 1
           d == Message(who, m, len)
<1>1. m \in 1 .. MaxMessages /\ len \in Nat /\ len >= 1
  BY ConnectionAssumption
<1> HIDE DEF m
<1>2. \A k \in 1 .. len : <<who, m, k>> \in Bytes
  BY <1>1, ConnectionAssumption DEF Bytes
<1>3. d \in [1 .. len -> Bytes]
  BY <1>2 DEF Message
<1>4. d \in Seq(Bytes) /\ Len(d) = len
  BY <1>1, <1>3, LenProperties, SeqDef
<1> QED
  BY <1>1, <1>4, ConnectionAssumption DEF m

LEMMA SentMore ==
  ASSUME NEW f \in [Senders -> Seq(Bytes)], NEW who \in Senders, NEW d \in Seq(Bytes)
  PROVE  [f EXCEPT ![who] = @ \o d] \in [Senders -> Seq(Bytes)]
OBVIOUS

LEMMA PushKeeps ==
  ASSUME TCInv, OtherSendPush
  PROVE  TCInv'
<1>0. TCTypeOK /\ FunctorInv /\ LifeInv /\ OutputInv
  BY DEF TCInv
<1>1. PICK len \in 1 .. MaxLen :
        /\ pendingFunctors_' = Append(pendingFunctors_, SendInLoopOf(Message("other", messages + 1, len)))
        /\ sent' = [sent EXCEPT !["other"] = @ \o Message("other", messages + 1, len)]
  BY DEF OtherSendPush
<1> DEFINE d == Message("other", messages + 1, len)
           f == SendInLoopOf(d)
<1>2. messages + 1 \in 0 .. MaxMessages /\ d \in Seq(Bytes) /\ d # <<>>
  BY <1>0, MessageType DEF OtherSendPush, TCTypeOK, Senders
<1>s. sent' \in [Senders -> Seq(Bytes)]
  BY <1>0, <1>1, <1>2, SentMore DEF TCTypeOK, Senders
<1> HIDE DEF d
<1>3. f \in FunctorSet /\ f.op = "sendInLoop" /\ f.data # <<>>
  BY <1>2 DEF SendInLoopOf, FunctorSet
<1> HIDE DEF f
<1>4. /\ <<f>> \in Seq(FunctorSet) /\ WellFormed(<<f>>) /\ \A i \in DOMAIN <<f>> : ~IsDestroy(<<f>>[i])
  BY <1>3 DEF WellFormed, IsDestroy
<1>5. pendingFunctors_' = pendingFunctors_ \o <<f>>
  BY <1>0, <1>1, <1>3 DEF d, f, TCTypeOK
<1>6. FunctorInv' /\ (DestroyWaits' <=> DestroyWaits) /\ pendingFunctors_' \in Seq(FunctorSet)
  BY <1>0, <1>4, <1>5, FunctorsKeep, Zenon DEF OtherSendPush, loopVars, life
<1>7. TCTypeOK'
  <2>1. BytesOK'
    BY <1>0, <1>2, <1>6, <1>s, Types DEF BytesOK, OtherSendPush, channel, kernel, loopVars, flags, life
  <2>2. QueueOK'
    BY <1>0, <1>2, <1>6, Types DEF QueueOK, OtherSendPush, channel, kernel, loopVars, flags, life
  <2>3. FlagsOK'
    BY <1>0, <1>2, <1>6, Types, Zenon DEF FlagsOK, OtherSendPush, channel, kernel, loopVars, flags, life
  <2>4. OtherOK'
    BY <1>0, <1>2, <1>6, Types DEF OtherOK, OtherSendPush, channel, kernel, loopVars, flags, life
  <2> QED
    BY <2>1, <2>2, <2>3, <2>4, Types, Zenon
<1>8. state_ # kConnecting
  BY <1>0 DEF LifeInv, Unborn, OtherSendPush
<1>9. LifeInv'
  BY <1>0, <1>6, <1>8 DEF LifeInv, OtherSendPush, channel, flags, life
<1>10. OutputInv'
  BY <1>0 DEF OutputInv, StreamInOrder, OutputDrains, WriteInterest, FinAfterData,
         GivenUpOnlyWhenClosed, Broken, OtherSendPush, channel, kernel
<1> QED
  BY <1>6, <1>7, <1>9, <1>10 DEF TCInv

LEMMA LoopSendKeeps ==
  ASSUME TCInv, LoopSend
  PROVE  TCInv'
<1>0. TCTypeOK /\ FunctorInv /\ LifeInv /\ OutputInv
  BY DEF TCInv
<1>1. PICK len \in 1 .. MaxLen :
        /\ SendInLoop(Message("loop", messages + 1, len))
        /\ sent' = [sent EXCEPT !["loop"] = @ \o Message("loop", messages + 1, len)]
  BY DEF LoopSend
<1> DEFINE d == Message("loop", messages + 1, len)
<1>2. messages + 1 \in 0 .. MaxMessages /\ d \in Seq(Bytes) /\ d # <<>> /\ SendInLoop(d)
  BY <1>0, <1>1, MessageType DEF LoopSend, TCTypeOK, Senders
<1>s. sent' \in [Senders -> Seq(Bytes)]
  BY <1>0, <1>1, <1>2, SentMore DEF TCTypeOK, Senders
<1> HIDE DEF d
<1>3. state_ = kConnected /\ state_ # kConnecting /\ UNCHANGED <<state_, wrClosed, peer>>
  BY DEF LoopSend, kConnected, kConnecting
<1>4. /\ wire' \in Seq(Bytes) /\ outputBuffer_' \in Seq(Bytes) /\ stream' \in Seq(Bytes)
      /\ writing' \in BOOLEAN /\ dropped' \subseteq 1 .. MaxMessages
      /\ OutputInv'
      /\ \E x \in Seq(FunctorSet) : pendingFunctors_' = pendingFunctors_ \o x /\ Quiet(x)
  BY <1>0, <1>2, <1>3, SendKeeps
<1>5. PICK x \in Seq(FunctorSet) : pendingFunctors_' = pendingFunctors_ \o x /\ Quiet(x)
  BY <1>4, Zenon
<1>6. WellFormed(x) /\ \A i \in DOMAIN x : ~IsDestroy(x[i])
  BY <1>5, Zenon DEF Quiet, WellFormed, IsDestroy
<1>7. FunctorInv' /\ (DestroyWaits' <=> DestroyWaits) /\ pendingFunctors_' \in Seq(FunctorSet)
  BY <1>0, <1>5, <1>6, FunctorsKeep, Zenon DEF LoopSend, loopVars, life
<1>8. TCTypeOK'
  <2>1. BytesOK'
    BY <1>0, <1>2, <1>4, <1>7, <1>s, Types DEF BytesOK, LoopSend, loopVars, threads, flags, life
  <2>2. QueueOK'
    BY <1>0, <1>2, <1>4, <1>7, Types DEF QueueOK, LoopSend, loopVars, threads, flags, life
  <2>3. FlagsOK'
    BY <1>0, <1>2, <1>4, <1>7, Types, Zenon DEF FlagsOK, LoopSend, loopVars, threads, flags, life
  <2>4. OtherOK'
    BY <1>0, <1>2, <1>4, <1>7, Types, Zenon DEF OtherOK, LoopSend, loopVars, threads, flags, life
  <2> QED
    BY <2>1, <2>2, <2>3, <2>4, Types, Zenon
<1>9. LifeInv'
  BY <1>0, <1>3, <1>7 DEF LifeInv, Live, LoopSend, threads, flags, life, kConnected, kDisconnected
<1> QED
  BY <1>4, <1>7, <1>8, <1>9 DEF TCInv

LEMMA ShutdownKeeps ==
  ASSUME TCInv, Shutdown
  PROVE  TCInv'
<1>0. TCTypeOK /\ FunctorInv /\ LifeInv /\ OutputInv
  BY DEF TCInv
<1>1. /\ state_ = kConnected /\ state_' = kDisconnecting /\ wrClosed' = (wrClosed \/ ~writing)
      /\ UNCHANGED <<channel, outputBuffer_, wire, peer, unread, pendingFunctors_, loopVars, threads,
                     flags, sending, life>>
  BY DEF Shutdown, ShutdownInLoop
<1>2. TCTypeOK'
  <2>1. state_' \in States /\ wrClosed' \in BOOLEAN
    BY <1>0, <1>1 DEF TCTypeOK, States
  <2> QED
    <3>1. BytesOK'
      BY <1>0, <1>1, <2>1, Types DEF BytesOK, channel, loopVars, threads, flags, sending, life
    <3>2. QueueOK'
      BY <1>0, <1>1, <2>1, Types DEF QueueOK, channel, loopVars, threads, flags, sending, life
    <3>3. FlagsOK'
      BY <1>0, <1>1, <2>1, Types, Zenon DEF FlagsOK, channel, loopVars, threads, flags, sending, life
    <3>4. OtherOK'
      BY <1>0, <1>1, <2>1, Types DEF OtherOK, channel, loopVars, threads, flags, sending, life
    <3> QED
      BY <3>1, <3>2, <3>3, <3>4, Types, Zenon
<1>3. ~DestroyWaits
  BY <1>0, <1>1 DEF FunctorInv, kConnected, kDisconnected
<1>4. FunctorInv' /\ ~DestroyWaits'
  BY <1>0, <1>1, <1>3, Zenon DEF FunctorInv, WellFormed, DestroyWaits, InQueue, InBatch, loopVars, life
<1>5. LifeInv'
  BY <1>0, <1>1 DEF LifeInv, Live, channel, threads, flags, life,
         kConnecting, kConnected, kDisconnecting, kDisconnected
<1>6. OutputInv'
  BY <1>0, <1>1, Zenon DEF OutputInv, StreamInOrder, OutputDrains, WriteInterest, FinAfterData,
         GivenUpOnlyWhenClosed, Broken, channel, sending,
         kConnecting, kConnected, kDisconnecting, kDisconnected
<1> QED
  BY <1>2, <1>4, <1>5, <1>6 DEF TCInv

LEMMA WriteKeeps ==
  ASSUME TCInv, HandleWriteSome
  PROVE  TCInv'
<1>0. TCTypeOK /\ FunctorInv /\ LifeInv /\ OutputInv
  BY DEF TCInv
<1>1. PICK n \in WriteResults(Len(outputBuffer_)) \ {EPIPE, 0} :
        wire' = wire \o SubSeq(outputBuffer_, 1, n) /\ outputBuffer_' = From(outputBuffer_, n)
  BY Zenon DEF HandleWriteSome
<1>2. writing /\ state_ \in Live /\ loopPc # "functors" /\ loopPc' = "idle"
  BY <1>0 DEF HandleWriteSome, LifeInv, Unborn, TCTypeOK, States, Live
<1>3. n \in 0 .. Len(outputBuffer_)
  BY <1>1 DEF WriteResults
<1>4. /\ wire \in Seq(Bytes) /\ outputBuffer_ \in Seq(Bytes) /\ wire \o outputBuffer_ = stream
  BY <1>0 DEF TCTypeOK, OutputInv, StreamInOrder
<1>5. /\ wire' \in Seq(Bytes) /\ outputBuffer_' \in Seq(Bytes) /\ wire' \o outputBuffer_' = stream
  <2>1. /\ SubSeq(outputBuffer_, 1, n) \in Seq(Bytes) /\ From(outputBuffer_, n) \in Seq(Bytes)
        /\ (wire \o SubSeq(outputBuffer_, 1, n)) \o From(outputBuffer_, n) = wire \o outputBuffer_
    BY <1>3, <1>4, MovePrefix, Zenon
  <2>2. wire \o SubSeq(outputBuffer_, 1, n) \in Seq(Bytes)
    BY <1>4, <2>1
  <2> QED
    BY <1>1, <1>4, <2>1, <2>2, Zenon
<1>6. /\ IF outputBuffer_' = <<>>
         THEN /\ writing' = FALSE /\ pendingFunctors_' = Append(pendingFunctors_, WriteCompleteOf)
              /\ wrClosed' = (wrClosed \/ state_ = kDisconnecting)
         ELSE UNCHANGED <<writing, pendingFunctors_, wrClosed>>
      /\ UNCHANGED <<state_, reading, registered, peer, unread, functors, called, threads, flags,
                     sending, life>>
  BY <1>0, Zenon DEF HandleWriteSome, Drained, ShutdownInLoop, TCTypeOK
<1>7. PICK x \in Seq(FunctorSet) : pendingFunctors_' = pendingFunctors_ \o x /\ Quiet(x)
  <2>1. pendingFunctors_ \in Seq(FunctorSet)
    BY <1>0 DEF TCTypeOK
  <2>2. CASE outputBuffer_' = <<>>
    <3>1. WriteCompleteOf \in FunctorSet /\ WriteCompleteOf.op = "writeComplete"
      BY DEF WriteCompleteOf, FunctorSet
    <3>2. <<WriteCompleteOf>> \in Seq(FunctorSet) /\ Quiet(<<WriteCompleteOf>>)
      BY <3>1 DEF Quiet
    <3>3. pendingFunctors_' = Append(pendingFunctors_, WriteCompleteOf)
      BY <1>6, <2>2
    <3>4. pendingFunctors_' = pendingFunctors_ \o <<WriteCompleteOf>>
      BY <2>1, <3>1, <3>3, AppendIsConcat
    <3> QED
      BY <3>2, <3>4, Zenon
  <2>3. CASE outputBuffer_' # <<>>
    <3>1. <<>> \in Seq(FunctorSet) /\ Quiet(<<>>)
      BY DEF Quiet
    <3>2. pendingFunctors_' = pendingFunctors_ \o <<>>
      BY <1>6, <2>1, <2>3
    <3> QED
      BY <3>1, <3>2, Zenon
  <2> QED
    BY <2>2, <2>3, Zenon
<1>8. WellFormed(x) /\ \A i \in DOMAIN x : ~IsDestroy(x[i])
  BY <1>7, Zenon DEF Quiet, WellFormed, IsDestroy
<1>9. FunctorInv' /\ (DestroyWaits' <=> DestroyWaits) /\ pendingFunctors_' \in Seq(FunctorSet)
  BY <1>0, <1>2, <1>6, <1>7, <1>8, FunctorsKeep, Zenon DEF life
<1>10. TCTypeOK'
  <2>1. writing' \in BOOLEAN /\ wrClosed' \in BOOLEAN /\ loopPc' \in {"idle", "write", "functors"}
    BY <1>0, <1>2, <1>6, Zenon DEF TCTypeOK
  <2> QED
    <3>1. BytesOK'
      BY <1>0, <1>5, <1>6, <1>9, <2>1, Types DEF BytesOK, threads, flags, sending, life
    <3>2. QueueOK'
      BY <1>0, <1>5, <1>6, <1>9, <2>1, Types DEF QueueOK, threads, flags, sending, life
    <3>3. FlagsOK'
      BY <1>0, <1>5, <1>6, <1>9, <2>1, Types, Zenon DEF FlagsOK, threads, flags, sending, life
    <3>4. OtherOK'
      BY <1>0, <1>5, <1>6, <1>9, <2>1, Types DEF OtherOK, threads, flags, sending, life
    <3> QED
      BY <3>1, <3>2, <3>3, <3>4, Types, Zenon
<1>11. LifeInv'
  BY <1>0, <1>2, <1>6, <1>9 DEF LifeInv, Live, threads, flags, life,
         kConnecting, kConnected, kDisconnecting, kDisconnected
<1>12. OutputInv'
  <2>1. StreamInOrder'
    BY <1>5, <1>6 DEF StreamInOrder, sending
  <2>2. WriteInterest' /\ FinAfterData'
    BY <1>0, <1>2, <1>6, Zenon DEF WriteInterest, FinAfterData, OutputInv, OutputDrains, Live
  <2>3. GivenUpOnlyWhenClosed' /\ (wrClosed' => state_' \in {kDisconnecting, kDisconnected})
    BY <1>0, <1>6, Zenon DEF GivenUpOnlyWhenClosed, Broken, OutputInv, sending
  <2> QED
    BY <2>1, <2>2, <2>3 DEF OutputInv, OutputDrains
<1> QED
  BY <1>9, <1>10, <1>11, <1>12 DEF TCInv

(* handleClose(), whichever event led to it. *)
LEMMA CloseKeeps ==
  ASSUME TCInv, Running, reading \/ writing, loopPc = "idle", HandleClose, loopPc' \in {"idle", "write"},
         peer' \in {"open", "fin", "reset", "dead"}, Broken => Broken', UNCHANGED unread,
         UNCHANGED <<registered, outputBuffer_, wire, wrClosed, functors, called, holder, otherPc,
                     dangling, sending, ups, destroyed, destroyedWhile>>
  PROVE  TCInv'
<1>0. TCTypeOK /\ FunctorInv /\ LifeInv /\ OutputInv
  BY DEF TCInv
<1>1. state_ \in Live
  BY <1>0 DEF LifeInv, Unborn, TCTypeOK, States, Live
<1>2. /\ state_' = kDisconnected /\ reading' = FALSE /\ writing' = FALSE /\ downs' = downs + 1
      /\ owner' = FALSE /\ pendingFunctors_' = Append(pendingFunctors_, ConnectDestroyedOf)
      /\ UNCHANGED failed
  BY <1>1 DEF HandleClose, Live
<1>3. pendingFunctors_ \in Seq(FunctorSet) /\ functors = <<>> /\ called = 0 /\ ~DestroyWaits
  BY <1>0, <1>1 DEF TCTypeOK, FunctorInv, Live, kConnected, kDisconnecting, kDisconnected
<1>4. /\ ConnectDestroyedOf \in FunctorSet /\ IsDestroy(ConnectDestroyedOf)
      /\ ConnectDestroyedOf.op # "sendInLoop"
  BY DEF ConnectDestroyedOf, FunctorSet, IsDestroy
<1>5. pendingFunctors_' \in Seq(FunctorSet) /\ WellFormed(pendingFunctors_')
  <2>1. WellFormed(pendingFunctors_) /\ pendingFunctors_ \in Seq(FunctorSet)
    BY <1>0, <1>3, Zenon DEF FunctorInv
  <2>2. pendingFunctors_' = Append(pendingFunctors_, ConnectDestroyedOf)
    BY <1>2, Zenon
  <2> QED
    BY <1>4, <2>1, <2>2 DEF WellFormed
<1>6. InQueue' = {Len(pendingFunctors_) + 1} /\ InBatch' = {}
  <2>1. \A i \in DOMAIN pendingFunctors_ : ~IsDestroy(pendingFunctors_[i])
    BY <1>3 DEF DestroyWaits, InQueue
  <2>2. InQueue' = {Len(pendingFunctors_) + 1}
    <3> DEFINE n == Len(pendingFunctors_)
    <3>1. /\ DOMAIN pendingFunctors_ = 1 .. n /\ DOMAIN pendingFunctors_' = 1 .. n + 1 /\ n \in Nat
          /\ \A i \in 1 .. n : pendingFunctors_'[i] = pendingFunctors_[i]
          /\ pendingFunctors_'[n + 1] = ConnectDestroyedOf
      <4>1. pendingFunctors_' = Append(pendingFunctors_, ConnectDestroyedOf)
        BY <1>2, Zenon
      <4>2. pendingFunctors_ \in Seq(FunctorSet) /\ ConnectDestroyedOf \in FunctorSet
        BY <1>3, <1>4, Zenon
      <4> QED
        BY <4>1, <4>2
    <3> HIDE DEF n
    <3>2. InQueue' = {i \in 1 .. n + 1 : IsDestroy(pendingFunctors_'[i])}
      BY <3>1 DEF InQueue, IsDestroy
    <3>3. IsDestroy(pendingFunctors_'[n + 1]) /\ \A i \in 1 .. n : ~IsDestroy(pendingFunctors_'[i])
      BY <1>4, <2>1, <3>1
    <3>4. \A i \in 1 .. n + 1 : i \in 1 .. n \/ i = n + 1
      BY <3>1
    <3>5. n + 1 \in 1 .. n + 1
      BY <3>1
    <3>6. InQueue' = {n + 1}
      BY <3>2, <3>3, <3>4, <3>5
    <3> QED
      BY <3>6 DEF n
  <2>3. InBatch' = {}
    BY <1>2, <1>3 DEF InBatch
  <2> QED
    BY <2>2, <2>3
<1>7. ~destroyed /\ ~failed /\ downs = 0 /\ registered /\ ups = 1
  BY <1>0, <1>1 DEF LifeInv, Live, Running,
                    kConnecting, kConnected, kDisconnecting, kDisconnected
<1>8. FunctorInv' /\ DestroyWaits'
  BY <1>0, <1>2, <1>3, <1>5, <1>6, <1>7, Zenon DEF FunctorInv, DestroyWaits, WellFormed
<1>9. TCTypeOK'
  <2>1. state_' \in States /\ reading' \in BOOLEAN /\ writing' \in BOOLEAN /\ owner' \in BOOLEAN
    BY <1>2, Zenon DEF States
  <2>2. downs' \in Nat
    BY <1>2, <1>7
  <2> QED
    <3>1. BytesOK'
      BY <1>0, <1>2, <1>5, <2>1, <2>2, Types DEF BytesOK, sending
    <3>2. QueueOK'
      BY <1>0, <1>2, <1>5, <2>1, <2>2, Types DEF QueueOK, sending
    <3>3. FlagsOK'
      BY <1>0, <1>2, <1>5, <2>1, <2>2, Types, Zenon DEF FlagsOK, sending
    <3>4. OtherOK'
      BY <1>0, <1>2, <1>5, <2>1, <2>2, Types, Zenon DEF OtherOK, sending
    <3> QED
      BY <3>1, <3>2, <3>3, <3>4, Types, Zenon
<1>10. LifeInv'
  BY <1>2, <1>7, <1>8 DEF LifeInv, Live, kConnecting, kConnected, kDisconnecting, kDisconnected
<1>11. OutputInv'
  BY <1>0, <1>2 DEF OutputInv, StreamInOrder, OutputDrains, WriteInterest, FinAfterData,
         GivenUpOnlyWhenClosed, Broken, sending, kConnected, kDisconnecting, kDisconnected
<1> QED
  BY <1>8, <1>9, <1>10, <1>11 DEF TCInv

(* What the events of the channel come to: handleClose(), once all was     *)
(* read, or nothing but bytes or an error taken from the kernel.           *)
LEMMA EventCases ==
  ASSUME TCInv, NEW r, HandleEvent(r)
  PROVE  /\ loopPc' \in {"idle", "write"} /\ peer' \in {"open", "fin", "reset", "dead"}
         /\ (Broken => Broken') /\ unread' \in 0 .. MaxUnread /\ state_ # kConnecting
         /\ \/ UNCHANGED closing
            \/ HandleClose /\ UNCHANGED unread /\ unread = 0 /\ peer # "open" /\ (reading \/ writing)
<1> DEFINE end == IF "err" \in r THEN "dead" ELSE peer
<1>0. /\ peer \in {"open", "fin", "reset", "dead"} /\ unread \in 0 .. MaxUnread
      /\ MaxUnread \in Nat
  BY ConnectionAssumption DEF TCInv, TCTypeOK
<1>1. /\ Dispatch(r, end) /\ loopPc' \in {"idle", "write"} /\ registered
      /\ r \in Revents
  BY Zenon DEF HandleEvent
<1>2. /\ reading \/ writing
      /\ "err" \in r => peer = "reset"
      /\ "hup" \in r => Hangup /\ (reading /\ unread > 0 => "in" \in r)
      /\ "in" \in r => reading
  BY <1>1, Zenon DEF Revents
<1>3. /\ end \in {"open", "fin", "reset", "dead"} /\ (Broken => end \in {"reset", "dead"})
      /\ (peer = "open" <=> end = "open")
  BY <1>0, <1>2 DEF Broken
<1> HIDE DEF end
<1>4. state_ # kConnecting
  BY <1>1 DEF TCInv, LifeInv, Unborn
<1>5. reading
  BY <1>2, <1>4 DEF TCInv, LifeInv, Live, TCTypeOK, States
<1>6. CASE "hup" \in r /\ "in" \notin r
  <2>1. HandleClose /\ peer' = end /\ unread' = unread
    BY <1>1, <1>6, Zenon DEF Dispatch
  <2>2. ~(unread > 0) /\ peer # "open"
    BY <1>2, <1>5, <1>6 DEF Hangup, Broken
  <2>3. unread = 0
    BY <1>0, <2>2
  <2> QED
    BY <1>0, <1>1, <1>2, <1>3, <1>4, <2>1, <2>2, <2>3, Zenon DEF Broken
<1>7. CASE "in" \in r
  <2>1. HandleRead(end)
    BY <1>1, <1>7, Zenon DEF Dispatch
  <2>2. CASE unread > 0 /\ unread' \in 0 .. unread - 1 /\ peer' = end /\ UNCHANGED closing
    <3>1. unread' \in 0 .. MaxUnread
      BY <1>0, <2>2
    <3> QED
      BY <1>1, <1>3, <1>4, <2>2, <3>1, Zenon DEF Broken
  <2>3. CASE unread = 0 /\ end = "reset" /\ peer' = "dead" /\ UNCHANGED <<unread, closing>>
    <3>1. unread' = unread /\ UNCHANGED closing
      BY <2>3
    <3> QED
      BY <1>0, <1>1, <1>4, <2>3, <3>1, Zenon DEF Broken
  <2>4. CASE unread = 0 /\ end \in {"fin", "dead"} /\ HandleClose /\ peer' = end /\ UNCHANGED unread
    <3>1. peer # "open"
      BY <1>3, <2>4
    <3> QED
      BY <1>0, <1>1, <1>2, <1>3, <1>4, <2>4, <3>1, Zenon DEF Broken
  <2> QED
    BY <2>1, <2>2, <2>3, <2>4, Zenon DEF HandleRead
<1>8. CASE "hup" \notin r /\ "in" \notin r
  <2>1. peer' = end /\ UNCHANGED <<unread, closing>>
    BY <1>1, <1>8, Zenon DEF Dispatch
  <2>2. unread' = unread /\ UNCHANGED closing
    BY <2>1
  <2> QED
    BY <1>0, <1>1, <1>3, <1>4, <2>1, <2>2, Zenon DEF Broken
<1> QED
  BY <1>6, <1>7, <1>8, Zenon

LEMMA EventKeeps ==
  ASSUME TCInv, NEW r, HandleEvent(r)
  PROVE  TCInv'
<1>0. TCTypeOK
  BY DEF TCInv
<1>1. /\ loopPc' \in {"idle", "write"} /\ peer' \in {"open", "fin", "reset", "dead"}
      /\ (Broken => Broken') /\ unread' \in 0 .. MaxUnread /\ state_ # kConnecting
      /\ \/ UNCHANGED closing
         \/ HandleClose /\ UNCHANGED unread /\ unread = 0 /\ peer # "open" /\ (reading \/ writing)
  BY EventCases, Zenon
<1>2. /\ Running /\ loopPc = "idle"
      /\ UNCHANGED <<registered, outputBuffer_, wire, wrClosed, functors, called, holder, otherPc,
                     dangling, sending, ups, destroyed, destroyedWhile>>
  BY Zenon DEF HandleEvent
<1>3. CASE UNCHANGED closing
  <2>1. UNCHANGED <<state_, reading, writing, downs, owner, pendingFunctors_, failed>>
    BY <1>3 DEF closing
  <2>2. TCTypeOK'
    <3>1. BytesOK'
      BY <1>0, <1>2, Types DEF BytesOK, sending
    <3>2. QueueOK'
      BY <1>0, <1>2, <2>1, Types DEF QueueOK
    <3>3. FlagsOK'
      BY <1>0, <1>2, <2>1, Types, Zenon DEF FlagsOK
    <3>4. OtherOK'
      <4>1. OtherOK
        BY <1>0, Types
      <4>2. /\ loopPc' \in {"idle", "write", "functors"} /\ messages' = messages /\ otherPc' = otherPc
            /\ dropped' = dropped /\ state_' = state_ /\ ups' = ups /\ downs' = downs
            /\ destroyedWhile' = destroyedWhile
        BY <1>1, <1>2, <2>1 DEF sending
      <4>3. peer' \in {"open", "fin", "reset", "dead"} /\ unread' \in 0 .. MaxUnread
        BY <1>1, Zenon
      <4> QED
        BY <4>1, <4>2, <4>3 DEF OtherOK
    <3> QED
      BY <3>1, <3>2, <3>3, <3>4, Types, Zenon
  <2>3. UNCHANGED <<state_, channel, outputBuffer_, wire, wrClosed, pendingFunctors_, functors,
                    called, owner, flags, sending, life>>
    BY <1>2, <2>1 DEF channel, flags, life
  <2>4. loopPc' = "functors" <=> loopPc = "functors"
    BY <1>1, <1>2
  <2> QED
    <3>1. (Broken => Broken') /\ state_ # kConnecting
      BY <1>1, Zenon
    <3> QED
      BY <2>2, <2>3, <2>4, <3>1, AloneKeeps DEF Broken
<1>4. CASE HandleClose /\ UNCHANGED unread /\ (reading \/ writing)
  BY <1>1, <1>2, <1>4, CloseKeeps
<1> QED
  BY <1>1, <1>3, <1>4, Zenon

LEMMA DtorKeeps ==
  ASSUME TCInv, ServerDtor
  PROVE  TCInv'
<1>0. TCTypeOK /\ FunctorInv /\ LifeInv /\ OutputInv
  BY DEF TCInv
<1>1. /\ owner' = FALSE /\ ~failed /\ owner /\ state_ # kConnecting /\ ConnectDestroyed
      /\ UNCHANGED <<outputBuffer_, kernel, pendingFunctors_, loopVars, holder, otherPc, dangling,
                     sending, ups>>
  BY DEF ServerDtor, Running
<1>2. state_ \in Live /\ reading /\ registered /\ ~destroyed /\ downs = 0 /\ ups = 1
  BY <1>0, <1>1 DEF LifeInv, TCTypeOK, States, Live, kConnected, kDisconnecting, kDisconnected
<1>3. ~DestroyWaits
  BY <1>0, <1>2 DEF FunctorInv, Live, kConnected, kDisconnecting, kDisconnected
<1>4. InQueue' = InQueue /\ InBatch' = InBatch
  BY <1>1 DEF InQueue, InBatch, loopVars
<1>5. FunctorInv' /\ ~DestroyWaits'
  BY <1>0, <1>1, <1>3, <1>4, Zenon DEF FunctorInv, WellFormed, DestroyWaits, loopVars
<1>6. CASE state_ = kConnected
  <2>1. /\ destroyedWhile' = state_ /\ state_' = kDisconnected /\ reading' = FALSE /\ writing' = FALSE
        /\ downs' = 1 /\ registered' = FALSE /\ destroyed' = TRUE /\ UNCHANGED failed
    BY <1>1, <1>2, <1>6 DEF ConnectDestroyed
  <2>2. TCTypeOK'
    <3>1. /\ state_' \in States /\ reading' \in BOOLEAN /\ writing' \in BOOLEAN /\ registered' \in BOOLEAN
          /\ downs' \in Nat /\ destroyed' \in BOOLEAN /\ owner' \in BOOLEAN
          /\ destroyedWhile' \in States \cup {"none"}
      BY <1>0, <1>1, <2>1, Zenon DEF TCTypeOK, States
    <3> QED
      <4>1. BytesOK'
        BY <1>0, <1>1, <2>1, <3>1, Types DEF BytesOK, kernel, loopVars, sending
      <4>2. QueueOK'
        BY <1>0, <1>1, <2>1, <3>1, Types DEF QueueOK, kernel, loopVars, sending
      <4>3. FlagsOK'
        BY <1>0, <1>1, <2>1, <3>1, Types, Zenon DEF FlagsOK, kernel, loopVars, sending
      <4>4. OtherOK'
        BY <1>0, <1>1, <2>1, <3>1, Types, Zenon DEF OtherOK, kernel, loopVars, sending
      <4> QED
        BY <4>1, <4>2, <4>3, <4>4, Types, Zenon
  <2>3. LifeInv'
    BY <1>1, <1>2, <2>1 DEF LifeInv, Live, kConnecting, kConnected, kDisconnecting, kDisconnected
  <2>4. OutputInv'
    BY <1>0, <1>1, <2>1 DEF OutputInv, StreamInOrder, OutputDrains, WriteInterest, FinAfterData,
           GivenUpOnlyWhenClosed, Broken, kernel, sending, kConnected, kDisconnecting, kDisconnected
  <2> QED
    BY <1>5, <2>2, <2>3, <2>4 DEF TCInv
<1>7. CASE state_ = kDisconnecting
  <2>1. /\ destroyedWhile' = kDisconnecting /\ failed' = TRUE
        /\ UNCHANGED <<state_, reading, writing, downs, registered, destroyed>>
    BY <1>1, <1>2, <1>7 DEF ConnectDestroyed, kConnected, kDisconnecting
  <2>2. TCTypeOK'
    <3>1. failed' \in BOOLEAN /\ owner' \in BOOLEAN /\ destroyedWhile' \in States \cup {"none"}
      BY <1>1, <2>1, Zenon DEF States
    <3> QED
      <4>1. BytesOK'
        BY <1>0, <1>1, <2>1, <3>1, Types DEF BytesOK, kernel, loopVars, sending
      <4>2. QueueOK'
        BY <1>0, <1>1, <2>1, <3>1, Types DEF QueueOK, kernel, loopVars, sending
      <4>3. FlagsOK'
        BY <1>0, <1>1, <2>1, <3>1, Types, Zenon DEF FlagsOK, kernel, loopVars, sending
      <4>4. OtherOK'
        BY <1>0, <1>1, <2>1, <3>1, Types, Zenon DEF OtherOK, kernel, loopVars, sending
      <4> QED
        BY <4>1, <4>2, <4>3, <4>4, Types, Zenon
  <2>3. LifeInv'
    BY <1>1, <1>2, <1>7, <2>1 DEF LifeInv, Live, kConnecting, kConnected, kDisconnecting, kDisconnected
  <2>4. OutputInv'
    BY <1>0, <1>1, <2>1 DEF OutputInv, StreamInOrder, OutputDrains, WriteInterest, FinAfterData,
           GivenUpOnlyWhenClosed, Broken, kernel, sending
  <2> QED
    BY <1>5, <2>2, <2>3, <2>4 DEF TCInv
<1> QED
  BY <1>2, <1>6, <1>7 DEF Live

LEMMA BatchKeeps ==
  ASSUME TCInv, SwapFunctors \/ FunctorsDone
  PROVE  TCInv'
<1>0. TCTypeOK /\ FunctorInv /\ LifeInv /\ OutputInv
  BY DEF TCInv
<1>1. /\ UNCHANGED <<state_, channel, outputBuffer_, kernel, threads, flags, sending, life>>
      /\ called' = 0
  BY DEF SwapFunctors, FunctorsDone
<1>2. pendingFunctors_ \in Seq(FunctorSet) /\ functors \in Seq(FunctorSet) /\ called \in Nat
      /\ Len(functors) \in Nat
  BY <1>0 DEF TCTypeOK
<1>3. state_ # kConnecting
  BY <1>0 DEF LifeInv, Unborn, SwapFunctors, FunctorsDone
<1>4. /\ pendingFunctors_' \in Seq(FunctorSet) /\ functors' \in Seq(FunctorSet) /\ called' \in 0 .. Len(functors')
      /\ loopPc' \in {"idle", "functors"} /\ (loopPc' = "idle" => functors' = <<>>)
      /\ WellFormed(pendingFunctors_') /\ WellFormed(functors')
  <2>1. <<>> \in Seq(FunctorSet) /\ WellFormed(<<>>) /\ 0 \in 0 .. Len(<<>>)
    BY DEF WellFormed
  <2>2. CASE SwapFunctors
    <3>1. 0 \in 0 .. Len(pendingFunctors_)
      BY <1>2
    <3> QED
      BY <1>0, <1>2, <2>1, <2>2, <3>1 DEF SwapFunctors, FunctorInv
  <2>3. CASE FunctorsDone
    BY <1>0, <1>2, <2>1, <2>3 DEF FunctorsDone, FunctorInv
  <2> QED
    BY <2>2, <2>3
<1>5. /\ (InQueue' = {} /\ InBatch' = InQueue /\ InBatch = {}) \/ (InQueue' = InQueue /\ InBatch' = {} /\ InBatch = {})
  <2>1. CASE SwapFunctors
    <3>1. functors = <<>> /\ called = 0 /\ functors' = pendingFunctors_ /\ pendingFunctors_' = <<>>
      BY <1>0, <2>1 DEF FunctorInv, SwapFunctors
    <3>2. InBatch = {} /\ InQueue' = {}
      BY <3>1 DEF InBatch, InQueue
    <3>3. DOMAIN pendingFunctors_ = 0 + 1 .. Len(pendingFunctors_)
      BY <1>2
    <3>4. InBatch' = InQueue
      BY <1>1, <3>1, <3>3 DEF InBatch, InQueue, IsDestroy
    <3> QED
      BY <3>2, <3>4
  <2>2. CASE FunctorsDone
    <3>1. called = Len(functors) /\ functors' = <<>> /\ pendingFunctors_' = pendingFunctors_
      BY <2>2 DEF FunctorsDone
    <3>2. InBatch = {} /\ InBatch' = {} /\ InQueue' = InQueue
      BY <1>1, <1>2, <3>1 DEF InBatch, InQueue
    <3> QED
      BY <3>2
  <2> QED
    BY <2>1, <2>2
<1>6. FunctorInv' /\ (DestroyWaits' <=> DestroyWaits)
  BY <1>0, <1>1, <1>4, <1>5, Zenon DEF FunctorInv, DestroyWaits, WellFormed, life
<1>7. TCTypeOK'
  <2>1. BytesOK'
    BY <1>0, <1>1, <1>4, Types DEF BytesOK, channel, kernel, threads, flags, sending, life
  <2>2. QueueOK'
    BY <1>0, <1>1, <1>4, Types DEF QueueOK, channel, kernel, threads, flags, sending, life
  <2>3. FlagsOK'
    BY <1>0, <1>1, <1>4, Types, Zenon DEF FlagsOK, channel, kernel, threads, flags, sending, life
  <2>4. OtherOK'
    BY <1>0, <1>1, <1>4, Types, Zenon DEF OtherOK, channel, kernel, threads, flags, sending, life
  <2> QED
    BY <2>1, <2>2, <2>3, <2>4, Types, Zenon
<1>8. LifeInv'
  BY <1>0, <1>1, <1>3, <1>6, Zenon DEF LifeInv, channel, threads, flags, life
<1>9. OutputInv'
  BY <1>0, <1>1 DEF OutputInv, StreamInOrder, OutputDrains, WriteInterest, FinAfterData,
         GivenUpOnlyWhenClosed, Broken, channel, kernel, sending
<1> QED
  BY <1>6, <1>7, <1>8, <1>9 DEF TCInv

LEMMA RunKeeps ==
  ASSUME TCInv, RunFunctor
  PROVE  TCInv'
<1> DEFINE f == functors[called + 1]
<1>0. TCTypeOK /\ FunctorInv /\ LifeInv /\ OutputInv
  BY DEF TCInv
<1>1. /\ loopPc = "functors" /\ called < Len(functors) /\ called' = called + 1 /\ ~failed
      /\ UNCHANGED <<functors, loopPc, threads, messages, sent>>
  BY Zenon DEF RunFunctor, Running
<1>2. /\ pendingFunctors_ \in Seq(FunctorSet) /\ functors \in Seq(FunctorSet) /\ called \in Nat
      /\ Len(functors) \in Nat
  BY <1>0 DEF TCTypeOK
<1>3. called + 1 \in DOMAIN functors /\ f \in FunctorSet /\ called' \in 0 .. Len(functors')
  BY <1>1, <1>2
<1>4. state_ # kConnecting
  BY <1>0, <1>1 DEF LifeInv, Unborn
<1>5. CASE f.op = "sendInLoop" /\ Alive
  <2>1. /\ SendInLoop(f.data)
        /\ UNCHANGED <<state_, reading, registered, wrClosed, peer, unread, flags, life>>
    BY <1>5, Zenon DEF RunFunctor
  <2>2. f.data \in Seq(Bytes) /\ f.data # <<>> /\ ~IsDestroy(f)
    BY <1>0, <1>3, <1>5 DEF FunctorSet, FunctorInv, WellFormed, IsDestroy
  <2> HIDE DEF f
  <2>3. /\ wire' \in Seq(Bytes) /\ outputBuffer_' \in Seq(Bytes) /\ stream' \in Seq(Bytes)
        /\ writing' \in BOOLEAN /\ dropped' \subseteq 1 .. MaxMessages
        /\ state_ = kDisconnected => UNCHANGED writing
        /\ OutputInv'
        /\ \E x \in Seq(FunctorSet) : pendingFunctors_' = pendingFunctors_ \o x /\ Quiet(x)
    BY <1>0, <1>4, <2>1, <2>2, SendKeeps, Zenon
  <2>4. PICK x \in Seq(FunctorSet) : pendingFunctors_' = pendingFunctors_ \o x /\ Quiet(x)
    BY <2>3, Zenon
  <2>5. WellFormed(x) /\ \A i \in DOMAIN x : ~IsDestroy(x[i])
    BY <2>4, Zenon DEF Quiet, WellFormed, IsDestroy
  <2>6. FunctorInv' /\ (DestroyWaits' <=> DestroyWaits) /\ pendingFunctors_' \in Seq(FunctorSet)
    BY <1>0, <1>1, <2>1, <2>2, <2>4, <2>5, FunctorsKeep, Zenon DEF life, f
  <2>7. TCTypeOK'
    <3>1. BytesOK'
      BY <1>0, <1>1, <1>3, <2>1, <2>3, <2>6, Types, Zenon DEF BytesOK, threads, flags, life
    <3>2. QueueOK'
      BY <1>0, <1>1, <1>3, <2>1, <2>3, <2>6, Types, Zenon DEF QueueOK, threads, flags, life
    <3>3. FlagsOK'
      BY <1>0, <1>1, <1>3, <2>1, <2>3, <2>6, Types, Zenon DEF FlagsOK, threads, flags, life
    <3>4. OtherOK'
      BY <1>0, <1>1, <1>3, <2>1, <2>3, <2>6, Types, Zenon DEF OtherOK, threads, flags, life
    <3> QED
      BY <3>1, <3>2, <3>3, <3>4, Types, Zenon
  <2>8. LifeInv'
    BY <1>0, <1>1, <1>4, <2>1, <2>3, <2>6, Zenon DEF LifeInv, threads, flags, life
  <2> QED
    BY <2>3, <2>6, <2>7, <2>8 DEF TCInv
<1>6. CASE \/ f.op = "sendInLoop" /\ ~Alive
           \/ f.op \in {"writeComplete", "highWaterMark"}
  <2>1. /\ UNCHANGED <<state_, channel, outputBuffer_, kernel, pendingFunctors_, failed, stream,
                       dropped, life>>
        /\ dangling' \in BOOLEAN
    BY <1>0, <1>6, Zenon DEF RunFunctor, flags, TCTypeOK
  <2>2. ~IsDestroy(f)
    BY <1>6 DEF IsDestroy
  <2>3. FunctorInv' /\ (DestroyWaits' <=> DestroyWaits)
    <3> DEFINE x == <<>>
    <3>1. x \in Seq(FunctorSet) /\ WellFormed(x) /\ \A i \in DOMAIN x : ~IsDestroy(x[i])
      BY DEF WellFormed
    <3>2. pendingFunctors_' = pendingFunctors_ \o x
      BY <1>2, <2>1
    <3> HIDE DEF f, x
    <3> QED
      BY <1>0, <1>1, <2>1, <2>2, <3>1, <3>2, FunctorsKeep, Zenon DEF life, f
  <2> HIDE DEF f
  <2>4. TCTypeOK'
    <3>1. BytesOK'
      BY <1>0, <1>1, <1>3, <2>1, Types DEF BytesOK, channel, kernel, threads, life
    <3>2. QueueOK'
      BY <1>0, <1>1, <1>3, <2>1, Types DEF QueueOK, channel, kernel, threads, life
    <3>3. FlagsOK'
      BY <1>0, <1>1, <1>3, <2>1, Types, Zenon DEF FlagsOK, channel, kernel, threads, life
    <3>4. OtherOK'
      BY <1>0, <1>1, <1>3, <2>1, Types, Zenon DEF OtherOK, channel, kernel, threads, life
    <3> QED
      BY <3>1, <3>2, <3>3, <3>4, Types, Zenon
  <2>5. LifeInv'
    BY <1>0, <1>1, <1>4, <2>1, <2>3, Zenon DEF LifeInv, channel, threads, life
  <2>6. OutputInv'
    BY <1>0, <2>1 DEF OutputInv, StreamInOrder, OutputDrains, WriteInterest, FinAfterData,
           GivenUpOnlyWhenClosed, Broken, channel, kernel
  <2> QED
    BY <2>3, <2>4, <2>5, <2>6 DEF TCInv
<1>7. CASE f.op = "connectDestroyed"
  <2>1. /\ ConnectDestroyed
        /\ UNCHANGED <<outputBuffer_, kernel, pendingFunctors_, dangling, stream, dropped, ups>>
    BY <1>7, Zenon DEF RunFunctor
  <2>2. called + 1 \in InBatch
    BY <1>1, <1>2, <1>7 DEF InBatch, IsDestroy
  <2>3. InQueue = {} /\ InBatch = {called + 1} /\ state_ = kDisconnected /\ ~destroyed
    BY <1>0, <2>2 DEF FunctorInv, DestroyWaits
  <2>4. ~reading /\ ~writing /\ registered /\ downs = 1 /\ ups = 1 /\ ~owner
    BY <1>0, <1>4, <2>3 DEF LifeInv
  <2>5. /\ destroyedWhile' = state_ /\ registered' = FALSE /\ destroyed' = TRUE
        /\ UNCHANGED <<state_, reading, writing, downs, failed>>
    BY <2>1, <2>3, <2>4 DEF ConnectDestroyed, kConnected, kDisconnected
  <2>6. InQueue' = {} /\ InBatch' = {}
    <3>1. InQueue' = InQueue
      BY <2>1 DEF InQueue
    <3>2. InBatch' \subseteq InBatch /\ called + 1 \notin InBatch'
      BY <1>1, <1>2 DEF InBatch
    <3> QED
      BY <2>3, <3>1, <3>2
  <2>7. FunctorInv' /\ ~DestroyWaits'
    BY <1>0, <1>1, <2>1, <2>6, Zenon DEF FunctorInv, DestroyWaits, WellFormed
  <2>8. TCTypeOK'
    <3>1. /\ registered' \in BOOLEAN /\ destroyed' \in BOOLEAN /\ destroyedWhile' \in States \cup {"none"}
      BY <1>0, <2>5, Zenon DEF TCTypeOK
    <3> QED
      <4>1. BytesOK'
        BY <1>0, <1>1, <1>3, <2>1, <2>5, <3>1, Types, Zenon DEF BytesOK, kernel, threads
      <4>2. QueueOK'
        BY <1>0, <1>1, <1>3, <2>1, <2>5, <3>1, Types DEF QueueOK, kernel, threads
      <4>3. FlagsOK'
        BY <1>0, <1>1, <1>3, <2>1, <2>5, <3>1, Types, Zenon DEF FlagsOK, kernel, threads
      <4>4. OtherOK'
        BY <1>0, <1>1, <1>3, <2>1, <2>5, <3>1, Types, Zenon DEF OtherOK, kernel, threads
      <4> QED
        BY <4>1, <4>2, <4>3, <4>4, Types, Zenon
  <2>9. LifeInv'
    BY <1>1, <2>1, <2>3, <2>4, <2>5, Zenon DEF LifeInv, Live, threads,
           kConnecting, kConnected, kDisconnecting, kDisconnected
  <2>10. OutputInv'
    BY <1>0, <2>1, <2>5 DEF OutputInv, StreamInOrder, OutputDrains, WriteInterest, FinAfterData,
           GivenUpOnlyWhenClosed, Broken, kernel
  <2> QED
    BY <2>7, <2>8, <2>9, <2>10 DEF TCInv
<1> QED
  BY <1>3, <1>5, <1>6, <1>7 DEF FunctorSet

LEMMA NextKeeps == TCInv /\ [TCNext]_tcvars => TCInv'
<1> SUFFICES ASSUME TCInv, [TCNext]_tcvars PROVE TCInv'
  OBVIOUS
<1>1. CASE UNCHANGED tcvars
  <2>1. UNCHANGED <<state_, channel, outputBuffer_, kernel, pendingFunctors_, functors, called, loopPc,
                    threads, flags, sending, life>>
    BY <1>1 DEF tcvars, loopVars
  <2>2. TCTypeOK'
    <3>1. BytesOK'
      BY <2>1, Types DEF BytesOK, TCInv, channel, kernel, threads, flags, sending, life
    <3>2. QueueOK'
      BY <2>1, Types DEF QueueOK, TCInv, channel, kernel, threads, flags, sending, life
    <3>3. FlagsOK'
      BY <2>1, Types, Zenon DEF FlagsOK, TCInv, channel, kernel, threads, flags, sending, life
    <3>4. OtherOK'
      BY <2>1, Types, Zenon DEF OtherOK, TCInv, channel, kernel, threads, flags, sending, life
    <3> QED
      BY <3>1, <3>2, <3>3, <3>4, Types, Zenon
  <2> QED
    BY <2>1, <2>2, AloneKeeps DEF kernel, threads, Broken
<1>2. CASE LoopStep
  BY <1>2, EstablishedKeeps, OthersKeep, EventKeeps, WriteKeeps, BatchKeeps, RunKeeps
     DEF LoopStep, HandleInput, HandleOutput
<1>3. CASE LoopSend \/ Shutdown \/ ServerDtor
  BY <1>3, LoopSendKeeps, ShutdownKeeps, DtorKeeps
<1>4. CASE OtherSendTest \/ OtherSendPush \/ OtherRelease \/ PeerSends \/ PeerCloses
  BY <1>4, OthersKeep, PushKeeps
<1> QED
  BY <1>1, <1>2, <1>3, <1>4 DEF TCNext

LEMMA ConnectionInvariant == TCSpec => []TCInv
BY InitHolds, NextKeeps, PTL DEF TCSpec

(* The bytes the kernel took and the bytes that wait are always those that *)
(* sendInLoop() was given, in order: handleWrite() and sendInLoop() lose,  *)
(* repeat and overtake nothing, for messages of any number and length.     *)
THEOREM StreamIsKept == TCSpec => []StreamInOrder
<1>1. TCInv => StreamInOrder
  BY DEF TCInv, OutputInv
<1> QED
  BY <1>1, ConnectionInvariant, PTL

(* POLLOUT is watched for exactly while bytes wait, and shutdownInLoop()   *)
(* closes the write side only behind the last byte.                        *)
THEOREM OutputIsDrained == TCSpec => []OutputDrains
<1>1. TCInv => OutputDrains
  BY DEF TCInv, OutputInv
<1> QED
  BY <1>1, ConnectionInvariant, PTL

(* handleClose(), connectDestroyed() and the destructor of TcpServer end a *)
(* connection once: the callbacks are paired, the object is deleted only   *)
(* after its channel was removed, and an assertion fails only where        *)
(* connectDestroyed() meets a connection that is kDisconnecting.           *)
THEOREM ConnectionEndsOnce == TCSpec => []EndsOnce
<1>1. ASSUME TCInv PROVE EndsOnce
  <2>0. TCTypeOK /\ FunctorInv /\ LifeInv /\ OutputInv
    BY <1>1 DEF TCInv
  <2>1. UpDownPaired
    BY <2>0 DEF LifeInv, Unborn, UpDownPaired, Live, TCTypeOK, States,
                kConnecting, kConnected, kDisconnecting, kDisconnected
  <2>2. DeletedOnlyWhenRemoved
    <3> SUFFICES ASSUME ~Alive, ~failed
                 PROVE  destroyed /\ ~registered /\ ups = downs
      BY DEF DeletedOnlyWhenRemoved
    <3>1. ~owner /\ ~HoldsRef(pendingFunctors_) /\ ~HoldsRef(functors)
      BY DEF Alive
    <3>2. InQueue = {}
      BY <3>1 DEF HoldsRef, InQueue, IsDestroy
    <3>3. functors \in Seq(FunctorSet) /\ called \in Nat
      BY <2>0 DEF TCTypeOK
    <3>4. called + 1 .. Len(functors) \subseteq DOMAIN functors
      BY <3>3
    <3>5. InBatch = {}
      BY <3>1, <3>4 DEF HoldsRef, InBatch, IsDestroy
    <3>6. state_ = kDisconnected
      BY <2>0, <3>1 DEF LifeInv, Unborn, TCTypeOK, States
    <3> QED
      BY <2>0, <3>2, <3>5, <3>6 DEF LifeInv, DestroyWaits, kConnecting, kDisconnected
  <2>3. FailsOnlyWhenDisconnecting
    BY <2>0 DEF LifeInv, FailsOnlyWhenDisconnecting
  <2> QED
    BY <2>0, <2>1, <2>2, <2>3 DEF EndsOnce, OutputInv
<1> QED
  BY <1>1, ConnectionInvariant, PTL

-----------------------------------------------------------------------------
(* handleEventWithGuard() closes on POLLHUP only without POLLIN, and       *)
(* handleRead() only when read() returns 0: the connection goes down after *)
(* the peer closed or reset it and after all it sent was read, or because  *)
(* the TcpServer is destroyed.                                             *)
THEOREM ReadsBeforeClosing == TCSpec => CloseAfterInput
<1>1. ASSUME TCInv, TCInv', TCNext
      PROVE  (downs' > downs /\ ~destroyed') => unread = 0 /\ peer # "open"
  <2> SUFFICES ASSUME downs' > downs, ~destroyed'
               PROVE  unread = 0 /\ peer # "open"
    OBVIOUS
  <2>0. TCTypeOK /\ FunctorInv /\ LifeInv
    BY <1>1 DEF TCInv
  <2>1. downs' # downs
    BY <2>0 DEF TCTypeOK
  <2>2. CASE HandleInput \/ HandleOutput
    <3>1. PICK r : HandleEvent(r)
      BY <2>2, Zenon DEF HandleInput, HandleOutput
    <3>2. \/ UNCHANGED closing
          \/ unread = 0 /\ peer # "open"
      BY <1>1, <3>1, EventCases, Zenon
    <3> QED
      BY <2>1, <3>2 DEF closing
  <2>3. CASE ServerDtor
    <3>1. state_ = kConnected
      BY <2>1, <2>3, Zenon DEF ServerDtor, ConnectDestroyed
    <3>2. registered
      BY <2>0, <3>1 DEF LifeInv, Live
    <3> QED
      BY <2>3, <3>1, <3>2, Zenon DEF ServerDtor, ConnectDestroyed
  <2>4. CASE RunFunctor
    <3>1. ConnectDestroyed /\ state_ = kConnected
      BY <2>1, <2>4, Zenon DEF RunFunctor, ConnectDestroyed, life
    <3>2. registered
      BY <2>0, <3>1 DEF LifeInv, Live
    <3> QED
      BY <3>1, <3>2 DEF ConnectDestroyed
  <2> QED
    BY <1>1, <2>1, <2>2, <2>3, <2>4, Zenon
       DEF TCNext, LoopStep, ConnectEstablished, HandleWriteNothing, HandleWriteSome,
           SwapFunctors, FunctorsDone, LoopSend, Shutdown, OtherSendTest, OtherSendPush,
           OtherRelease, PeerSends, PeerCloses, life
<1> QED
  BY <1>1, ConnectionInvariant, PTL DEF TCSpec, CloseAfterInput
=============================================================================
