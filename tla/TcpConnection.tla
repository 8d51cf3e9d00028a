---------------------------- MODULE TcpConnection ----------------------------
(***************************************************************************)
(* muduo::net::TcpConnection: one connection of a TcpServer that runs in   *)
(* the same loop, with its Channel, the loop's functors, a second thread   *)
(* that sends through a shared_ptr of its own, the kernel's send side and  *)
(* the peer.  A failed assert() sets failed, a call on a destroyed object  *)
(* sets dangling: both stop the loop thread.                               *)
(***************************************************************************)
EXTENDS Integers, Sequences

CONSTANTS
  MaxMessages, MaxLen,   \* bounds: messages sent, bytes in each
  MaxUnread,             \* bound: bytes of the peer waiting to be read
  highWaterMark_

ASSUME ConnectionAssumption ==
  /\ MaxMessages \in Nat /\ MaxLen \in Nat \ {0} /\ MaxUnread \in Nat
  /\ highWaterMark_ \in Nat \ {0}

VARIABLES
  state_,
  reading, writing, registered,   \* channel_: its events_, and whether the poller knows it
  outputBuffer_,
  wire, wrClosed,        \* kernel: bytes it took from us, write side shut down
  peer, unread,          \* kernel: the peer's side, and its bytes not read yet
  pendingFunctors_, functors, called,   \* the loop's queue, the batch and how much of it ran
  loopPc,                \* the loop thread: "idle", "write" (POLLOUT is left to handle), "functors"
  owner, holder,         \* shared_ptrs of the TcpServer and of the second thread
  otherPc,               \* the second thread: "idle", or "push" inside send()
  failed, dangling,
  messages, sent,        \* history: messages sent, and the bytes each thread gave to send()
  stream, dropped,       \* history: bytes sendInLoop() took, messages it gave up
  ups, downs, destroyed, destroyedWhile   \* history: connection callbacks, connectDestroyed() and its state_

channel == <<reading, writing, registered>>
kernel == <<wire, wrClosed, peer, unread>>
loopVars == <<functors, called, loopPc>>
threads == <<owner, holder, otherPc>>
flags == <<failed, dangling>>
sending == <<messages, sent, stream, dropped>>
life == <<ups, downs, destroyed, destroyedWhile>>
tcvars == <<state_, channel, outputBuffer_, kernel, pendingFunctors_, loopVars, threads, flags,
            sending, life>>

kDisconnected == "kDisconnected"
kConnecting == "kConnecting"
kConnected == "kConnected"
kDisconnecting == "kDisconnecting"
States == {kDisconnected, kConnecting, kConnected, kDisconnecting}

(* The k-th byte of message m, and the thread that sends it. *)
Senders == {"loop", "other"}
Bytes == Senders \X (1 .. MaxMessages) \X (1 .. MaxLen)
Message(who, m, len) == [k \in 1 .. len |-> <<who, m, k>>]

(* Functors: sendInLoop() holds a raw pointer, the others a shared_ptr. *)
SendInLoopOf(data) == [op |-> "sendInLoop", data |-> data]
ConnectDestroyedOf == [op |-> "connectDestroyed", data |-> <<>>]
WriteCompleteOf == [op |-> "writeComplete", data |-> <<>>]
HighWaterMarkOf == [op |-> "highWaterMark", data |-> <<>>]
FunctorSet ==
  [op : {"sendInLoop", "connectDestroyed", "writeComplete", "highWaterMark"}, data : Seq(Bytes)]

(* The object lives while somebody holds a shared_ptr to it. *)
HoldsRef(fs) == \E i \in DOMAIN fs : fs[i].op # "sendInLoop"
Alive == owner \/ holder \/ HoldsRef(pendingFunctors_) \/ HoldsRef(functors)
Running == ~failed /\ ~dangling

(* The peer reset the connection, and its error is still to be told, or    *)
(* not any more.                                                           *)
Broken == peer \in {"reset", "dead"}

TCTypeOK ==
  /\ state_ \in States
  /\ reading \in BOOLEAN /\ writing \in BOOLEAN /\ registered \in BOOLEAN
  /\ outputBuffer_ \in Seq(Bytes) /\ wire \in Seq(Bytes) /\ stream \in Seq(Bytes)
  /\ wrClosed \in BOOLEAN /\ peer \in {"open", "fin", "reset", "dead"} /\ unread \in 0 .. MaxUnread
  /\ pendingFunctors_ \in Seq(FunctorSet) /\ functors \in Seq(FunctorSet)
  /\ called \in 0 .. Len(functors) /\ loopPc \in {"idle", "write", "functors"}
  /\ owner \in BOOLEAN /\ holder \in BOOLEAN /\ otherPc \in {"idle", "push"}
  /\ failed \in BOOLEAN /\ dangling \in BOOLEAN
  /\ messages \in 0 .. MaxMessages /\ sent \in [Senders -> Seq(Bytes)] /\ dropped \subseteq 1 .. MaxMessages
  /\ ups \in Nat /\ downs \in Nat /\ destroyed \in BOOLEAN
  /\ destroyedWhile \in States \cup {"none"}

(* TcpServer::newConnection() has just made the connection. *)
TCInit ==
  /\ state_ = kConnecting
  /\ reading = FALSE /\ writing = FALSE /\ registered = FALSE
  /\ outputBuffer_ = <<>> /\ wire = <<>> /\ stream = <<>>
  /\ wrClosed = FALSE /\ peer = "open" /\ unread = 0
  /\ pendingFunctors_ = <<>> /\ functors = <<>> /\ called = 0 /\ loopPc = "idle"
  /\ owner = TRUE /\ holder = FALSE /\ otherPc = "idle"
  /\ failed = FALSE /\ dangling = FALSE
  /\ messages = 0 /\ sent = [s \in Senders |-> <<>>] /\ dropped = {}
  /\ ups = 0 /\ downs = 0 /\ destroyed = FALSE /\ destroyedWhile = "none"

-----------------------------------------------------------------------------
(* connectEstablished(); the connection callback gives the second thread   *)
(* its shared_ptr.                                                         *)
ConnectEstablished ==
  /\ state_ = kConnecting /\ owner /\ Running /\ loopPc = "idle"
  /\ state_' = kConnected
  /\ reading' = TRUE /\ registered' = TRUE
  /\ ups' = ups + 1
  /\ holder' = TRUE
  /\ UNCHANGED <<writing, outputBuffer_, kernel, pendingFunctors_, loopVars, owner, otherPc,
                 flags, sending, downs, destroyed, destroyedWhile>>

(* Results of write() of len bytes: a count, where 0 stands for            *)
(* EWOULDBLOCK and every error the code only logs, or EPIPE.               *)
EPIPE == -1
WriteResults(len) ==
  IF wrClosed THEN {EPIPE} ELSE IF Broken THEN {EPIPE, 0} ELSE 0 .. len

From(s, n) == SubSeq(s, n + 1, Len(s))

(* The functor queued when the output buffer crosses the high-water mark. *)
HighWater(oldLen, newLen) ==
  IF newLen >= highWaterMark_ /\ oldLen < highWaterMark_ THEN <<HighWaterMarkOf>> ELSE <<>>

GiveUp(data) ==
  /\ dropped' = dropped \cup {data[1][2]}
  /\ UNCHANGED <<wire, outputBuffer_, writing, pendingFunctors_, stream>>

(* The kernel took n bytes of data: the rest is buffered and POLLOUT       *)
(* watched for.                                                            *)
Took(data, n) ==
  LET rest == From(data, n) IN
  /\ wire' = wire \o SubSeq(data, 1, n)
  /\ outputBuffer_' = outputBuffer_ \o rest
  /\ writing' = (writing \/ rest # <<>>)
  /\ pendingFunctors_' = pendingFunctors_
       \o (IF rest = <<>> THEN <<WriteCompleteOf>> ELSE <<>>)
       \o HighWater(Len(outputBuffer_), Len(outputBuffer_'))
  /\ stream' = stream \o data
  /\ UNCHANGED dropped

(* A bug: write() is tried first although bytes are waiting. *)
SendInLoop_Overtakes(data) ==
  IF state_ = kDisconnected THEN GiveUp(data)
  ELSE \E n \in WriteResults(Len(data)) :
         IF n = EPIPE THEN GiveUp(data) ELSE Took(data, n)

(* A bug: a message is given up when the kernel's buffer is full. *)
SendInLoop_NoRetry(data) ==
  IF state_ = kDisconnected THEN GiveUp(data)
  ELSE IF writing \/ outputBuffer_ # <<>> THEN Took(data, 0)
  ELSE \E n \in WriteResults(Len(data)) :
         IF n \in {EPIPE, 0} THEN GiveUp(data) ELSE Took(data, n)

(* sendInLoop(): write directly only if nothing is waiting. *)
SendInLoop(data) ==
  IF state_ = kDisconnected THEN GiveUp(data)
  ELSE IF writing \/ outputBuffer_ # <<>> THEN Took(data, 0)
  ELSE \E n \in WriteResults(Len(data)) :
         IF n = EPIPE THEN GiveUp(data) ELSE Took(data, n)

(* send() by the loop thread, from any callback or functor; the batch may  *)
(* hold functors of other objects.                                         *)
LoopSend ==
  /\ Running /\ state_ = kConnected
  /\ messages < MaxMessages
  /\ messages' = messages + 1
  /\ \E len \in 1 .. MaxLen :
       LET data == Message("loop", messages + 1, len) IN
       SendInLoop(data) /\ sent' = [sent EXCEPT !["loop"] = @ \o data]
  /\ UNCHANGED <<state_, reading, registered, wrClosed, peer, unread, loopVars, threads, flags, life>>

(* send() by the second thread: state_ is tested first, the functor queued *)
(* later.                                                                  *)
OtherSendTest ==
  /\ holder /\ otherPc = "idle"
  /\ state_ = kConnected
  /\ messages < MaxMessages
  /\ otherPc' = "push"
  /\ UNCHANGED <<state_, channel, outputBuffer_, kernel, pendingFunctors_, loopVars, owner, holder,
                 flags, sending, life>>

OtherSendPush ==
  /\ otherPc = "push"
  /\ messages < MaxMessages
  /\ messages' = messages + 1
  /\ \E len \in 1 .. MaxLen :
       LET data == Message("other", messages + 1, len) IN
       /\ pendingFunctors_' = Append(pendingFunctors_, SendInLoopOf(data))
       /\ sent' = [sent EXCEPT !["other"] = @ \o data]
  /\ otherPc' = "idle"
  /\ UNCHANGED <<state_, channel, outputBuffer_, kernel, loopVars, owner, holder,
                 flags, stream, dropped, life>>

OtherRelease ==
  /\ holder /\ otherPc = "idle"
  /\ holder' = FALSE
  /\ UNCHANGED <<state_, channel, outputBuffer_, kernel, pendingFunctors_, loopVars, owner, otherPc,
                 flags, sending, life>>

(* A bug: the write side is shut down with bytes still waiting. *)
ShutdownInLoop_AtOnce(isWriting) == wrClosed' = TRUE

(* shutdownInLoop(): not while the channel is writing. *)
ShutdownInLoop(isWriting) == wrClosed' = (wrClosed \/ ~isWriting)

(* shutdown() by the loop thread, from any callback (it is documented not  *)
(* to be thread safe).                                                     *)
Shutdown ==
  /\ Running /\ state_ = kConnected
  /\ state_' = kDisconnecting
  /\ ShutdownInLoop(writing)
  /\ UNCHANGED <<channel, outputBuffer_, wire, peer, unread, pendingFunctors_, loopVars, threads,
                 flags, sending, life>>

-----------------------------------------------------------------------------
(* Handlers of the channel.                                                *)

(* handleWrite() sent the last byte: a shutdown() that waited for it takes *)
(* place.                                                                  *)
Drained ==
  /\ writing' = FALSE
  /\ pendingFunctors_' = Append(pendingFunctors_, WriteCompleteOf)
  /\ IF state_ = kDisconnecting THEN ShutdownInLoop(FALSE) ELSE UNCHANGED wrClosed

(* handleWrite() that writes something. *)
HandleWriteSome ==
  /\ Running /\ writing /\ loopPc = "write"
  /\ loopPc' = "idle"
  /\ \E n \in WriteResults(Len(outputBuffer_)) \ {EPIPE, 0} :
       /\ wire' = wire \o SubSeq(outputBuffer_, 1, n)
       /\ outputBuffer_' = From(outputBuffer_, n)
  /\ IF outputBuffer_' = <<>> THEN Drained ELSE UNCHANGED <<writing, pendingFunctors_, wrClosed>>
  /\ UNCHANGED <<state_, reading, registered, peer, unread, functors, called, threads, flags,
                 sending, life>>

(* handleWrite() that finds nothing to write, or whose write() fails. *)
HandleWriteNothing ==
  /\ Running /\ loopPc = "write"
  /\ ~writing \/ WriteResults(Len(outputBuffer_)) \cap {EPIPE, 0} # {}
  /\ loopPc' = "idle"
  /\ UNCHANGED <<state_, channel, outputBuffer_, kernel, pendingFunctors_, functors, called,
                 threads, flags, sending, life>>

(* handleClose(): the connection callback says DOWN, the close callback    *)
(* has TcpServer drop its shared_ptr and queue connectDestroyed().         *)
HandleClose ==
  IF state_ \in {kConnected, kDisconnecting}
  THEN /\ state_' = kDisconnected
       /\ reading' = FALSE /\ writing' = FALSE
       /\ downs' = downs + 1
       /\ owner' = FALSE
       /\ pendingFunctors_' = Append(pendingFunctors_, ConnectDestroyedOf)
       /\ UNCHANGED failed
  ELSE /\ failed' = TRUE
       /\ UNCHANGED <<state_, reading, writing, downs, owner, pendingFunctors_>>

closing == <<state_, reading, writing, downs, owner, pendingFunctors_, failed>>

(* handleRead(), by what read() returns: some bytes, for the message       *)
(* callback; an error, which handleError() logs; or 0.                     *)
HandleRead(end) ==
  \/ unread > 0 /\ unread' \in 0 .. unread - 1 /\ peer' = end /\ UNCHANGED closing
  \/ unread = 0 /\ end = "reset" /\ peer' = "dead" /\ UNCHANGED <<unread, closing>>
  \/ unread = 0 /\ end \in {"fin", "dead"} /\ HandleClose /\ peer' = end /\ UNCHANGED unread

(* What poll() may have said of the descriptor, some time before.  POLLHUP *)
(* comes once both directions are closed, and never without POLLIN while   *)
(* bytes are left to read.                                                 *)
Hangup == Broken \/ (peer = "fin" /\ wrClosed)
Revents ==
  {r \in SUBSET {"in", "out", "hup", "err"} :
     /\ r # {} /\ (reading \/ writing)
     /\ "in" \in r => reading /\ (unread > 0 \/ peer # "open")
     /\ "out" \in r => writing
     /\ "err" \in r => peer = "reset" /\ "hup" \in r
     /\ "hup" \in r => Hangup /\ (reading /\ unread > 0 => "in" \in r)}

(* A bug: POLLHUP closes the connection although POLLIN came with it. *)
Dispatch_HupFirst(r, end) ==
  IF "hup" \in r THEN HandleClose /\ peer' = end /\ UNCHANGED unread
  ELSE IF "in" \in r THEN HandleRead(end)
  ELSE peer' = end /\ UNCHANGED <<unread, closing>>

(* handleEventWithGuard() up to the read callback: POLLHUP alone closes    *)
(* the connection, POLLHUP with POLLIN leaves that to handleRead().        *)
Dispatch(r, end) ==
  IF "hup" \in r /\ "in" \notin r THEN HandleClose /\ peer' = end /\ UNCHANGED unread
  ELSE IF "in" \in r THEN HandleRead(end)
  ELSE peer' = end /\ UNCHANGED <<unread, closing>>

(* Channel::handleEvent() of an object that tie_ can lock: the close       *)
(* callback, handleError(), which takes the error of a reset away, and     *)
(* handleRead(); handleWrite() comes next if POLLOUT was reported.         *)
HandleEvent(r) ==
  /\ Running /\ loopPc = "idle" /\ registered /\ Alive
  /\ r \in Revents
  /\ Dispatch(r, IF "err" \in r THEN "dead" ELSE peer)
  /\ loopPc' = IF "out" \in r THEN "write" ELSE "idle"
  /\ UNCHANGED <<registered, outputBuffer_, wire, wrClosed, functors, called, holder, otherPc,
                 dangling, sending, ups, destroyed, destroyedWhile>>

HandleInput == \E r \in Revents : {"in", "hup"} \cap r # {} /\ HandleEvent(r)
HandleOutput == \E r \in Revents : "out" \in r /\ HandleEvent(r)

-----------------------------------------------------------------------------
(* connectDestroyed(): a connection that is still up goes down; then the   *)
(* channel is removed, which asserts that it watches nothing.              *)
ConnectDestroyed ==
  /\ destroyedWhile' = state_
  /\ IF state_ = kConnected
     THEN state_' = kDisconnected /\ reading' = FALSE /\ writing' = FALSE /\ downs' = downs + 1
     ELSE UNCHANGED <<state_, reading, writing, downs>>
  /\ IF registered /\ ~reading' /\ ~writing'
     THEN registered' = FALSE /\ destroyed' = TRUE /\ UNCHANGED failed
     ELSE failed' = TRUE /\ UNCHANGED <<registered, destroyed>>

(* A bug: the server drops its shared_ptr and nothing else. *)
ServerDtor_Drops ==
  /\ Running /\ loopPc = "idle" /\ owner
  /\ state_ # kConnecting
  /\ owner' = FALSE
  /\ UNCHANGED <<state_, channel, outputBuffer_, kernel, pendingFunctors_, loopVars, holder, otherPc,
                 flags, sending, life>>

(* The destructor of the TcpServer, in the loop thread. *)
ServerDtor ==
  /\ Running /\ loopPc = "idle" /\ owner
  /\ state_ # kConnecting
  /\ owner' = FALSE
  /\ ConnectDestroyed
  /\ UNCHANGED <<outputBuffer_, kernel, pendingFunctors_, loopVars, holder, otherPc, dangling,
                 sending, ups>>

(* doPendingFunctors(). *)
SwapFunctors ==
  /\ Running /\ loopPc = "idle" /\ pendingFunctors_ # <<>>
  /\ functors' = pendingFunctors_ /\ pendingFunctors_' = <<>>
  /\ called' = 0 /\ loopPc' = "functors"
  /\ UNCHANGED <<state_, channel, outputBuffer_, kernel, threads, flags, sending, life>>

RunFunctor ==
  /\ Running /\ loopPc = "functors" /\ called < Len(functors)
  /\ called' = called + 1
  /\ LET f == functors[called + 1] IN
     \/ /\ f.op = "sendInLoop" /\ Alive
        /\ SendInLoop(f.data)
        /\ UNCHANGED <<state_, reading, registered, wrClosed, peer, unread, flags, life>>
     \/ /\ f.op = "sendInLoop" /\ ~Alive
        /\ dangling' = TRUE
        /\ UNCHANGED <<state_, channel, outputBuffer_, kernel, pendingFunctors_, failed, stream,
                       dropped, life>>
     \/ /\ f.op = "connectDestroyed"
        /\ ConnectDestroyed
        /\ UNCHANGED <<outputBuffer_, kernel, pendingFunctors_, dangling, stream, dropped, ups>>
     \/ /\ f.op \in {"writeComplete", "highWaterMark"}
        /\ UNCHANGED <<state_, channel, outputBuffer_, kernel, pendingFunctors_, flags, stream,
                       dropped, life>>
  /\ UNCHANGED <<functors, loopPc, threads, messages, sent>>

(* The batch, and the shared_ptrs in it, are destroyed. *)
FunctorsDone ==
  /\ Running /\ loopPc = "functors" /\ called = Len(functors)
  /\ functors' = <<>> /\ called' = 0 /\ loopPc' = "idle"
  /\ UNCHANGED <<state_, channel, outputBuffer_, kernel, pendingFunctors_, threads, flags, sending, life>>

-----------------------------------------------------------------------------
(* The peer sends, closes its side or resets the connection. *)
PeerSends ==
  /\ peer = "open" /\ unread < MaxUnread
  /\ unread' = unread + 1
  /\ UNCHANGED <<state_, channel, outputBuffer_, wire, wrClosed, peer, pendingFunctors_, loopVars,
                 threads, flags, sending, life>>

PeerCloses ==
  /\ peer \in {"open", "fin"}
  /\ peer' \in {"fin", "reset"} \ {peer}
  /\ UNCHANGED <<state_, channel, outputBuffer_, wire, wrClosed, unread, pendingFunctors_, loopVars,
                 threads, flags, sending, life>>

LoopStep ==
  \/ ConnectEstablished \/ HandleInput \/ HandleOutput \/ HandleWriteSome \/ HandleWriteNothing
  \/ SwapFunctors \/ RunFunctor \/ FunctorsDone

TCNext ==
  \/ LoopStep \/ LoopSend \/ Shutdown \/ ServerDtor
  \/ OtherSendTest \/ OtherSendPush \/ OtherRelease
  \/ PeerSends \/ PeerCloses

TCSpec == TCInit /\ [][TCNext]_tcvars

(* The loop goes round and poll() reports an event as long as it lasts; a  *)
(* peer that has not reset the connection goes on reading, so a channel    *)
(* that watches for POLLOUT gets to write.                                 *)
TCFairSpec ==
  TCSpec /\ WF_tcvars(SwapFunctors \/ RunFunctor \/ FunctorsDone)
         /\ SF_tcvars(HandleInput) /\ SF_tcvars(HandleOutput)
         /\ WF_tcvars(HandleWriteNothing) /\ SF_tcvars(HandleWriteSome)

-----------------------------------------------------------------------------
(* What the kernel took and what still waits is what sendInLoop() was      *)
(* given, byte by byte and message by message, whoever sent it: messages   *)
(* of several threads do not mix.                                          *)
StreamInOrder == wire \o outputBuffer_ = stream

(* POLLOUT is watched for exactly while bytes wait: never a stalled buffer *)
(* nor a busy loop.                                                        *)
WriteInterest ==
  state_ \in {kConnected, kDisconnecting} => (writing <=> outputBuffer_ # <<>>)

(* The write side is shut down only once the output buffer is empty, and   *)
(* nothing is buffered after that.                                         *)
FinAfterData == wrClosed => outputBuffer_ = <<>>

(* However the end of the connection is reported, by POLLIN, POLLHUP,      *)
(* POLLERR or some of them, the channel's events take it down only once    *)
(* the peer closed or reset it and all that came before was read.          *)
CloseAfterInput ==
  [][(downs' > downs /\ ~destroyed') => unread = 0 /\ peer # "open"]_tcvars

(* Every connection that is destroyed went up once and down once, in       *)
(* whatever way it ended.                                                  *)
UpDownPaired == ups <= 1 /\ downs <= ups /\ (destroyed => downs = 1)

(* What the peer gets of one thread's messages is a prefix of what that    *)
(* thread gave to send(), with no gap: however the two threads, a full     *)
(* kernel buffer, shutdown() and a reset interleave, a message is lost     *)
(* only with all that the thread sent after it.                            *)
PeerSeesPrefix ==
  \A s \in Senders : \E n \in 0 .. Len(sent[s]) :
    SelectSeq(wire, LAMBDA b : b[1] = s) = SubSeq(sent[s], 1, n)

(* shutdown() completes: once the buffer is drained the write side is      *)
(* closed, unless the connection goes down first.                          *)
ShutdownCompletes ==
  (state_ = kDisconnecting) ~> (wrClosed \/ state_ = kDisconnected \/ ~Running)

(* send() takes the writing off its caller (TcpConnection.h).  A message   *)
(* it accepted is given up only once the write side is shut down, the peer *)
(* reset the connection or the connection is down: never because write()   *)
(* took part of it or nothing.                                             *)
GivenUpOnlyWhenClosed ==
  dropped # {} => (wrClosed \/ Broken \/ state_ = kDisconnected)

(* Whoever holds it last, the server, the other thread or a functor, the   *)
(* connection is deleted only after connectDestroyed() took its channel    *)
(* out of the poller: a send() that finds it deleted is the only harm.     *)
DeletedOnlyWhenRemoved == ~Alive /\ ~failed => destroyed /\ ~registered /\ ups = downs

(* The assertions of handleClose() and of Channel::remove(), which wants   *)
(* disableAll() first, fail in one case only: connectDestroyed() by the    *)
(* destructor of TcpServer meets a connection that is kDisconnecting.      *)
FailsOnlyWhenDisconnecting == failed => destroyedWhile = kDisconnecting

(* The output buffer drains: POLLOUT is watched while bytes wait, and the  *)
(* FIN of shutdown() comes after the last of them.                         *)
OutputDrains == WriteInterest /\ FinAfterData

(* A connection ends once, whoever ends it: its callbacks are paired,      *)
(* messages are given up only after a shutdown or its end, the object is   *)
(* deleted only after its end, and no assertion fails but the one that     *)
(* FailsOnlyWhenDisconnecting names.                                       *)
EndsOnce ==
  /\ TCTypeOK /\ UpDownPaired /\ GivenUpOnlyWhenClosed
  /\ DeletedOnlyWhenRemoved /\ FailsOnlyWhenDisconnecting

(* An orderly end is orderly on both sides: what the peer sent before its  *)
(* FIN is read before the connection goes down, and shutdown() sends a     *)
(* FIN.                                                                    *)
OrderlyEnd == CloseAfterInput /\ ShutdownCompletes
=============================================================================
