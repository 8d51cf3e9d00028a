------------------------------ MODULE TcpClient ------------------------------
(***************************************************************************)
(* muduo::net::TcpClient over its Connector: the loop thread, and a user   *)
(* who calls connect(), disconnect(), stop() and the destructor from       *)
(* another thread or from a functor of the loop.  Of a TcpConnection only  *)
(* its life is kept.                                                       *)
(***************************************************************************)
EXTENDS Connector

CONSTANT MaxCalls   \* bound: calls of connect() and stop()

VARIABLES
  retry_, connectClient_,      \* connectClient_ is TcpClient::connect_
  connection_,                 \* its fd, 0: NULL
  connState, closeCallback_,   \* of the TcpConnection of each fd
  userHolds,                   \* the user keeps a TcpConnectionPtr while the connection is up
  otherPc, dtorConn,           \* the user's thread, and conn in ~TcpClient()
  calls,                       \* history: connect() and stop() calls
  unready, raced               \* history: a connect() came Unready, the destructor raced with the loop

conn == <<connection_, connState, closeCallback_>>
user == <<otherPc, dtorConn>>
const == <<retry_, userHolds>>
history == <<calls, unready, raced>>
tclvars == <<ctor, owner, hack, open, loop, pending, flags, connectClient_, conn, user, const, history>>

ConnStates == {"none", "kConnected", "kDisconnecting", "kDisconnected"}
Functors ==
  ({"startInLoop", "stopInLoop", "resetChannel"} \X {0})
    \cup ({"setCloseCallback", "connectDestroyed"} \X Fds)

TCLTypeOK ==
  /\ CTypeOK
  /\ phase \in {"events", "functors", "restart"}
  /\ active \subseteq ({"conn"} \X Fds) \cup ({"retry", "hack", "connector"} \X {0})
  /\ pending \in Seq(Functors) /\ batch \in Seq(Functors)
  /\ retry_ \in BOOLEAN /\ connectClient_ \in BOOLEAN
  /\ connection_ \in Fds \cup {0} /\ connState \in [Fds -> ConnStates]
  /\ closeCallback_ \in [Fds -> {"TcpClient", "detail"}] /\ userHolds \in BOOLEAN
  /\ otherPc \in {"idle", "start", "stop", "dtor", "dtorStop", "dtorEnd"}
  /\ dtorConn \in Fds \cup {0}
  /\ calls \in 0 .. MaxCalls /\ unready \in BOOLEAN /\ raced \in BOOLEAN

TCLInit ==
  /\ CInit
  /\ retry_ \in BOOLEAN /\ userHolds \in BOOLEAN /\ connectClient_ = TRUE
  /\ connection_ = 0 /\ connState = [f \in Fds |-> "none"]
  /\ closeCallback_ = [f \in Fds |-> "TcpClient"]
  /\ otherPc = "idle" /\ dtorConn = 0
  /\ calls = 0 /\ unready = FALSE /\ raced = FALSE

Up(f) == connState[f] \in {"kConnected", "kDisconnecting"}
InLoop == Works /\ phase = "functors"           \* the user's code runs in the loop thread
Elsewhere == Works /\ otherPc = "idle"          \* the user's thread is free
InDtor == otherPc \in {"dtor", "dtorStop", "dtorEnd"}
Usable == owner /\ ~InDtor                      \* the user calls a client before its destructor only

-----------------------------------------------------------------------------
(* The user.                                                               *)

Waits(names) == \E i \in DOMAIN (batch \o pending) : (batch \o pending)[i][1] \in names
ConnectorFunctors == {"startInLoop", "stopInLoop", "resetChannel"}

(* Why a connect() may fail startInLoop()'s or connecting()'s assertion:   *)
(* the last one is under way or its connection is up; that connection is   *)
(* gone, but the Connector stays in kConnected; the timer of a retry is    *)
(* pending, which stop() does not cancel; stop() has not yet run in the    *)
(* loop, or the channel of the last attempt is not yet reset.              *)
Unready ==
  \/ connection_ # 0 \/ phase = "restart" \/ Waits({"startInLoop"})
  \/ state_ = kConnected /\ connection_ = 0
  \/ timers > 0
  \/ channel_ # 0 \/ Waits({"stopInLoop"})

Connects ==
  /\ Usable /\ calls < MaxCalls
  /\ calls' = calls + 1
  /\ unready' = (unready \/ Unready \/ otherPc # "idle") /\ UNCHANGED raced
  /\ connectClient_' = TRUE

(* connect() in the loop thread: start() runs startInLoop() at once. *)
ConnectInLoop ==
  /\ InLoop /\ Connects
  /\ connect_' = TRUE
  /\ StartInLoop(TRUE, timers)
  /\ UNCHANGED <<owner, hack, loop, pending, dangling, orphaned, conn, user, const>>

(* connect() in the user's thread: connect_ is set, then the functor       *)
(* queued.                                                                 *)
ConnectElsewhere ==
  /\ Elsewhere /\ Connects
  /\ connect_' = TRUE
  /\ otherPc' = "start"
  /\ UNCHANGED <<state_, retryDelayMs_, channel_, watching, timers, gaveUp, owner, hack, open, loop,
                 pending, flags, conn, dtorConn, const>>

QueueStart ==
  /\ Works /\ otherPc = "start"
  /\ otherPc' = "idle"
  /\ pending' = Append(pending, Of("startInLoop"))
  /\ UNCHANGED <<ctor, owner, hack, open, loop, flags, connectClient_, conn, dtorConn, const, history>>

(* disconnect(): shuts the connection down if there is one. *)
Disconnect ==
  /\ Elsewhere /\ owner
  /\ connectClient_' = FALSE
  /\ connState' = IF connection_ # 0 /\ connState[connection_] = "kConnected"
                  THEN [connState EXCEPT ![connection_] = "kDisconnecting"] ELSE connState
  /\ UNCHANGED <<ctor, owner, hack, open, loop, pending, flags, connection_, closeCallback_,
                 user, const, history>>

Stops ==
  /\ Usable /\ calls < MaxCalls
  /\ calls' = calls + 1
  /\ UNCHANGED <<unready, raced>>

StopClientInLoop ==
  /\ InLoop /\ Stops
  /\ connectClient_' = FALSE /\ connect_' = FALSE
  /\ StopInLoop(FALSE, pending)
  /\ UNCHANGED <<channel_, gaveUp, owner, hack, loop, flags, conn, user, const>>

StopElsewhere ==
  /\ Elsewhere /\ Stops
  /\ connectClient_' = FALSE /\ connect_' = FALSE
  /\ otherPc' = "stop"
  /\ UNCHANGED <<state_, retryDelayMs_, channel_, watching, timers, gaveUp, owner, hack, open, loop,
                 pending, flags, conn, dtorConn, const>>

QueueStop ==
  /\ Works /\ otherPc \in {"stop", "dtorStop"}
  /\ pending' = Append(pending, Of("stopInLoop"))
  /\ IF otherPc = "stop" THEN otherPc' = "idle" /\ UNCHANGED hack
     ELSE otherPc' = "dtorEnd" /\ hack' = TRUE
  /\ UNCHANGED <<ctor, owner, open, loop, flags, connectClient_, conn, dtorConn, const, history>>

(* setCloseCallback(detail::removeConnection). *)
Detach(f, q) == pending' = q /\ closeCallback_' = [closeCallback_ EXCEPT ![f] = "detail"]

(* The TcpClient is gone, and with it connection_.  A connection that      *)
(* nobody else holds (no functor does) is deleted although it is up.       *)
ClientGone(noFunctor) ==
  /\ owner' = FALSE /\ connection_' = 0
  /\ orphaned' = (connection_ # 0 /\ Up(connection_) /\ ~userHolds /\ noFunctor)

(* What a destructor that ends leaves to go wrong: functors of the         *)
(* Connector are queued and the one-second timer does not hold it (kept);  *)
(* handleClose() still calls the client, because the functor that replaces *)
(* the callback has not run (replaced); nobody else holds the connection,  *)
(* which is deleted although it is up.                                     *)
Unsafe(kept, replaced) ==
  \/ ~kept /\ Waits(ConnectorFunctors)
  \/ ~replaced
  \/ connection_ # 0 /\ ~userHolds

(* newConnection(), removeConnection() or restart() runs while another     *)
(* thread is in the destructor.                                            *)
ClientCalledBack == raced' = (raced \/ InDtor) /\ UNCHANGED unready

(* ~TcpClient() in the loop thread. *)
DtorInLoop ==
  /\ InLoop /\ Elsewhere /\ owner
  /\ raced' = Unsafe(connection_ = 0, TRUE)
  /\ IF connection_ # 0
     THEN /\ Detach(connection_, pending)
          /\ UNCHANGED <<connect_, state_, watching, timers, retryDelayMs_, open, hack>>
     ELSE /\ connect_' = FALSE /\ StopInLoop(FALSE, pending) /\ hack' = TRUE
          /\ UNCHANGED closeCallback_
  /\ ClientGone(TRUE)
  /\ UNCHANGED <<channel_, gaveUp, loop, failed, dangling, connState, connectClient_, user, const, calls, unready>>

(* ~TcpClient() in the user's thread: connection_ is copied under the      *)
(* lock, then either the functor is queued or the Connector stopped.       *)
DtorCopy ==
  /\ Elsewhere /\ owner
  /\ dtorConn' = connection_
  /\ otherPc' = "dtor"
  /\ UNCHANGED <<ctor, owner, hack, open, loop, pending, flags, connectClient_, conn, const, history>>

DtorAct ==
  /\ Works /\ otherPc = "dtor"
  /\ IF dtorConn # 0
     THEN /\ pending' = Append(pending, <<"setCloseCallback", dtorConn>>)
          /\ otherPc' = "dtorEnd" /\ UNCHANGED connect_
     ELSE connect_' = FALSE /\ otherPc' = "dtorStop" /\ UNCHANGED pending
  /\ UNCHANGED <<state_, retryDelayMs_, channel_, watching, timers, gaveUp, owner, hack, open, loop,
                 flags, connectClient_, conn, dtorConn, const, history>>

DtorEnd ==
  /\ Works /\ otherPc = "dtorEnd"
  /\ otherPc' = "idle" /\ dtorConn' = 0
  /\ raced' = \/ raced \/ phase = "restart"
              \/ Unsafe(hack, connection_ = 0 \/ closeCallback_[connection_] = "detail")
  /\ ClientGone(~Queued(pending \o batch, <<"setCloseCallback", connection_>>))
  /\ UNCHANGED <<ctor, hack, open, loop, pending, failed, dangling, connectClient_, connState,
                 closeCallback_,
                 const, calls, unready>>

-----------------------------------------------------------------------------
(* The loop.                                                               *)

(* Bounds on timing: the loop runs resetChannel(), queued with a timer of  *)
(* at least 0.5 s, before that timer expires, and the functors that the    *)
(* destructor left before its timer of one second does.                    *)
RetryDue == timers > 0 /\ ~Waits({"resetChannel"})
HackDue == hack /\ ~Waits(ConnectorFunctors)

Ready ==
  {<<"conn", f>> : f \in {g \in Fds : Up(g)}}
    \cup (IF watching THEN {Of("connector")} ELSE {})
    \cup (IF RetryDue THEN {Of("retry")} ELSE {})
    \cup (IF HackDue THEN {Of("hack")} ELSE {})

Poll ==
  /\ Works /\ phase = "functors" /\ batch = <<>>
  /\ phase' = "events"
  /\ active' \in SUBSET Ready
  /\ UNCHANGED <<ctor, owner, hack, open, batch, pending, flags, connectClient_, conn, user, const,
                 history>>

DoPendingFunctors ==
  /\ Works /\ phase = "events" /\ active = {}
  /\ phase' = "functors" /\ batch' = pending /\ pending' = <<>>
  /\ UNCHANGED <<ctor, owner, hack, open, active, flags, connectClient_, conn, user, const, history>>

Handling(e) == Works /\ phase = "events" /\ e \in active

RetryTimer ==
  /\ Handling(Of("retry"))
  /\ active' = active \ {Of("retry")}
  /\ UNCHANGED connect_ /\ StartInLoop(connect_, timers - 1)
  /\ dangling' = ~Alive
  /\ UNCHANGED <<owner, hack, phase, batch, pending, orphaned, connectClient_, conn,
                 user, const, history>>

(* detail::removeConnector(): the last reference is dropped. *)
HackTimer ==
  /\ Handling(Of("hack"))
  /\ active' = active \ {Of("hack")}
  /\ hack' = FALSE
  /\ UNCHANGED <<ctor, owner, open, phase, batch, pending, flags, connectClient_, conn, user, const,
                 history>>

(* An event of the attempt's channel; ~Connector() asserts that there is   *)
(* none (Works), so the Connector is there.                                *)
ConnectorEvent ==
  /\ Handling(Of("connector"))
  /\ active' = active \ {Of("connector")}
  /\ UNCHANGED <<owner, hack, phase, batch, connectClient_, user, const, calls, orphaned>>

HandleError ==
  /\ ConnectorEvent
  /\ HandleFailure \/ HandleUnexpected
  /\ UNCHANGED <<dangling, connection_, connState, closeCallback_, unready, raced>>

(* newConnection(), called back with the connected socket. *)
NewConnection(f) ==
  /\ connection_' = f
  /\ connState' = [connState EXCEPT ![f] = "kConnected"]
  /\ UNCHANGED closeCallback_

HandleWrite ==
  /\ ConnectorEvent
  /\ HandleConnected
  /\ IF connect_ /\ owner THEN NewConnection(channel_) /\ ClientCalledBack
     ELSE UNCHANGED <<connection_, connState, closeCallback_, unready, raced>>
  /\ dangling' = (connect_ /\ ~owner)

(* handleClose() of a connection; removeConnection() is TcpClient's unless *)
(* the callback was replaced.  A connection that is to be retried goes on  *)
(* in RestartStep.                                                         *)
HandleClose(f) ==
  /\ Handling(<<"conn", f>>)
  /\ active' = active \ {<<"conn", f>>}
  /\ connState' = [connState EXCEPT ![f] = "kDisconnected"]
  /\ LET mine == closeCallback_[f] = "TcpClient" IN
     /\ dangling' = (mine /\ ~owner)
     /\ failed' = (mine /\ owner /\ connection_ # f)
     /\ connection_' = IF mine THEN 0 ELSE connection_
     /\ phase' = IF mine /\ owner /\ retry_ /\ connectClient_ THEN "restart" ELSE phase
     /\ IF mine THEN ClientCalledBack ELSE UNCHANGED <<unready, raced>>
     /\ pending' = Append(pending, <<"connectDestroyed", f>>)
  /\ UNCHANGED <<ctor, owner, hack, open, batch, orphaned, connectClient_, closeCallback_, user, const,
                 calls>>

RestartStep ==
  /\ Works /\ phase = "restart"
  /\ phase' = "events"
  /\ IF owner THEN RestartConnector /\ UNCHANGED dangling
     ELSE dangling' = TRUE /\ UNCHANGED <<ctor, open, failed>>
  /\ ClientCalledBack
  /\ UNCHANGED <<owner, hack, active, batch, pending, orphaned, connectClient_, conn, user, const, calls>>

(* One functor of the batch; those of the Connector hold a raw pointer.    *)
Running(f) == Works /\ phase = "functors" /\ batch # <<>> /\ Head(batch) = f /\ batch' = Tail(batch)
ConnectorFunctor == UNCHANGED <<orphaned, owner, hack, phase, active, connectClient_, conn, user, const, history>>

RunStart ==
  /\ Running(Of("startInLoop")) /\ Alive
  /\ UNCHANGED connect_ /\ StartInLoop(connect_, timers)
  /\ UNCHANGED <<pending, dangling>> /\ ConnectorFunctor

RunStop ==
  /\ Running(Of("stopInLoop")) /\ Alive
  /\ StopInLoop(connect_, pending)
  /\ UNCHANGED <<connect_, channel_, gaveUp, failed, dangling>> /\ ConnectorFunctor

RunReset ==
  /\ Running(Of("resetChannel")) /\ Alive
  /\ channel_' = 0
  /\ UNCHANGED <<connect_, state_, retryDelayMs_, watching, timers, gaveUp, open, pending, failed,
                 dangling>>
  /\ ConnectorFunctor

RunOnDead ==
  /\ ~Alive /\ \E f \in ConnectorFunctors : Running(Of(f))
  /\ dangling' = TRUE
  /\ UNCHANGED <<ctor, open, pending, failed>> /\ ConnectorFunctor

(* Once it has run, the functor's own reference is gone too. *)
RunSetCloseCallback(f) ==
  /\ Running(<<"setCloseCallback", f>>)
  /\ Detach(f, pending)
  /\ orphaned' = (Up(f) /\ ~userHolds /\ connection_ # f)
  /\ UNCHANGED <<ctor, owner, hack, open, phase, active, failed, dangling, connectClient_, connection_,
                 connState, user, const, history>>

(* connectDestroyed(); the connection is deleted and its socket closed. *)
RunConnectDestroyed(f) ==
  /\ Running(<<"connectDestroyed", f>>)
  /\ connState' = [connState EXCEPT ![f] = "none"]
  /\ open' = open \ {f}
  /\ closeCallback_' = [closeCallback_ EXCEPT ![f] = "TcpClient"]
  /\ UNCHANGED <<ctor, owner, hack, phase, active, pending, flags, connectClient_, connection_, user, const, history>>

ConnectorStep == HandleError \/ HandleWrite
FunctorStep ==
  \/ RunStart \/ RunStop \/ RunReset \/ RunOnDead
  \/ \E f \in Fds : RunSetCloseCallback(f) \/ RunConnectDestroyed(f)
LoopStep ==
  \/ DoPendingFunctors \/ FunctorStep \/ ConnectorStep \/ RetryTimer \/ HackTimer \/ RestartStep
  \/ \E f \in Fds : HandleClose(f)

TCLNext ==
  \/ ConnectInLoop \/ ConnectElsewhere \/ QueueStart
  \/ Disconnect \/ StopClientInLoop \/ StopElsewhere \/ QueueStop
  \/ DtorInLoop \/ DtorCopy \/ DtorAct \/ DtorEnd
  \/ Poll \/ LoopStep

TCLSpec == TCLInit /\ [][TCLNext]_tclvars

(* The loop goes round and polls the attempt, and the network comes back:  *)
(* connect(2) and the handshake succeed in the end.                        *)
TCLFairSpec ==
  /\ TCLSpec
  /\ WF_tclvars(Poll) /\ WF_tclvars(LoopStep) /\ WF_tclvars(QueueStart)
  /\ SF_tclvars(Poll /\ {Of("connector"), Of("retry")} \cap Ready \subseteq active')
  /\ SF_tclvars((RetryTimer \/ RunStart) /\ (connect_ => state_' = kConnecting))
  /\ SF_tclvars(HandleWrite)

-----------------------------------------------------------------------------
(* The open sockets are those of the attempt under way and of the          *)
(* connections: whichever of success, error, self-connect, stop() and late *)
(* timers ends an attempt, its socket is closed once or handed on.         *)
SocketsOwned ==
  TCLTypeOK /\ (Works => open = {f \in Fds : (watching /\ f = channel_) \/ connState[f] # "none"})

(* One connect() keeps at most one of a retry timer, an attempt and a      *)
(* connection alive, through retries, restarts and stops.                  *)
OneAttempt ==
  Works /\ ~unready =>
    timers + (IF watching THEN 1 ELSE 0) + Cardinality({f \in Fds : Up(f)}) <= 1

(* The assertions of startInLoop(), connecting(), handleError(),           *)
(* handleWrite() and removeConnection() fail only if connect() was called  *)
(* in one of the ways Unready names (TcpClient.cc: "FIXME: check state").  *)
FailsOnlyWhenUnready == failed => unready

(* An object that was deleted is used or left in the poller, and           *)
(* ~Connector()'s assertion fails, only if the destructor ended in one of  *)
(* the ways Unsafe names, or the loop called the client back meanwhile.    *)
DestructionSafe == dangling \/ orphaned \/ (~Alive /\ channel_ # 0) => raced

(* stop() ends an attempt that is under way: none goes on once             *)
(* stopInLoop() has run, unless a restart took it back.                    *)
StopEnds ==
  Works /\ ~connect_ /\ otherPc \notin {"stop", "dtorStop"}
    /\ ~Queued(batch \o pending, Of("stopInLoop")) => ~watching

(* A connection that is wanted comes up once the network lets it, however  *)
(* many attempts failed before.                                            *)
ConnectsInTheEnd ==
  (connect_ /\ owner /\ Works) ~> (state_ = kConnected \/ ~connect_ \/ gaveUp \/ ~owner \/ ~Works)

(* stop(), retries and restarts leave at most one attempt alive, and none  *)
(* once stopInLoop() has run.                                              *)
AttemptsBounded == OneAttempt /\ StopEnds

(* Assertions fail and freed objects are used only in the ways named       *)
(* above.  The code prevents none of them, and two need no second caller:  *)
(* connect() after a connection that closed, and stop() and connect()      *)
(* while the timer of a retry is pending.  Every other order of calls,     *)
(* events, timers and functors is safe.                                    *)
OnlyKnownFailures == FailsOnlyWhenUnready /\ DestructionSafe
=============================================================================
