------------------------------ MODULE TcpServer ------------------------------
(***************************************************************************)
(* muduo::net::TcpServer and the life of its connections, over the base    *)
(* loop (0) and the loops of the pool, each a thread with a queue of       *)
(* functors (FunctorQueue: in order, none lost while the loop runs).  Of a *)
(* TcpConnection only what its life needs is kept: TcpConnection models    *)
(* the rest.  A failed assert() sets failed; a functor that runs on a      *)
(* destroyed TcpServer or Acceptor sets dangling.                          *)
(***************************************************************************)
EXTENDS EventLoopThreadPool, Acceptor

VARIABLES
  started_,
  connections_,
  state_, loop_,             \* of each TcpConnection
  watching, registered,      \* of its channel: events_ is not empty, the poller knows it
  queue,                     \* pendingFunctors_ of each loop
  running, quit_,            \* of each loop
  serverPc,                  \* "alive", "starting" (in start()), "destroying" or "gone"
  failed, dangling, startAborted,
  ups, downs, destroyed      \* history, of each connection

starting == <<started_, startAborted>>
conns == <<state_, watching, registered, ups, downs, destroyed>>
loops == <<running, quit_>>
tsvars == <<poolVars, accepting, starting, connections_, conns, loop_, queue, loops, serverPc, failed, dangling>>

Loops == 0 .. MaxThreads
States == {"none", "kConnecting", "kConnected", "kDisconnecting", "kDisconnected"}
Functors ==
  {<<"listen">>} \cup ({"connectEstablished", "connectDestroyed", "removeConnectionInLoop"} \X Conns)

TSTypeOK ==
  /\ PoolTypeOK /\ ATypeOK
  /\ started_ \in BOOLEAN /\ startAborted \in BOOLEAN
  /\ connections_ \subseteq Conns
  /\ state_ \in [Conns -> States] /\ loop_ \in [Conns -> Loops]
  /\ watching \in [Conns -> BOOLEAN] /\ registered \in [Conns -> BOOLEAN]
  /\ queue \in [Loops -> Seq(Functors)]
  /\ running \in [Loops -> BOOLEAN] /\ quit_ \in [Loops -> BOOLEAN]
  /\ serverPc \in {"alive", "starting", "destroying", "gone"}
  /\ failed \in BOOLEAN /\ dangling \in BOOLEAN
  /\ ups \in [Conns -> Nat] /\ downs \in [Conns -> Nat] /\ destroyed \in [Conns -> BOOLEAN]

(* The server is constructed and setThreadNum() was called. *)
TSInit ==
  /\ poolStarted_ = FALSE /\ numThreads_ \in 0 .. MaxThreads
  /\ next_ = 0 /\ loops_ = <<>> /\ given = <<>>
  /\ AInit /\ started_ = FALSE /\ startAborted = FALSE
  /\ connections_ = {}
  /\ state_ = [c \in Conns |-> "none"] /\ loop_ = [c \in Conns |-> 0]
  /\ watching = [c \in Conns |-> FALSE] /\ registered = [c \in Conns |-> FALSE]
  /\ queue = [l \in Loops |-> <<>>]
  /\ running = [l \in Loops |-> l = 0] /\ quit_ = [l \in Loops |-> FALSE]
  /\ serverPc = "alive" /\ failed = FALSE /\ dangling = FALSE
  /\ ups = [c \in Conns |-> 0] /\ downs = [c \in Conns |-> 0]
  /\ destroyed = [c \in Conns |-> FALSE]

Lives == serverPc \in {"alive", "starting"}
Works == ~failed /\ ~dangling /\ ~startAborted
Enqueue(l, f) == queue' = [queue EXCEPT ![l] = Append(@, f)]

-----------------------------------------------------------------------------
(* start() by the base thread: the pool is started, which takes a while,   *)
(* then Acceptor::listen() runs at once.                                   *)
Start ==
  /\ Works /\ serverPc = "alive" /\ ~listenning_
  /\ serverPc' = "starting"
  /\ started_' = TRUE
  /\ IF started_ THEN UNCHANGED poolVars ELSE PoolStart
  /\ running' = [l \in Loops |-> running[l] \/ l \in 1 .. Len(loops_')]
  /\ UNCHANGED <<accepting, startAborted, connections_, conns, loop_, queue, quit_, failed, dangling>>

StartListen ==
  /\ Works /\ serverPc = "starting"
  /\ serverPc' = "alive"
  /\ Listen
  /\ UNCHANGED <<poolVars, started_, startAborted, connections_, conns, loop_, queue, loops, failed,
                 dangling>>

(* start() by another thread: the pool is started only in the base thread, *)
(* and says so by aborting.  Bound: one listen() on its way.               *)
OtherStart ==
  /\ Works /\ Lives
  /\ IF started_
     THEN /\ ~listenning_ /\ queue[0] = <<>> /\ Enqueue(0, <<"listen">>)
          /\ UNCHANGED <<started_, startAborted>>
     ELSE /\ started_' = TRUE /\ startAborted' = TRUE
          /\ UNCHANGED queue
  /\ UNCHANGED <<poolVars, accepting, connections_, conns, loop_, loops, serverPc, failed, dangling>>

(* connectEstablished() of a connection that is kConnecting. *)
Established(c) ==
  /\ state_' = [state_ EXCEPT ![c] = "kConnected"]
  /\ watching' = [watching EXCEPT ![c] = TRUE]
  /\ registered' = [registered EXCEPT ![c] = TRUE]
  /\ ups' = [ups EXCEPT ![c] = @ + 1]

(* The descriptors of connections: each is closed with its Socket.         *)
Sockets == Cardinality({c \in Conns : state_[c] # "none" /\ ~destroyed[c]})

(* newConnection(), called back by Acceptor::handleRead() in the base      *)
(* thread.                                                                 *)
NewConnection(c) ==
  /\ Works /\ serverPc = "alive"
  /\ Accept(c, Sockets)
  /\ GetNextLoop
  /\ loop_' = [loop_ EXCEPT ![c] = NextLoop]
  /\ connections_' = connections_ \cup {c}
  /\ IF NextLoop = baseLoop_
     THEN Established(c) /\ UNCHANGED queue
     ELSE /\ state_' = [state_ EXCEPT ![c] = "kConnecting"]
          /\ Enqueue(NextLoop, <<"connectEstablished", c>>)
          /\ UNCHANGED <<watching, registered, ups>>
  /\ UNCHANGED <<starting, loops, serverPc, failed, dangling, downs, destroyed>>

(* The clients, the other threads, and handleRead() with no descriptor     *)
(* left.                                                                   *)
Outside ==
  /\ Works /\ Lives
  /\ \/ \E c \in Conns : (state_[c] = "none" /\ ClientConnects(c)) \/ ClientAborts(c)
     \/ OthersOpen(Sockets) \/ OthersClose
  /\ UNCHANGED <<poolVars, starting, connections_, conns, loop_, queue, loops, serverPc, failed, dangling>>

Refuse ==
  /\ Works /\ serverPc = "alive"
  /\ AcceptFull(Sockets) \/ AcceptAndClose(Sockets) \/ OpenIdle(Sockets)
  /\ UNCHANGED <<poolVars, starting, connections_, conns, loop_, queue, loops, serverPc, failed, dangling>>

(* A bug: the connection is forgotten but never destroyed. *)
RemoveConnectionInLoop_NoDestroy(c, q) ==
  IF c \in connections_
  THEN connections_' = connections_ \ {c} /\ queue' = q /\ UNCHANGED failed
  ELSE failed' = TRUE /\ queue' = q /\ UNCHANGED connections_

(* A bug: the connection is destroyed but stays in the map. *)
RemoveConnectionInLoop_NotErased(c, q) ==
  /\ queue' = [q EXCEPT ![loop_[c]] = Append(@, <<"connectDestroyed", c>>)]
  /\ UNCHANGED <<connections_, failed>>

(* removeConnectionInLoop() with the queues q: asserts that the connection *)
(* is in the map; connectDestroyed() is queued even in the same loop.      *)
RemoveConnectionInLoop(c, q) ==
  IF c \in connections_
  THEN /\ connections_' = connections_ \ {c}
       /\ queue' = [q EXCEPT ![loop_[c]] = Append(@, <<"connectDestroyed", c>>)]
       /\ UNCHANGED failed
  ELSE failed' = TRUE /\ queue' = q /\ UNCHANGED connections_

(* A thread that handles an event: the base thread is busy during start()  *)
(* and the destructor.                                                     *)
Handling(l) == Works /\ running[l] /\ (l = 0 => serverPc \in {"alive", "gone"} /\ acceptPc = "idle")

(* kDisconnected, disableAll(), connection callback. *)
GoDown(c) ==
  /\ state_' = [state_ EXCEPT ![c] = "kDisconnected"]
  /\ watching' = [watching EXCEPT ![c] = FALSE]
  /\ downs' = [downs EXCEPT ![c] = @ + 1]

(* handleClose() asserts that the connection is up; the close callback is  *)
(* removeConnection(), which goes on in the base loop.                     *)
HandleClose(c) ==
  /\ registered[c] /\ watching[c]
  /\ Handling(loop_[c])
  /\ IF state_[c] \in {"kConnected", "kDisconnecting"}
     THEN /\ GoDown(c)
          /\ IF loop_[c] = baseLoop_ THEN RemoveConnectionInLoop(c, queue)
             ELSE Enqueue(0, <<"removeConnectionInLoop", c>>) /\ UNCHANGED <<connections_, failed>>
     ELSE failed' = TRUE /\ UNCHANGED <<state_, watching, downs, connections_, queue>>
  /\ UNCHANGED <<poolVars, accepting, starting, loop_, loops, serverPc, dangling, registered, ups, destroyed>>

(* shutdown() from a callback of the connection. *)
Shutdown(c) ==
  /\ state_[c] = "kConnected"
  /\ Handling(loop_[c])
  /\ state_' = [state_ EXCEPT ![c] = "kDisconnecting"]
  /\ UNCHANGED <<poolVars, accepting, starting, connections_, loop_, queue, loops, serverPc, failed, dangling,
                 watching, registered, ups, downs, destroyed>>

(* connectDestroyed(): Channel::remove() asserts that nothing is watched.  *)
ConnectDestroyed(c) ==
  /\ IF state_[c] = "kConnected" THEN GoDown(c) ELSE UNCHANGED <<state_, watching, downs>>
  /\ IF registered[c] /\ ~watching'[c]
     THEN /\ registered' = [registered EXCEPT ![c] = FALSE]
          /\ destroyed' = [destroyed EXCEPT ![c] = TRUE]
          /\ UNCHANGED failed
     ELSE failed' = TRUE /\ UNCHANGED <<registered, destroyed>>
  /\ UNCHANGED ups

(* A loop runs the oldest functor of its queue. *)
Dequeue(l, f) ==
  /\ Handling(l) /\ queue[l] # <<>> /\ Head(queue[l]) = f
Dropped(l) == [queue EXCEPT ![l] = Tail(@)]

(* start() binds listen() to the raw pointer of the Acceptor. *)
RunListen ==
  /\ Dequeue(0, <<"listen">>)
  /\ queue' = Dropped(0)
  /\ IF serverPc = "alive" THEN Listen /\ UNCHANGED dangling
     ELSE dangling' = TRUE /\ UNCHANGED accepting
  /\ UNCHANGED <<poolVars, starting, connections_, conns, loop_, loops, serverPc, failed>>

RunConnectEstablished(l, c) ==
  /\ Dequeue(l, <<"connectEstablished", c>>)
  /\ queue' = Dropped(l)
  /\ IF state_[c] = "kConnecting" THEN Established(c) /\ UNCHANGED failed
     ELSE failed' = TRUE /\ UNCHANGED <<state_, watching, registered, ups>>
  /\ UNCHANGED <<poolVars, accepting, starting, connections_, loop_, loops, serverPc, dangling, downs, destroyed>>

RunConnectDestroyed(l, c) ==
  /\ Dequeue(l, <<"connectDestroyed", c>>)
  /\ queue' = Dropped(l)
  /\ ConnectDestroyed(c)
  /\ UNCHANGED <<poolVars, accepting, starting, connections_, loop_, loops, serverPc, dangling>>

RunRemoveConnection(c) ==
  /\ Dequeue(0, <<"removeConnectionInLoop", c>>)
  /\ IF serverPc = "alive"
     THEN RemoveConnectionInLoop(c, Dropped(0)) /\ UNCHANGED dangling
     ELSE dangling' = TRUE /\ queue' = Dropped(0) /\ UNCHANGED <<connections_, failed>>
  /\ UNCHANGED <<poolVars, accepting, starting, conns, loop_, loops, serverPc>>

-----------------------------------------------------------------------------
(* ~TcpServer() in the base thread.                                        *)
ServerDtor ==
  /\ Works /\ serverPc = "alive" /\ acceptPc = "idle"
  /\ serverPc' = "destroying"
  /\ UNCHANGED <<poolVars, accepting, starting, connections_, conns, loop_, queue, loops, failed, dangling>>

(* The body: connectDestroyed() is run in the loop of each connection. *)
ServerDtorConn(c) ==
  /\ Works /\ serverPc = "destroying"
  /\ c \in connections_
  /\ connections_' = connections_ \ {c}
  /\ IF loop_[c] = baseLoop_
     THEN ConnectDestroyed(c) /\ UNCHANGED queue
     ELSE Enqueue(loop_[c], <<"connectDestroyed", c>>) /\ UNCHANGED <<conns, failed>>
  /\ UNCHANGED <<poolVars, accepting, starting, loop_, loops, serverPc, dangling>>

(* Then threadPool_: ~EventLoopThread() makes each loop quit and joins its *)
(* thread before the next.                                                 *)
ServerDtorQuit(l) ==
  /\ Works /\ serverPc = "destroying" /\ connections_ = {}
  /\ l \in 1 .. Len(loops_) /\ ~quit_[l]
  /\ \A k \in 1 .. l - 1 : ~running[k]
  /\ quit_' = [quit_ EXCEPT ![l] = TRUE]
  /\ UNCHANGED <<poolVars, accepting, starting, connections_, conns, loop_, queue, running, serverPc, failed,
                 dangling>>

(* loop() returns when it tests quit_; what is still queued is destroyed   *)
(* with the EventLoop.                                                     *)
LoopExit(l) ==
  /\ Works /\ running[l] /\ quit_[l]
  /\ running' = [running EXCEPT ![l] = FALSE]
  /\ queue' = [queue EXCEPT ![l] = <<>>]
  /\ UNCHANGED <<poolVars, accepting, starting, connections_, conns, loop_, quit_, serverPc, failed, dangling>>

(* ~Acceptor() comes last. *)
ServerDtorDone ==
  /\ Works /\ serverPc = "destroying" /\ connections_ = {}
  /\ \A l \in 1 .. Len(loops_) : ~running[l]
  /\ serverPc' = "gone"
  /\ idleFd_' = FALSE
  /\ UNCHANGED <<poolVars, listenning_, acceptPc, backlog, others, refused, taken, starting, connections_, conns, loop_, queue, loops, failed, dangling>>

LoopStep(l) ==
  \/ l = 0 /\ (RunListen \/ \E c \in Conns : RunRemoveConnection(c))
  \/ \E c \in Conns : RunConnectEstablished(l, c) \/ RunConnectDestroyed(l, c)

TSNext ==
  \/ Start \/ StartListen \/ OtherStart
  \/ \E c \in Conns : NewConnection(c) \/ HandleClose(c) \/ Shutdown(c) \/ ServerDtorConn(c)
  \/ Outside \/ Refuse
  \/ ServerDtor \/ ServerDtorDone
  \/ \E l \in Loops : LoopStep(l) \/ ServerDtorQuit(l) \/ LoopExit(l)

TSSpec == TSInit /\ [][TSNext]_tsvars

(* Every loop goes on with the functors of its queue; an iteration of the  *)
(* base loop runs them however often handleRead() is called in between.    *)
TSFairSpec ==
  /\ TSSpec
  /\ WF_tsvars(Refuse \/ \E c \in Conns : NewConnection(c))
  /\ SF_tsvars(LoopStep(0)) /\ \A l \in Loops \ {0} : WF_tsvars(LoopStep(l))

-----------------------------------------------------------------------------
(* While the server lives no assert() of the chain connectEstablished() -  *)
(* handleClose() - removeConnectionInLoop() - connectDestroyed() fails,    *)
(* whichever loops the steps run in.                                       *)
NoAssertWhileAlive == Lives => ~failed

(* connections_ holds a connection from newConnection() until the base     *)
(* loop has processed its close: no connection that is up is missing, none *)
(* that was removed lingers.                                               *)
MapMatches ==
  Lives =>
    \A c \in Conns :
      c \in connections_ <=>
        \/ state_[c] \in {"kConnecting", "kConnected", "kDisconnecting"}
        \/ \E i \in 1 .. Len(queue[0]) : queue[0][i] = <<"removeConnectionInLoop", c>>

(* The connection callback says UP once and DOWN once, in this order, and  *)
(* both before the connection is destroyed, whichever of close and server  *)
(* destructor ends it.                                                     *)
UpDownOnce ==
  \A c \in Conns : ups[c] <= 1 /\ downs[c] <= ups[c] /\ (destroyed[c] => downs[c] = 1)

Closing == \E c \in Conns : state_[c] = "kDisconnected" /\ ~destroyed[c]

(* A connection that closed is destroyed, through its own loop, the base   *)
(* loop and its own loop again, unless the server goes first.              *)
ClosedIsDestroyed == Closing ~> (~Closing \/ ~Lives \/ ~Works)

(* A client that connects while the descriptors are used up is closed at   *)
(* once, not left waiting, unless another thread took the place that       *)
(* handleRead() made.                                                      *)
ClientIsServed ==
  (backlog # {}) ~> (backlog = {} \/ taken \/ ~Lives \/ ~Works)

(* The server keeps track of its connections over the threads: no          *)
(* assertion of the chain fails, connections_ holds those that are up, and *)
(* each goes up and down once.                                             *)
ConnectionsTracked == TSTypeOK /\ NoAssertWhileAlive /\ MapMatches /\ UpDownOnce
=============================================================================
