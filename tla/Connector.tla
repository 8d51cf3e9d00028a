------------------------------ MODULE Connector ------------------------------
(***************************************************************************)
(* muduo::net::Connector and the EventLoop that runs it: each iteration    *)
(* handles the events poll() returned, then the functors queued so far.    *)
(* The callback on success is the user's: TcpClient.  A failed assert()    *)
(* sets failed, a call on a destroyed object sets dangling.                *)
(***************************************************************************)
EXTENDS Integers, Sequences, FiniteSetsExt

CONSTANTS
  Fds,                                    \* bound: descriptors
  kInitRetryDelayMs, kMaxRetryDelayMs

ASSUME ConnectorAssumption ==
  /\ IsFiniteSet(Fds) /\ Fds \subseteq Nat \ {0}
  /\ kInitRetryDelayMs \in Nat \ {0} /\ kMaxRetryDelayMs \in Nat
  /\ kInitRetryDelayMs <= kMaxRetryDelayMs

VARIABLES
  connect_, state_, retryDelayMs_,
  channel_, watching,        \* the fd of the Channel (0: NULL); the poller knows it
  timers,                    \* pending retry timers: each holds a shared_ptr
  gaveUp,                    \* history: the last connect() met a final error
  owner, hack,               \* the TcpClient and its one-second timer hold a shared_ptr
  open,                      \* kernel: the open sockets
  phase, active,             \* the loop: "events" or "functors"; events left to handle
  pending, batch,            \* pendingFunctors_, and those being run
  failed, dangling,
  orphaned                   \* the poller is left with a channel that was deleted

ctor == <<connect_, state_, retryDelayMs_, channel_, watching, timers, gaveUp>>
loop == <<phase, active, batch>>
flags == <<failed, dangling, orphaned>>

kDisconnected == "kDisconnected"
kConnecting == "kConnecting"
kConnected == "kConnected"

CTypeOK ==
  /\ connect_ \in BOOLEAN /\ state_ \in {kDisconnected, kConnecting, kConnected}
  /\ retryDelayMs_ \in kInitRetryDelayMs .. kMaxRetryDelayMs
  /\ channel_ \in Fds \cup {0} /\ watching \in BOOLEAN
  /\ timers \in Nat /\ gaveUp \in BOOLEAN /\ owner \in BOOLEAN /\ hack \in BOOLEAN
  /\ open \subseteq Fds
  /\ failed \in BOOLEAN /\ dangling \in BOOLEAN /\ orphaned \in BOOLEAN

CInit ==
  /\ connect_ = FALSE /\ state_ = kDisconnected /\ retryDelayMs_ = kInitRetryDelayMs
  /\ channel_ = 0 /\ watching = FALSE /\ timers = 0 /\ gaveUp = FALSE
  /\ owner = TRUE /\ hack = FALSE /\ open = {}
  /\ phase = "functors" /\ active = {} /\ pending = <<>> /\ batch = <<>>
  /\ failed = FALSE /\ dangling = FALSE /\ orphaned = FALSE

(* ~Connector() asserts that channel_ is NULL. *)
Alive == owner \/ hack \/ timers > 0
Works == ~failed /\ ~dangling /\ ~orphaned /\ (Alive \/ channel_ = 0)

(* Functors and events are pairs; those of the Connector name no fd. *)
Of(name) == <<name, 0>>

NewFd == Min(Fds \ open)
Queued(s, f) == \E i \in DOMAIN s : s[i] = f

NextDelay(d) == Min({2 * d, kMaxRetryDelayMs})

(* A bug: the failed socket is not closed. *)
Retry_Leaks(fd, wanted) ==
  /\ state_' = kDisconnected
  /\ IF wanted THEN timers' = timers + 1 /\ retryDelayMs_' = NextDelay(retryDelayMs_)
     ELSE UNCHANGED <<timers, retryDelayMs_>>
  /\ UNCHANGED open

(* A bug: no new attempt once the delay has reached its bound. *)
Retry_GivesUp(fd, wanted) ==
  /\ open' = open \ {fd}
  /\ state_' = kDisconnected
  /\ IF wanted /\ retryDelayMs_ < kMaxRetryDelayMs
     THEN timers' = timers + 1 /\ retryDelayMs_' = NextDelay(retryDelayMs_)
     ELSE UNCHANGED <<timers, retryDelayMs_>>

(* retry(): close the socket and, if connect_ says so (wanted), try again  *)
(* later.                                                                  *)
Retry(fd, wanted) ==
  /\ open' = open \ {fd}
  /\ state_' = kDisconnected
  /\ IF wanted THEN timers' = timers + 1 /\ retryDelayMs_' = NextDelay(retryDelayMs_)
     ELSE UNCHANGED <<timers, retryDelayMs_>>

(* connecting(): asserts that the last channel is gone. *)
Connecting(fd) ==
  /\ state_' = kConnecting
  /\ IF channel_ = 0
     THEN channel_' = fd /\ watching' = TRUE /\ open' = open \cup {fd} /\ UNCHANGED failed
     ELSE failed' = TRUE /\ UNCHANGED <<channel_, watching, open>>

(* connect() with the delay d of the next retry and n pending timers: the  *)
(* errors are in progress, worth a retry, or final.                        *)
Connect(d, n) ==
  \/ Connecting(NewFd) /\ timers' = n /\ retryDelayMs_' = d /\ gaveUp' = FALSE
  \/ /\ timers' = n + 1 /\ retryDelayMs_' = NextDelay(d) /\ gaveUp' = FALSE
     /\ state_' = kDisconnected
     /\ UNCHANGED <<channel_, watching, open, failed>>
  \/ /\ timers' = n /\ retryDelayMs_' = d /\ gaveUp' = TRUE
     /\ state_' = kDisconnected
     /\ UNCHANGED <<channel_, watching, open, failed>>

(* startInLoop() with n pending timers. *)
StartInLoop(wanted, n) ==
  IF state_ = kDisconnected /\ wanted THEN Connect(retryDelayMs_, n)
  ELSE /\ failed' = (state_ # kDisconnected) /\ timers' = n
       /\ UNCHANGED <<state_, retryDelayMs_, channel_, watching, gaveUp, open>>

(* restart(): kDisconnected, the first delay again, connect_ set. *)
RestartConnector ==
  connect_' = TRUE /\ Connect(kInitRetryDelayMs, timers)

(* A bug: stop() leaves an attempt that is under way alone. *)
StopInLoop_IfConnected(wanted, q) ==
  /\ pending' = q
  /\ UNCHANGED <<state_, watching, timers, retryDelayMs_, open>>

(* stopInLoop() with the queue q: the channel is removed at once and reset *)
(* by a functor; retry() closes the socket.                                *)
StopInLoop(wanted, q) ==
  IF state_ = kConnecting
  THEN Retry(channel_, wanted) /\ watching' = FALSE /\ pending' = Append(q, Of("resetChannel"))
  ELSE pending' = q /\ UNCHANGED <<state_, watching, timers, retryDelayMs_, open>>

(* A bug: the channel is removed but never reset. *)
RemoveAndResetChannel_NoReset ==
  watching' = FALSE /\ UNCHANGED <<pending, channel_>>

(* removeAndResetChannel(): this runs inside Channel::handleEvent(), so    *)
(* the channel itself is deleted by a functor.                             *)
RemoveAndResetChannel ==
  /\ watching' = FALSE
  /\ pending' = Append(pending, Of("resetChannel"))
  /\ UNCHANGED channel_

(* handleError(), or handleWrite() that finds SO_ERROR or a self-connect.  *)
(* After handleError() the same event may call handleWrite(), which finds  *)
(* kDisconnected and does nothing.                                         *)
HandleFailure ==
  /\ state_ = kConnecting
  /\ RemoveAndResetChannel
  /\ Retry(channel_, connect_)
  /\ UNCHANGED <<connect_, gaveUp, failed>>

(* handleWrite() of a socket that is connected; unless stop() was called   *)
(* the new-connection callback takes the socket.                           *)
HandleConnected ==
  /\ state_ = kConnecting
  /\ RemoveAndResetChannel
  /\ state_' = kConnected
  /\ open' = IF connect_ THEN open ELSE open \ {channel_}
  /\ UNCHANGED <<connect_, retryDelayMs_, timers, gaveUp, failed>>

(* An event when nothing is being connected: handleError() asserts that    *)
(* something is, handleWrite() that state_ is kDisconnected.               *)
HandleUnexpected ==
  /\ state_ # kConnecting
  /\ failed' \in {TRUE, state_ # kDisconnected}
  /\ UNCHANGED <<ctor, open, pending>>
=============================================================================
