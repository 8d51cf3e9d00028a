------------------------------- MODULE Acceptor -------------------------------
(***************************************************************************)
(* muduo::net::Acceptor: the listening socket of a TcpServer, its spare    *)
(* descriptor idleFd_, and the descriptor table of the process, which      *)
(* other threads use too.  The errors of accept() that                     *)
(* sockets::accept() calls temporary change nothing, except EMFILE; the    *)
(* others abort the process and are left out.                              *)
(***************************************************************************)
EXTENDS Naturals, FiniteSets

CONSTANTS
  Conns,        \* the connections that clients make
  MaxFds,       \* descriptors for idleFd_, the connections and other threads
  MaxOthers     \* bound: descriptors other threads hold at a time

ASSUME AcceptorAssumption == MaxFds \in Nat \ {0} /\ MaxOthers \in Nat

VARIABLES
  listenning_,
  idleFd_,          \* it holds a descriptor
  acceptPc,         \* handleRead() after EMFILE: "accept", "open", else "idle"
  backlog,          \* kernel: clients that wait to be accepted
  others,           \* descriptors of other threads
  refused, taken    \* history: clients closed for want of a descriptor; a descriptor was
                    \* taken by another thread in the middle of handleRead()

accepting == <<listenning_, idleFd_, acceptPc, backlog, others, refused, taken>>

ATypeOK ==
  /\ listenning_ \in BOOLEAN /\ idleFd_ \in BOOLEAN
  /\ acceptPc \in {"idle", "accept", "open"}
  /\ backlog \subseteq Conns /\ refused \subseteq Conns
  /\ others \in 0 .. MaxOthers /\ taken \in BOOLEAN

AInit ==
  /\ listenning_ = FALSE /\ idleFd_ = TRUE /\ acceptPc = "idle"
  /\ backlog = {} /\ refused = {} /\ others = 0 /\ taken = FALSE

(* listen(), and a client that connects. *)
Listen == listenning_' = TRUE /\ UNCHANGED <<idleFd_, acceptPc, backlog, others, refused, taken>>

ClientConnects(c) ==
  /\ listenning_ /\ c \notin refused \cup backlog
  /\ backlog' = backlog \cup {c}
  /\ UNCHANGED <<listenning_, idleFd_, acceptPc, others, refused, taken>>

(* A client that waits gives up: accept() no longer finds it. *)
ClientAborts(c) ==
  /\ c \in backlog
  /\ backlog' = backlog \ {c}
  /\ refused' = refused \cup {c}
  /\ UNCHANGED <<listenning_, idleFd_, acceptPc, others, taken>>

(* n connections hold descriptors. *)
Full(n) == n + others + (IF idleFd_ THEN 1 ELSE 0) >= MaxFds

(* handleRead() up to the new-connection callback. *)
Accept(c, n) ==
  /\ acceptPc = "idle" /\ c \in backlog /\ ~Full(n)
  /\ backlog' = backlog \ {c}
  /\ UNCHANGED <<listenning_, idleFd_, acceptPc, others, refused, taken>>

(* A bug: the spare descriptor is kept while accept() is tried again. *)
AcceptFull_KeepsIdle(n) ==
  /\ acceptPc = "idle" /\ backlog # {} /\ Full(n)
  /\ acceptPc' = "accept"
  /\ UNCHANGED <<listenning_, idleFd_, backlog, others, refused, taken>>

(* handleRead() that meets EMFILE: the spare descriptor is closed, *)
AcceptFull(n) ==
  /\ acceptPc = "idle" /\ backlog # {} /\ Full(n)
  /\ idleFd_' = FALSE
  /\ acceptPc' = "accept"
  /\ UNCHANGED <<listenning_, backlog, others, refused, taken>>

(* one client accepted and closed in its place, *)
AcceptAndClose(n) ==
  /\ acceptPc = "accept"
  /\ acceptPc' = "open"
  /\ IF backlog # {} /\ ~Full(n)
     THEN \E c \in backlog : backlog' = backlog \ {c} /\ refused' = refused \cup {c}
     ELSE UNCHANGED <<backlog, refused>>
  /\ UNCHANGED <<listenning_, idleFd_, others, taken>>

(* and the spare one opened again, if there still is room. *)
OpenIdle(n) ==
  /\ acceptPc = "open"
  /\ idleFd_' = ~Full(n)
  /\ acceptPc' = "idle"
  /\ UNCHANGED <<listenning_, backlog, others, refused, taken>>

(* Other threads open and close descriptors. *)
OthersOpen(n) ==
  /\ others < MaxOthers /\ ~Full(n)
  /\ others' = others + 1
  /\ taken' = (taken \/ acceptPc # "idle")
  /\ UNCHANGED <<listenning_, idleFd_, acceptPc, backlog, refused>>

OthersClose ==
  /\ others > 0
  /\ others' = others - 1
  /\ UNCHANGED <<listenning_, idleFd_, acceptPc, backlog, refused, taken>>
=============================================================================
