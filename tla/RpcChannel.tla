------------------------------ MODULE RpcChannel ------------------------------
(***************************************************************************)
(* muduo::net::RpcChannel and RpcCodec: threads of a client call methods   *)
(* of a server over one connection.  One of the threads is the one the     *)
(* client's loop runs in.  A frame is FrameLen pieces <<type, id, caller,  *)
(* n>>, the first of which holds the length; the caller stands for the     *)
(* request's contents and the response to it.  Both ends send only what    *)
(* RpcCodec::send() makes, so that parse() finds no error: for a frame it  *)
(* refuses, onMessage() calls errorCallback_ again and again, as it        *)
(* neither retrieves the frame nor breaks, and this is left out.           *)
(***************************************************************************)
EXTENDS Integers, SequencesExt, FiniteSetsExt

CONSTANTS
  Callers, LoopCaller,   \* the threads; the one of the loop
  Registered,            \* functions: whose calls name a registered service and method
  FrameLen

ASSUME RpcAssumption == LoopCaller \in Callers /\ FrameLen \in Nat \ {0}

VARIABLES
  id_,                   \* the last id given out
  rpcPc, callId,         \* where a caller is, and the id of its call
  known,                 \* whether the server has the service it calls
  outstandings_,         \* <<id, caller>>
  toServer, atServer,    \* pieces on the way to the server, and in its buffer
  toClient, atClient,
  serving,               \* <<id, caller>>: closures the service has not run
  completed,             \* <<caller, response>>: closures run at the client
  unmatched              \* callers whose response was not found in outstandings_

rpcVars == <<id_, rpcPc, callId, known, outstandings_, toServer, atServer, toClient, atClient,
             serving, completed, unmatched>>

RpcInit ==
  /\ id_ = 0 /\ rpcPc = [t \in Callers |-> "idle"] /\ callId = [t \in Callers |-> 0]
  /\ known \in Registered
  /\ outstandings_ = {} /\ serving = {} /\ completed = {} /\ unmatched = {}
  /\ toServer = <<>> /\ atServer = <<>> /\ toClient = <<>> /\ atClient = <<>>

Frame(type, id, t) == [n \in 1 .. FrameLen |-> <<type, id, t, n>>]

(* A bug: a frame is taken when there is a byte behind it.                 *)
Frames_Greater(s) == (Len(s) - 1) \div FrameLen

(* RpcCodec::onMessage(): the complete frames at the front of a buffer.    *)
Frames(s) == Len(s) \div FrameLen

Messages(s) == [k \in 1 .. Frames(s) |-> s[(k - 1) * FrameLen + 1]]
Remainder(s) == SubSeq(s, Frames(s) * FrameLen + 1, Len(s))

-----------------------------------------------------------------------------
(* CallMethod() up to the id. *)
CallMethod(t) ==
  /\ rpcPc[t] = "idle"
  /\ id_' = id_ + 1
  /\ callId' = [callId EXCEPT ![t] = id_ + 1]
  /\ rpcPc' = [rpcPc EXCEPT ![t] = "send"]
  /\ UNCHANGED <<known, outstandings_, toServer, atServer, toClient, atClient, serving, completed, unmatched>>

(* RpcCodec::send(): the request is on its way before it is outstanding.   *)
SendRequest(t) ==
  /\ rpcPc[t] = "send"
  /\ toServer' = toServer \o Frame("REQUEST", callId[t], t)
  /\ rpcPc' = [rpcPc EXCEPT ![t] = "register"]
  /\ UNCHANGED <<id_, callId, known, outstandings_, atServer, toClient, atClient, serving, completed, unmatched>>

(* outstandings_[id] = out *)
RegisterCall(t) ==
  /\ rpcPc[t] = "register"
  /\ outstandings_' = {o \in outstandings_ : o[1] # callId[t]} \cup {<<callId[t], t>>}
  /\ rpcPc' = [rpcPc EXCEPT ![t] = "called"]
  /\ UNCHANGED <<id_, callId, known, toServer, atServer, toClient, atClient, serving, completed, unmatched>>

(* onRpcMessage() at the server for n more pieces: a request for a         *)
(* registered method is handed to the service, others are dropped.         *)
ServerOnMessage(n) ==
  LET s == atServer \o SubSeq(toServer, 1, n)
      calls == {m \in Range(Messages(s)) : known[m[3]]}
  IN  /\ n <= Len(toServer)
      /\ toServer' = SubSeq(toServer, n + 1, Len(toServer))
      /\ atServer' = Remainder(s)
      /\ serving' = serving \cup {<<m[2], m[3]>> : m \in calls}
      /\ UNCHANGED <<id_, rpcPc, callId, known, outstandings_, toClient, atClient, completed, unmatched>>

(* doneCallback(), which the service runs when it likes.                   *)
DoneCallback(call) ==
  /\ call \in serving
  /\ serving' = serving \ {call}
  /\ toClient' = toClient \o Frame("RESPONSE", call[1], call[2])
  /\ UNCHANGED <<id_, rpcPc, callId, known, outstandings_, toServer, atServer, atClient, completed, unmatched>>

(* onRpcMessage() at the client for one response.                          *)
OnRpcMessage(m, c) ==
  LET found == {o \in c.out : o[1] = m[2]}
  IN  IF found = {} THEN [c EXCEPT !.unmatched = @ \cup {m[3]}]
      ELSE [c EXCEPT !.out = @ \ found, !.completed = @ \cup {<<o[2], m[3]>> : o \in found}]

(* onMessage() at the client, in the loop's thread when that is not in     *)
(* CallMethod().                                                           *)
ClientOnMessage(n) ==
  LET s == atClient \o SubSeq(toClient, 1, n)
      c == FoldLeft(LAMBDA acc, m : OnRpcMessage(m, acc),
                    [out |-> outstandings_, completed |-> completed, unmatched |-> unmatched], Messages(s))
  IN  /\ n <= Len(toClient) /\ rpcPc[LoopCaller] \in {"idle", "called"}
      /\ toClient' = SubSeq(toClient, n + 1, Len(toClient))
      /\ atClient' = Remainder(s)
      /\ outstandings_' = c.out /\ completed' = c.completed /\ unmatched' = c.unmatched
      /\ UNCHANGED <<id_, rpcPc, callId, known, toServer, atServer, serving>>

Call(t) == SendRequest(t) \/ RegisterCall(t)
ServerStep == \E n \in 1 .. Len(toServer) : ServerOnMessage(n)
ClientStep == \E n \in 1 .. Len(toClient) : ClientOnMessage(n)
Serve(t) == \E call \in serving : call[2] = t /\ DoneCallback(call)

RpcNext == ServerStep \/ ClientStep \/ \E t \in Callers : CallMethod(t) \/ Call(t) \/ Serve(t)

(* The loops run, callers go on, the service runs every closure.           *)
RpcFairness ==
  /\ WF_rpcVars(ServerStep) /\ WF_rpcVars(ClientStep)
  /\ \A t \in Callers : WF_rpcVars(Call(t)) /\ WF_rpcVars(Serve(t))

-----------------------------------------------------------------------------
(* A call to a registered method completes, with the response to itself,   *)
(* for all interleavings of calls and responses in any order, unless       *)
(* onRpcMessage() drops its response: one that overtook CallMethod()       *)
(* between its send() and the assignment to outstandings_, which does not  *)
(* happen in the loop's own thread.                                        *)
RpcCompletes ==
  /\ [](\A c \in completed : c[1] = c[2])
  /\ [][\A t \in unmatched' \ unmatched : t # LoopCaller /\ rpcPc[t] = "register"]_rpcVars
  /\ \A t \in Callers :
       (rpcPc[t] = "send" /\ known[t]) ~> (t \in unmatched \/ \E c \in completed : c[1] = t)
=============================================================================
