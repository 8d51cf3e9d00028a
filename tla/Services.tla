------------------------------- MODULE Services -------------------------------
(***************************************************************************)
(* The users of a TcpConnection's messages, one at a time: a Buffer on its *)
(* own, an HTTP server (with or without Inspector), an RPC channel.        *)
(***************************************************************************)
EXTENDS HttpServer, RpcChannel

VARIABLE service         \* "buffer", "http" or "rpc"

svars == <<service, bufferVars, inspectorVars, httpVars, rpcVars>>

(* Paths of the inspector's commands and others of up to three pieces.     *)
Chars == {"/", "p", "i"}
SomePaths == {<<"/">> \o s : s \in UNION {[1 .. n -> Chars] : n \in 0 .. 4}}
Proc == {<<<<"p">>, <<"i">>>>, <<<<"p">>, <<"p", "i">>>>}
Req(method, path, version, connection) ==
  [method |-> method, path |-> path, version |-> version, connection |-> connection]
Pid == <<"/", "p", "/", "i">>
SomeRequests ==
  {Req("GET", Pid, "kHttp11", ""), Req("GET", <<"/", "i">>, "kHttp11", "close"),
   Req("PUT", <<"/">>, "kHttp10", ""), Req("POST", <<"/">>, "kHttp10", "Keep-Alive"),
   Req("PATCH", Pid, "kHttp11", ""), Req("GET", Pid, "kUnknown", "")}
SomeScripts ==
  {<<Req("GET", p, "kHttp11", "")>> : p \in SomePaths}
    \cup (SomeRequests \X SomeRequests) \cup (SomeRequests \X {Req("GET", Pid, "kHttp11", "")} \X SomeRequests)

SomeRegistered == [Callers -> BOOLEAN]

Idle ==
  /\ script = <<>> /\ pipelined = FALSE /\ httpCallback_ = "default" /\ arrived = 0 /\ input = <<>>
  /\ state_ = "kExpectRequestLine" /\ request_ = NewRequest /\ open = FALSE /\ asserted = FALSE /\ responses = <<>>

ServicesInit ==
  /\ service \in {"buffer", "http", "rpc"}
  /\ BufferInit /\ InspectorInit
  /\ IF service = "http" THEN HttpInit ELSE Idle
  /\ IF service = "rpc" THEN RpcInit ELSE RpcInit /\ known = [t \in Callers |-> TRUE]

BufferStep == service = "buffer" /\ BufferNext /\ UNCHANGED <<service, inspectorVars, httpVars, rpcVars>>
HttpStep == service = "http" /\ HttpNext /\ UNCHANGED <<service, bufferVars, rpcVars>>
RpcStep == service = "rpc" /\ RpcNext /\ UNCHANGED <<service, bufferVars, inspectorVars, httpVars>>

ServicesSpec ==
  /\ ServicesInit /\ [][BufferStep \/ HttpStep \/ RpcStep]_svars
  /\ (service = "rpc" => RpcFairness)

(* The types of the three services; every outstanding call has an id that  *)
(* CallMethod() gave out.                                                  *)
ServicesTypeOK == BufferTypeOK /\ (service = "http" => HttpTypeOK) /\ outstandings_ \subseteq (1 .. id_) \X Callers

(* The buffer holds the bytes and the integers that were put in.           *)
BufferHolds == ServicesTypeOK /\ HoldsTheBytes /\ IntsSurvive

(* onRequest() answers every request by its own content, in order, and as  *)
(* soon as it is complete unless requests are pipelined; its assertion     *)
(* fails only after a request that was refused.                            *)
HttpAnswers == AnsweredInOrder /\ AnsweredAtOnce /\ AssertsOnlyWhenRefused

=============================================================================
