------------------------------ MODULE HttpServer ------------------------------
(***************************************************************************)
(* muduo::net::HttpServer with HttpContext: one connection, whose client   *)
(* sends a script of requests that arrives in pieces of any size.  The     *)
(* callback is the default one or an Inspector's.  The input buffer is the *)
(* sequence of bytes it holds (see Buffer).  A symbol stands for a word;   *)
(* a request line is two words.                                            *)
(***************************************************************************)
EXTENDS Buffer, Inspector

CONSTANTS
  Scripts,               \* requests a client may make on one connection
  Pipelining             \* whether clients send without waiting: a set of BOOLEAN

Methods == {"GET", "POST", "HEAD", "PUT", "DELETE"}

VARIABLES
  script, pipelined, httpCallback_,
  arrived,               \* words of the script that have arrived
  input,                 \* the input buffer
  state_,                \* "kExpectRequestLine", "kExpectHeaders", "kGotAll"
  request_,              \* [method, path, version, connection]
  open,                  \* shutdown() has not been called
  asserted,              \* the assert() of setMethod() failed
  responses              \* [status, close], as sent

httpVars ==
  <<script, pipelined, httpCallback_, arrived, input, state_, request_, open, asserted, responses>>

NewRequest == [method |-> "kInvalid", path |-> <<>>, version |-> "kUnknown", connection |-> ""]

(* The words of a request. *)
Words(r) ==
  <<<<r.method, r.path>>, <<r.version>>, CR, LF>>
    \o (IF r.connection = "" THEN <<>> ELSE <<<<"Connection", r.connection>>, CR, LF>>)
    \o <<CR, LF>>
Stream == FlattenSeq([i \in DOMAIN script |-> Words(script[i])])
(* The words of the first k requests. *)
Upto(k) == Len(FlattenSeq([i \in 1 .. k |-> Words(script[i])]))
Complete == Max({k \in 0 .. Len(script) : Upto(k) <= arrived})

HttpInit ==
  /\ script \in Scripts /\ pipelined \in Pipelining /\ httpCallback_ \in {"default", "inspector"}
  /\ arrived = 0 /\ input = <<>> /\ responses = <<>> /\ open = TRUE /\ asserted = FALSE
  /\ state_ = "kExpectRequestLine" /\ request_ = NewRequest

(* processRequestLine(): a method that setMethod() does not know stands    *)
(* also for a line without a space, the version "kUnknown" also for one    *)
(* with a single space.  A line refused for its version leaves its method  *)
(* behind.                                                                 *)
ProcessRequestLine(line, r) ==
  LET begun == [r EXCEPT !.method = line[1][1], !.path = line[1][2]]
  IN  IF line[1][1] \notin Methods THEN [ok |-> FALSE, request |-> r]
      ELSE IF line[2][1] = "kUnknown" THEN [ok |-> FALSE, request |-> begun]
      ELSE [ok |-> TRUE, request |-> [begun EXCEPT !.version = line[2][1]]]

(* parseRequest(): consumes lines until one is missing or refused, or the  *)
(* empty line was found.  setMethod() asserts that there is no method yet. *)
RECURSIVE ParseRequest(_)
ParseRequest(c) ==
  LET crlf == FindCRLF(c.input)
      line == SubSeq(c.input, 1, crlf - 1)
      rest == SubSeq(c.input, crlf + 2, Len(c.input))
      parsed == ProcessRequestLine(line, c.request)
  IN  IF crlf = 0 \/ ~c.ok \/ c.state = "kGotAll" THEN c
      ELSE IF c.state = "kExpectRequestLine" /\ c.request.method # "kInvalid"
      THEN [c EXCEPT !.asserted = TRUE]
      ELSE IF c.state = "kExpectRequestLine"
      THEN ParseRequest([c EXCEPT !.ok = parsed.ok, !.request = parsed.request,
                                  !.input = IF parsed.ok THEN rest ELSE @,
                                  !.state = IF parsed.ok THEN "kExpectHeaders" ELSE @])
      ELSE IF line # <<>>
      THEN ParseRequest([c EXCEPT !.request.connection = line[1][2], !.input = rest])
      ELSE [c EXCEPT !.state = "kGotAll", !.input = rest]

(* HttpContext::reset(): HttpRequest::swap() leaves version_ alone.        *)
Reset(r) == [NewRequest EXCEPT !.version = r.version]

DefaultHttpCallback(close) == [status |-> 404, close |-> TRUE]

(* onRequest(): the response. *)
OnRequest(r) ==
  LET close == r.connection = "close" \/ (r.version = "kHttp10" /\ r.connection # "Keep-Alive")
  IN  IF httpCallback_ = "default" THEN DefaultHttpCallback(close)
      ELSE [status |-> InspectorOnRequest(r.path), close |-> close]

(* send() does nothing on a connection that is not kConnected; the         *)
(* response that closes is followed by shutdown().                         *)
Send(resp) ==
  /\ responses' = IF open THEN Append(responses, resp) ELSE responses
  /\ open' = (open /\ ~resp.close)

(* onMessage() with n more words in the buffer. *)
OnMessage(n) ==
  LET c == ParseRequest([input |-> input \o SubSeq(Stream, arrived + 1, arrived + n),
                         state |-> state_, request |-> request_, ok |-> TRUE, asserted |-> FALSE])
  IN  /\ (httpCallback_ = "inspector" => started) /\ ~asserted
      /\ arrived' = arrived + n
      /\ input' = c.input /\ asserted' = c.asserted
      /\ \/ /\ ~c.ok
            /\ Send([status |-> 400, close |-> TRUE])
            /\ state_' = c.state /\ request_' = c.request
         \/ /\ c.state = "kGotAll"
            /\ Send(OnRequest(c.request))
            /\ state_' = "kExpectRequestLine" /\ request_' = Reset(c.request)
         \/ /\ c.ok /\ c.state # "kGotAll"   \* or asserted
            /\ state_' = c.state /\ request_' = c.request
            /\ UNCHANGED <<open, responses>>
      /\ UNCHANGED <<script, pipelined, httpCallback_>>

(* What a client may send: everything, or the request after those answered *)
(* and, once the server closed, the rest of the one it is sending.         *)
MaySend ==
  IF pipelined THEN Len(Stream)
  ELSE IF open THEN Upto(Min({Len(responses) + 1, Len(script)}))
  ELSE Min({Upto(k) : k \in {i \in 0 .. Len(script) : Upto(i) >= arrived}})

HttpNext ==
  \/ (\E n \in 1 .. MaySend - arrived : OnMessage(n)) /\ UNCHANGED inspectorVars
  \/ ((\E c \in ProcCommands : Add(c)) \/ Schedule \/ StartServer) /\ UNCHANGED httpVars

-----------------------------------------------------------------------------
(* Reference: the response to a request, from that request alone.          *)
Answer(r) ==
  LET parts == Pieces(r.path)
      found == r.path = <<"/">> \/ (Len(parts) >= 2 /\ SubSeq(parts, 1, 2) \in ProcCommands)
  IN  IF r.method \notin Methods \/ r.version = "kUnknown" THEN [status |-> 400, close |-> TRUE]
      ELSE IF httpCallback_ = "default" THEN [status |-> 404, close |-> TRUE]
      ELSE [status |-> IF found THEN 200 ELSE 404,
            close |-> IF r.version = "kHttp10" THEN r.connection # "Keep-Alive" ELSE r.connection = "close"]
Expected ==
  LET answers == [i \in DOMAIN script |-> Answer(script[i])]
      closing == {i \in DOMAIN answers : answers[i].close}
  IN  IF closing = {} THEN answers ELSE SubSeq(answers, 1, Min(closing))

HttpTypeOK ==
  /\ commands_ \subseteq ProcCommands /\ ctorPc \in {"registering", "scheduled"} /\ started \in BOOLEAN
  /\ state_ \in {"kExpectRequestLine", "kExpectHeaders"} /\ open \in BOOLEAN
  /\ request_.method \in Methods \cup {"kInvalid"}

(* However the stream is cut into pieces, the responses are those of the   *)
(* requests in order, each decided by its own request and by commands      *)
(* registered before the server started, and none follows one that closes. *)
AnsweredInOrder == IsPrefix(responses, Expected)

(* A client that waits for each response gets it with the last byte of the *)
(* request: nothing is left in the buffer, whatever pieces it came in.     *)
AnsweredAtOnce == pipelined \/ Len(responses) >= Min({Complete, Len(Expected)})

(* setMethod() finds a method already set, and asserts, only on a          *)
(* connection that is shut down, when something arrives after the four     *)
(* words of a request line with a method it knows and no valid version.    *)
AssertsOnlyWhenRefused ==
  asserted =>
    /\ ~open
    /\ \E i \in DOMAIN script :
         script[i].method \in Methods /\ script[i].version = "kUnknown" /\ arrived > Upto(i - 1) + 4

=============================================================================
