------------------------------ MODULE Inspector ------------------------------
(***************************************************************************)
(* muduo::net::Inspector: the constructor, in the main thread, registers   *)
(* the commands of ProcessInspector and has the loop start the HTTP server *)
(* 0.1 s later; the server then looks commands up by path.  A path is a    *)
(* sequence of characters.                                                 *)
(***************************************************************************)
EXTENDS Integers, SequencesExt, FiniteSetsExt

CONSTANT
  ProcCommands           \* the commands registerCommands() adds: <<module, command>>

VARIABLES
  commands_,             \* the commands added
  ctorPc,                \* "registering", "scheduled": runAfter() called
  started                \* server_.start() has run

inspectorVars == <<commands_, ctorPc, started>>

InspectorInit == commands_ = {} /\ ctorPc = "registering" /\ started = FALSE

(* add() *)
Add(c) ==
  /\ ctorPc = "registering" /\ c \in ProcCommands \ commands_
  /\ commands_' = commands_ \cup {c}
  /\ UNCHANGED <<ctorPc, started>>

(* A bug: the server is started before the commands are there. *)
Schedule_First ==
  /\ ctorPc = "registering"
  /\ ctorPc' = (IF commands_ = ProcCommands THEN "scheduled" ELSE ctorPc)
  /\ started' = TRUE
  /\ UNCHANGED commands_

(* The end of the constructor: loop->runAfter(0.1, start). *)
Schedule ==
  /\ ctorPc = "registering" /\ commands_ = ProcCommands
  /\ ctorPc' = "scheduled"
  /\ UNCHANGED <<commands_, started>>

(* start(), from the timer. *)
StartServer ==
  /\ ctorPc = "scheduled" /\ ~started
  /\ started' = TRUE
  /\ UNCHANGED <<commands_, ctorPc>>

(* The position of the first '/' of str from start on, 0 if there is none. *)
FindSlash(str, start) ==
  LET found == {i \in start .. Len(str) : str[i] = "/"} IN IF found = {} THEN 0 ELSE Min(found)

(* split() *)
Split(str) ==
  LET from[start \in 1 .. Len(str) + 1] ==
        LET pos == FindSlash(str, start)
        IN  IF pos = 0 THEN IF start <= Len(str) THEN <<SubSeq(str, start, Len(str))>> ELSE <<>>
            ELSE (IF pos > start THEN <<SubSeq(str, start, pos - 1)>> ELSE <<>>) \o from[pos + 1]
  IN  from[1]

(* onRequest(): the status of the response. *)
InspectorOnRequest(path) ==
  LET parts == Split(path)
  IN  IF path = <<"/">> \/ (Len(parts) >= 2 /\ <<parts[1], parts[2]>> \in commands_) THEN 200 ELSE 404

(* Reference: the pieces of a path are its maximal runs without '/'.       *)
Pieces(str) ==
  LET Run(i, j) == \A k \in i .. j : str[k] # "/"
      Maximal(i, j) == Run(i, j) /\ (i > 1 => str[i - 1] = "/") /\ (j < Len(str) => str[j + 1] = "/")
      starts == SetToSortSeq({i \in 1 .. Len(str) : \E j \in i .. Len(str) : Maximal(i, j)}, <)
  IN  [n \in DOMAIN starts |->
         LET i == starts[n] IN SubSeq(str, i, CHOOSE j \in i .. Len(str) : Maximal(i, j))]
=============================================================================
