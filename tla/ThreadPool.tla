------------------------------ MODULE ThreadPool ------------------------------
(***************************************************************************)
(* muduo::ThreadPool over muduo::Thread.  Tasks are numbered as they are   *)
(* handed to run().  A worker's calls are "created" (not started),         *)
(* "runInThread" (the test of running_), "takeTask" and "task".            *)
(***************************************************************************)
EXTENDS Monitor

VARIABLES
  tasks,               \* queue_
  running_, threads_,  \* threads_: the workers that were started
  submitted, handed       \* history: calls of run(); the tasks given to a thread

tpvars == <<tasks, running_, threads_, submitted, handed>>

TPTypeOK ==
  /\ tasks \in Seq(Nat) /\ running_ \in BOOLEAN /\ threads_ \subseteq Threads
  /\ submitted \in Nat /\ handed \in Seq(Nat)

TPInit == tasks = <<>> /\ running_ = FALSE /\ threads_ = {} /\ submitted = 0 /\ handed = <<>>

(* start(numThreads): one Thread after the other is created and started.   *)
StartThread(t) ==
  /\ Calling(t, "start")
  /\ running_' = TRUE
  /\ IF Awake("created") = {} THEN Return(t) /\ UNCHANGED threads_
     ELSE \E w \in Awake("created") : threads_' = threads_ \cup {w} /\ Goto(w, "runInThread")
  /\ UNCHANGED <<waiting, tasks, submitted, handed>>

(* run(): without threads the caller runs the task itself. *)
Run(t) ==
  /\ Calling(t, "run")
  /\ submitted' = submitted + 1
  /\ IF threads_ = {}
     THEN handed' = Append(handed, submitted') /\ UNCHANGED <<tasks, waiting>>
     ELSE tasks' = Append(tasks, submitted') /\ Notify("cond_") /\ UNCHANGED handed
  /\ Return(t)
  /\ UNCHANGED <<running_, threads_>>

(* runInThread(): while (running_), read without the mutex. *)
RunInThread(t) ==
  /\ Calling(t, "runInThread")
  /\ IF running_ THEN Goto(t, "takeTask") ELSE Return(t)
  /\ UNCHANGED <<waiting, tpvars>>

(* take(): an empty Task if the pool was stopped. *)
TakeTask(t) ==
  /\ Calling(t, "takeTask")
  /\ IF tasks = <<>> /\ running_ THEN Wait(t, "cond_") /\ UNCHANGED tpvars
     ELSE /\ IF tasks = <<>> THEN UNCHANGED <<handed, tasks>>
             ELSE handed' = Append(handed, Head(tasks)) /\ tasks' = Tail(tasks)
          /\ Goto(t, "task")
          /\ UNCHANGED <<waiting, running_, threads_, submitted>>

(* The task ends. *)
TaskEnds(t) ==
  /\ Calling(t, "task")
  /\ Goto(t, "runInThread")
  /\ UNCHANGED <<waiting, tpvars>>

(* A bug: one worker is woken, not all. *)
StopPool_One(t) ==
  /\ Calling(t, "stop")
  /\ running_' = FALSE
  /\ Notify("cond_")
  /\ Goto(t, "join")
  /\ UNCHANGED <<tasks, threads_, submitted, handed>>

(* stop(), then the joins. *)
StopPool(t) ==
  /\ Calling(t, "stop")
  /\ running_' = FALSE
  /\ NotifyAll("cond_")
  /\ Goto(t, "join")
  /\ UNCHANGED <<tasks, threads_, submitted, handed>>

JoinThreads(t) ==
  /\ Calling(t, "join")
  /\ \A w \in threads_ : script[w] = <<>>
  /\ Return(t)
  /\ UNCHANGED <<waiting, tpvars>>

-----------------------------------------------------------------------------
(* A worker sleeps only while the pool runs, and only if every task in the *)
(* queue has another worker on its way.                                    *)
WorkersWoken ==
  Waiters("cond_") # {} => running_ /\ Len(tasks) <= Cardinality(Awake("takeTask"))

(* Tasks are handed to the workers once each and in the order of run():    *)
(* those that stop() leaves in the queue are the last ones.                *)
TasksInOrder == handed \o tasks = [i \in 1 .. submitted |-> i]
=============================================================================
