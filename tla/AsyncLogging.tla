----------------------------- MODULE AsyncLogging -----------------------------
(***************************************************************************)
(* muduo::AsyncLogging: threads append lines to a buffer under mutex_, the *)
(* logging thread takes the buffers and writes them with a LogFile of its  *)
(* own.  Buffers are sequences of lines; lines are numbered in the order   *)
(* in which append() got the mutex.  nextBuffer_, newBuffer1 and           *)
(* newBuffer2 are empty buffers: present (TRUE) or NULL.                   *)
(***************************************************************************)
EXTENDS LogFile

CONSTANTS
  BufferSize,        \* kLargeBuffer
  LineSize,          \* of each line, and of the note on dropped lines
  kMaxBuffers,       \* 25
  MaxLines           \* bound: calls of append()

ASSUME AsyncLoggingAssumption ==
  LineSize \in 1 .. BufferSize - 1 /\ kMaxBuffers \in Nat /\ kMaxBuffers >= 2 /\ MaxLines \in Nat

VARIABLES
  running_, latch_,
  currentBuffer_, nextBuffer_, buffers_,
  newBuffer1, newBuffer2, buffersToWrite,
  written,           \* how many of buffersToWrite are written
  writerPc, notified,   \* the logging thread; notify() reached it in its wait
  userPc,            \* the thread that calls start() and stop()
  lines, dropped,    \* history: lines appended, and those thrown away
  failed

front == <<currentBuffer_, nextBuffer_, buffers_>>
back == <<newBuffer1, newBuffer2, buffersToWrite, written>>
alvars == <<lfvars, now, running_, latch_, front, back, writerPc, notified, userPc, lines, dropped, failed>>

Buffers == Seq(1 .. MaxLines)

ALTypeOK ==
  /\ LFTypeOK
  /\ running_ \in BOOLEAN /\ latch_ \in 0 .. 1
  /\ currentBuffer_ \in Buffers /\ nextBuffer_ \in BOOLEAN /\ buffers_ \in Seq(Buffers)
  /\ newBuffer1 \in BOOLEAN /\ newBuffer2 \in BOOLEAN /\ buffersToWrite \in Seq(Buffers)
  /\ written \in 0 .. Len(buffersToWrite)
  /\ writerPc \in {"none", "new", "check", "lock", "waiting", "drop", "write", "done"}
  /\ notified \in BOOLEAN
  /\ userPc \in {"idle", "starting", "started", "notify", "join", "stopped"}
  /\ lines \in 0 .. MaxLines /\ dropped \subseteq 1 .. MaxLines
  /\ failed \in BOOLEAN

ALInit ==
  /\ LFInit
  /\ running_ = FALSE /\ latch_ = 1
  /\ currentBuffer_ = <<>> /\ nextBuffer_ = TRUE /\ buffers_ = <<>>
  /\ newBuffer1 = TRUE /\ newBuffer2 = TRUE /\ buffersToWrite = <<>> /\ written = 0
  /\ writerPc = "none" /\ notified = FALSE /\ userPc = "idle"
  /\ lines = 0 /\ dropped = {} /\ failed = FALSE

-----------------------------------------------------------------------------
(* start() and stop().                                                     *)
Start ==
  /\ userPc = "idle"
  /\ running_' = TRUE /\ writerPc' = "new" /\ userPc' = "starting"
  /\ UNCHANGED <<lfvars, now, latch_, front, back, notified, lines, dropped, failed>>

StartReturns ==
  /\ userPc = "starting" /\ latch_ = 0
  /\ userPc' = "started"
  /\ UNCHANGED <<lfvars, now, running_, latch_, front, back, writerPc, notified, lines, dropped, failed>>

Stop ==
  /\ userPc = "started"
  /\ running_' = FALSE /\ userPc' = "notify"
  /\ UNCHANGED <<lfvars, now, latch_, front, back, writerPc, notified, lines, dropped, failed>>

(* cond_.notify(): without the mutex. *)
StopNotify ==
  /\ userPc = "notify"
  /\ notified' = (notified \/ writerPc = "waiting") /\ userPc' = "join"
  /\ UNCHANGED <<lfvars, now, running_, latch_, front, back, writerPc, lines, dropped, failed>>

StopReturns ==
  /\ userPc = "join" /\ writerPc = "done"
  /\ userPc' = "stopped"
  /\ UNCHANGED <<lfvars, now, running_, latch_, front, back, writerPc, notified, lines, dropped, failed>>

-----------------------------------------------------------------------------
(* FixedBuffer: a line fits while avail() > len. *)
Avail(b) == BufferSize - Len(b) * LineSize
Fits(b) == Avail(b) > LineSize

(* append() of any thread. *)
AppendLine ==
  /\ lines < MaxLines
  /\ lines' = lines + 1
  /\ IF Fits(currentBuffer_)
     THEN currentBuffer_' = Append(currentBuffer_, lines') /\ UNCHANGED <<nextBuffer_, buffers_, notified>>
     ELSE /\ buffers_' = Append(buffers_, currentBuffer_)
          /\ nextBuffer_' = FALSE                             \* moved, or a new one is allocated
          /\ currentBuffer_' = <<lines'>>
          /\ notified' = (notified \/ writerPc = "waiting")
  /\ UNCHANGED <<lfvars, now, running_, latch_, back, writerPc, userPc, dropped, failed>>

-----------------------------------------------------------------------------
(* threadFunc(): the assertion, the latch and the LogFile. *)
ThreadFunc ==
  /\ writerPc = "new"
  /\ failed' = ~running_
  /\ latch_' = 0 /\ writerPc' = "check"
  /\ OpenLogFile
  /\ UNCHANGED <<now, running_, front, back, notified, userPc, lines, dropped>>

(* while (running_), with the assertions of the body; after the loop the   *)
(* last flush().                                                           *)
CheckRunning ==
  /\ writerPc = "check"
  /\ IF running_
     THEN /\ writerPc' = "lock"
          /\ failed' = ~(newBuffer1 /\ newBuffer2 /\ buffersToWrite = <<>>)
          /\ UNCHANGED lfvars
     ELSE writerPc' = "done" /\ Flush /\ UNCHANGED failed
  /\ UNCHANGED <<now, running_, latch_, front, back, notified, userPc, lines, dropped>>

(* A bug: only full buffers are taken. *)
SwapBuffers_FullOnly ==
  /\ writerPc' = "drop" /\ notified' = FALSE
  /\ buffersToWrite' = buffers_ /\ buffers_' = <<>>
  /\ IF nextBuffer_ THEN UNCHANGED <<nextBuffer_, newBuffer2>>
     ELSE nextBuffer_' = TRUE /\ newBuffer2' = FALSE
  /\ UNCHANGED <<currentBuffer_, newBuffer1>>

(* A bug: the current buffer is put before the full ones. *)
SwapBuffers_Front ==
  /\ writerPc' = "drop" /\ notified' = FALSE
  /\ buffersToWrite' = <<currentBuffer_>> \o buffers_ /\ buffers_' = <<>>
  /\ currentBuffer_' = <<>> /\ newBuffer1' = FALSE
  /\ IF nextBuffer_ THEN UNCHANGED <<nextBuffer_, newBuffer2>>
     ELSE nextBuffer_' = TRUE /\ newBuffer2' = FALSE

(* The rest of the critical section: the current buffer is taken with the  *)
(* full ones, and both spare buffers may go to the front end.              *)
SwapBuffers ==
  /\ writerPc' = "drop" /\ notified' = FALSE
  /\ buffersToWrite' = Append(buffers_, currentBuffer_) /\ buffers_' = <<>>
  /\ currentBuffer_' = <<>> /\ newBuffer1' = FALSE
  /\ IF nextBuffer_ THEN UNCHANGED <<nextBuffer_, newBuffer2>>
     ELSE nextBuffer_' = TRUE /\ newBuffer2' = FALSE

LockAndTest ==
  /\ writerPc = "lock"
  /\ IF buffers_ = <<>>
     THEN writerPc' = "waiting" /\ UNCHANGED <<notified, front, newBuffer1, newBuffer2, buffersToWrite>>
     ELSE SwapBuffers
  /\ UNCHANGED <<lfvars, now, running_, latch_, written, userPc, lines, dropped, failed>>

(* waitForSeconds() ends by notify(), after flushInterval_, or for no      *)
(* reason; buffers_ is not tested again.                                   *)
WakeUp ==
  /\ writerPc = "waiting"
  /\ SwapBuffers
  /\ UNCHANGED <<lfvars, now, running_, latch_, written, userPc, lines, dropped, failed>>

(* Too many buffers: a note is written, all but two are thrown away. *)
DropBuffers ==
  /\ writerPc = "drop"
  /\ writerPc' = "write"
  /\ IF Len(buffersToWrite) > kMaxBuffers
     THEN /\ dropped' = dropped \cup
                UNION {ToSet(buffersToWrite[i]) : i \in 3 .. Len(buffersToWrite)}
          /\ buffersToWrite' = SubSeq(buffersToWrite, 1, 2)
          /\ AppendUnlocked(<<>>, LineSize)
     ELSE UNCHANGED <<dropped, buffersToWrite, lfvars>>
  /\ UNCHANGED <<now, running_, latch_, front, newBuffer1, newBuffer2, written, notified, userPc,
                 lines, failed>>

WriteBuffer ==
  /\ writerPc = "write" /\ written < Len(buffersToWrite)
  /\ LET b == buffersToWrite[written + 1] IN AppendUnlocked(b, Len(b) * LineSize)
  /\ written' = written + 1
  /\ UNCHANGED <<now, running_, latch_, front, newBuffer1, newBuffer2, buffersToWrite, writerPc,
                 notified, userPc, lines, dropped, failed>>

(* A bug: one buffer is kept, not two. *)
Recycled_One == Len(buffersToWrite) >= 1 /\ newBuffer2

(* Two of the buffers written are enough for newBuffer1 and newBuffer2. *)
Recycled ==
  IF newBuffer2 THEN Len(buffersToWrite) >= 1 ELSE Len(buffersToWrite) >= 2

(* The spare buffers are made up again from those just written. *)
RecycleBuffers ==
  /\ writerPc = "write" /\ written = Len(buffersToWrite)
  /\ writerPc' = "check"
  /\ failed' = ~Recycled
  /\ newBuffer1' = TRUE /\ newBuffer2' = Recycled
  /\ buffersToWrite' = <<>> /\ written' = 0
  /\ Flush
  /\ UNCHANGED <<now, running_, latch_, front, notified, userPc, lines, dropped>>

TickClock ==
  /\ Tick
  /\ UNCHANGED <<running_, latch_, front, back, writerPc, notified, userPc, lines, dropped, failed>>

Writer ==
  \/ ThreadFunc \/ CheckRunning \/ LockAndTest \/ WakeUp \/ DropBuffers \/ WriteBuffer \/ RecycleBuffers

ALNext ==
  \/ Start \/ StartReturns \/ Stop \/ StopNotify \/ StopReturns
  \/ AppendLine \/ Writer \/ TickClock

ALSpec == ALInit /\ [][ALNext]_alvars

(* The logging thread goes on, its wait ends after flushInterval_ seconds, *)
(* and so does the thread that starts and stops it.                        *)
ALFairSpec ==
  /\ ALSpec /\ WF_alvars(Writer) /\ WF_alvars(StartReturns \/ StopNotify \/ StopReturns)

-----------------------------------------------------------------------------
(* The spare buffers never run out: the assertions of threadFunc() hold    *)
(* however fast the front end fills buffers, at every iteration.           *)
SparesRecycled == ~failed

(* What holds the lines on their way to the disk, oldest first: the file,  *)
(* the buffers yet to be written, the full buffers and the current one.    *)
Pipeline ==
  <<file>> \o SubSeq(buffersToWrite, written + 1, Len(buffersToWrite)) \o buffers_ \o <<currentBuffer_>>

(* The lines of p are in the order of their append() calls, none twice. *)
Ordered(p) ==
  \A i \in DOMAIN p, j \in DOMAIN p : \A a \in DOMAIN p[i], b \in DOMAIN p[j] :
    (i < j \/ (i = j /\ a < b)) => p[i][a] < p[j][b]

Held(p) == UNION {ToSet(p[i]) : i \in DOMAIN p}

(* Every line is, once and in the order of the append() calls, in the      *)
(* file, in a buffer on its way there, or in the current buffer; those     *)
(* thrown away excepted.                                                   *)
LinesInOrder == ALTypeOK /\ Ordered(Pipeline) /\ Held(Pipeline) = (1 .. lines) \ dropped

(* A writer that waits has been notified of the buffers that are full: it  *)
(* does not sleep on them.                                                 *)
FullBufferNotifies == writerPc = "waiting" /\ buffers_ # <<>> => notified

(* When stop() returns, what the logging thread took is on disk.  (Lines   *)
(* appended since it last took the buffers are not: see the README.)       *)
TakenIsOnDisk == userPc = "stopped" => buffersToWrite = <<>> /\ flushed = Len(file)

Unlogged == Cardinality(ToSet(SubSeq(file, 1, flushed))) + Cardinality(dropped) < lines

(* While the logger runs, a line reaches the disk or is thrown away, even  *)
(* if its buffer never fills up.                                           *)
LoggedInTheEnd == (running_ /\ Unlogged) ~> (~Unlogged \/ ~running_)

(* start() and stop() return. *)
StopReturnsInTheEnd == (userPc \in {"starting", "notify"}) ~> (userPc \in {"started", "stopped"})

(* append_unlocked() rolls the file by size and by day.                    *)
FilesRolled == SizeBounded /\ DayBounded

(* The logging thread keeps up with the front end: its spare buffers never *)
(* run out, it does not sleep on full buffers, and stop() returns only     *)
(* when what it took is on disk.                                           *)
WriterKeepsUp == SparesRecycled /\ FullBufferNotifies /\ TakenIsOnDisk

(* Lines are logged, and start() and stop() return.                        *)
LoggerCompletes == LoggedInTheEnd /\ StopReturnsInTheEnd
=============================================================================
