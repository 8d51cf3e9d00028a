--------------------------- MODULE AsyncLoggingProofs ---------------------------
(***************************************************************************)
(* The logging thread and its LogFile, for all sizes of lines, buffers and *)
(* files, any number of lines and any interleaving.                        *)
(***************************************************************************)
EXTENDS AsyncLogging, SequenceTheorems, TLAPS

-----------------------------------------------------------------------------
(* The LogFile: a file that is still open has had no append that made it   *)
(* too large after its first second, and count_ has counted those of a     *)
(* later day.                                                              *)
LogFileInv ==
  /\ now \in Nat /\ lastRoll_ \in Nat /\ lastRoll_ <= now
  /\ startOfPeriod_ = Period(lastRoll_)
  /\ writtenBytes_ \in Nat /\ large \in Nat /\ stale \in Nat
  /\ count_ \in 0 .. kCheckTimeRoll_ + 1
  /\ SizeBounded /\ DayBounded
  /\ ~rolled => /\ large = 0 /\ stale <= count_
                /\ stale > 0 => Period(now) > startOfPeriod_

(* Periods follow the clock. *)
LEMMA PeriodMonotone ==
  ASSUME NEW s \in Nat, NEW t \in Nat, s <= t
  PROVE  Period(s) \in Nat /\ Period(t) \in Nat /\ Period(s) <= Period(t)
<1> DEFINE k == kRollPerSeconds_
           a == s \div k
           b == t \div k
<1>1. k \in Nat \ {0}
  BY LogFileAssumption
<1>2. a \in Nat /\ b \in Nat /\ a <= b
  BY <1>1
<1>3. a * k \in Nat /\ b * k \in Nat /\ a * k <= b * k
  <2> HIDE DEF a, b, k
  <2> QED
    BY <1>1, <1>2
<1> QED
  BY <1>3 DEF Period

(* The constructor of a LogFile that nothing was written to. *)
LEMMA OpenKeeps ==
  ASSUME LogFileInv, large = 0, stale = 0, OpenLogFile, UNCHANGED now
  PROVE  LogFileInv'
BY LogFileAssumption DEF LogFileInv, OpenLogFile, SizeBounded, DayBounded, Period

LEMMA TickKeeps ==
  ASSUME LogFileInv, Tick
  PROVE  LogFileInv'
<1>1. now' = now + 1 /\ UNCHANGED lfvars
  BY DEF Tick
<1>2. Period(now) <= Period(now') /\ Period(now) \in Nat /\ Period(now') \in Nat
  BY <1>1, PeriodMonotone DEF LogFileInv
<1>3. startOfPeriod_ \in Nat
  BY PeriodMonotone DEF LogFileInv
<1>4. ~rolled' /\ stale' > 0 => Period(now') > startOfPeriod_'
  BY <1>1, <1>2, <1>3 DEF LogFileInv, lfvars
<1>5. startOfPeriod_' = Period(lastRoll_') /\ (Period(now))' = Period(now')
  BY <1>1 DEF LogFileInv, lfvars, Period
<1> QED
  BY <1>1, <1>4, <1>5, LogFileAssumption DEF LogFileInv, SizeBounded, DayBounded, lfvars

(* append_unlocked(): a file that is not changed for a new one, whichever  *)
(* way the tests went, is of this second, of this day, or not looked at.   *)
LEMMA AppendKeeps ==
  ASSUME LogFileInv, NEW text, NEW n \in Nat, AppendUnlocked(text, n), UNCHANGED now
  PROVE  LogFileInv'
<1> DEFINE today == Period(now)
<1>1. today \in Nat /\ startOfPeriod_ \in Nat /\ startOfPeriod_ <= today
  BY PeriodMonotone DEF LogFileInv
<1>2. now = lastRoll_ => today = startOfPeriod_
  BY DEF LogFileInv
<1>3. (Period(now))' = today /\ (Period(lastRoll_))' = Period(lastRoll_')
  BY DEF Period
<1> HIDE DEF today
<1> DEFINE was == IF rolled THEN 0 ELSE stale
<1>4. /\ today = Period(now) /\ was \in Nat /\ was <= count_
      /\ was > 0 => today > startOfPeriod_
  BY DEF today, LogFileInv
<1>a. /\ stale' = was + (IF today # startOfPeriod_ THEN 1 ELSE 0)
      /\ large' = IF now > lastRoll_ /\ writtenBytes_ + n > rollSize_ THEN 1 ELSE 0
  BY <1>4 DEF AppendUnlocked, AppendToFile, LogFileInv
<1> HIDE DEF was
<1>b. /\ kCheckTimeRoll_ \in Nat /\ rollSize_ \in Nat /\ count_ \in 0 .. kCheckTimeRoll_ + 1
      /\ now \in Nat /\ lastRoll_ \in Nat /\ lastRoll_ <= now /\ writtenBytes_ \in Nat
      /\ startOfPeriod_ = Period(lastRoll_) /\ now' = now
  BY LogFileAssumption DEF LogFileInv
<1>c. /\ stale' \in Nat /\ large' \in 0 .. 1 /\ stale' <= kCheckTimeRoll_ + 2
      /\ stale' > 0 => today > startOfPeriod_
  BY <1>1, <1>4, <1>a, <1>b
<1>5. CASE writtenBytes_ + n > rollSize_ /\ RollFile(n) /\ UNCHANGED count_
  <2>1. CASE now > lastRoll_
    <3>1. /\ lastRoll_' = now /\ startOfPeriod_' = today /\ writtenBytes_' = 0 /\ rolled' = TRUE
      BY <1>4, <1>5, <2>1 DEF RollFile
    <3> QED
      BY <1>3, <1>4, <1>5, <1>b, <1>c, <3>1 DEF LogFileInv, SizeBounded, DayBounded
  <2>2. CASE ~(now > lastRoll_)
    <3>1. /\ lastRoll_' = lastRoll_ /\ startOfPeriod_' = startOfPeriod_ /\ rolled' = FALSE
          /\ writtenBytes_' = writtenBytes_ + n
      BY <1>5, <2>2 DEF RollFile, Keep
    <3>2. large' = 0 /\ stale' = was
      BY <1>2, <1>a, <1>b, <2>2, <1>4
    <3> QED
      BY <1>3, <1>4, <1>5, <1>b, <1>c, <3>1, <3>2 DEF LogFileInv, SizeBounded, DayBounded
  <2> QED
    BY <2>1, <2>2
<1>6. CASE /\ writtenBytes_ + n <= rollSize_ /\ count_ <= kCheckTimeRoll_
           /\ Keep(n) /\ count_' = count_ + 1
  <2>1. large' = 0 /\ stale' <= count_'
    BY <1>4, <1>6, <1>a, <1>b
  <2>2. /\ lastRoll_' = lastRoll_ /\ startOfPeriod_' = startOfPeriod_ /\ rolled' = FALSE
        /\ writtenBytes_' = writtenBytes_ + n
    BY <1>6 DEF Keep
  <2> QED
    BY <1>3, <1>4, <1>6, <1>b, <1>c, <2>1, <2>2 DEF LogFileInv, SizeBounded, DayBounded
<1>7. CASE /\ writtenBytes_ + n <= rollSize_ /\ count_' = 0
           /\ today # startOfPeriod_ /\ RollFile(n)
  <2>1. now > lastRoll_
    BY <1>2, <1>7, <1>b
  <2>2. /\ lastRoll_' = now /\ startOfPeriod_' = today /\ writtenBytes_' = 0 /\ rolled' = TRUE
    BY <1>4, <1>7, <2>1 DEF RollFile
  <2> QED
    BY <1>3, <1>4, <1>7, <1>b, <1>c, <2>2 DEF LogFileInv, SizeBounded, DayBounded
<1>8. CASE /\ writtenBytes_ + n <= rollSize_ /\ count_' = 0
           /\ today = startOfPeriod_ /\ Keep(n)
  <2>1. large' = 0 /\ stale' = 0
    BY <1>1, <1>4, <1>8, <1>a, <1>b
  <2>2. /\ lastRoll_' = lastRoll_ /\ startOfPeriod_' = startOfPeriod_ /\ rolled' = FALSE
        /\ writtenBytes_' = writtenBytes_ + n
    BY <1>8 DEF Keep
  <2> QED
    BY <1>3, <1>4, <1>8, <1>b, <1>c, <2>1, <2>2 DEF LogFileInv, SizeBounded, DayBounded
<1> QED
  BY <1>4, <1>5, <1>6, <1>7, <1>8 DEF AppendUnlocked

LEMMA FlushKeeps ==
  ASSUME LogFileInv, Flush \/ UNCHANGED lfvars, UNCHANGED now
  PROVE  LogFileInv'
BY DEF LogFileInv, Flush, lfvars, SizeBounded, DayBounded, Period

-----------------------------------------------------------------------------
(* The buffers: a spare one went to the front end only for one that came   *)
(* back, so that enough are left to make up newBuffer1 and newBuffer2.     *)
BuffersInv ==
  /\ lines \in Nat /\ currentBuffer_ \in Seq(Nat)
  /\ buffers_ \in Seq(Seq(Nat)) /\ buffersToWrite \in Seq(Seq(Nat))
  /\ nextBuffer_ \in BOOLEAN /\ written \in 0 .. Len(buffersToWrite)
  /\ ~nextBuffer_ => buffers_ # <<>>
  /\ writerPc \in {"drop", "write"} => Recycled
  /\ writerPc \in {"none", "new", "check", "lock", "waiting", "done"} =>
       newBuffer1 = TRUE /\ newBuffer2 = TRUE /\ buffersToWrite = <<>>
  /\ SparesRecycled

(* The threads: who waits was told of full buffers, and the logging thread *)
(* is past its last flush() when stop() returns.                           *)
ThreadsInv ==
  /\ writerPc \in {"none", "new", "check", "lock", "waiting", "drop", "write", "done"}
  /\ writerPc \in {"none", "new"} => latch_ = 1 /\ large = 0 /\ stale = 0
  /\ writerPc = "new" => running_ = TRUE
  /\ userPc = "idle" <=> writerPc = "none"
  /\ userPc \notin {"idle", "starting"} => latch_ = 0
  /\ userPc = "stopped" => writerPc = "done"
  /\ writerPc = "drop" => written = 0
  /\ writerPc = "done" => buffersToWrite = <<>> /\ flushed = Len(file)
  /\ FullBufferNotifies

ALInv == LogFileInv /\ BuffersInv /\ ThreadsInv

LEMMA ALInvInit == ALInit => ALInv
<1> SUFFICES ASSUME ALInit PROVE ALInv
  OBVIOUS
<1>1. LogFileInv
  BY PeriodMonotone, LogFileAssumption DEF ALInit, LFInit, LogFileInv, SizeBounded, DayBounded
<1>2. BuffersInv
  BY DEF ALInit, BuffersInv, SparesRecycled
<1>3. ThreadsInv
  BY DEF ALInit, LFInit, ThreadsInv, FullBufferNotifies
<1> QED
  BY <1>1, <1>2, <1>3 DEF ALInv

LEMMA LogFileStep == ALInv /\ [ALNext]_alvars => LogFileInv'
<1> SUFFICES ASSUME ALInv, [ALNext]_alvars PROVE LogFileInv'
  OBVIOUS
<1>0. LogFileInv /\ BuffersInv /\ ThreadsInv
  BY DEF ALInv
<1>1. CASE UNCHANGED <<lfvars, now>>
  BY <1>0, <1>1, FlushKeeps
<1>2. CASE ThreadFunc
  BY <1>0, <1>2, OpenKeeps DEF ThreadFunc, ThreadsInv
<1>3. CASE CheckRunning \/ RecycleBuffers
  <2>1. (Flush \/ UNCHANGED lfvars) /\ UNCHANGED now
    BY <1>3 DEF CheckRunning, RecycleBuffers
  <2> QED
    BY <1>0, <2>1, FlushKeeps
<1>4. CASE DropBuffers
  <2>1. UNCHANGED now /\ (AppendUnlocked(<<>>, LineSize) \/ UNCHANGED lfvars)
    BY <1>4 DEF DropBuffers
  <2>2. LineSize \in Nat
    BY AsyncLoggingAssumption
  <2> QED
    BY <1>0, <2>1, <2>2, AppendKeeps, FlushKeeps
<1>5. CASE WriteBuffer
  <2> DEFINE b == buffersToWrite[written + 1]
             n == Len(b) * LineSize
  <2>1. b \in Seq(Nat)
    BY <1>0, <1>5 DEF WriteBuffer, BuffersInv
  <2>2. Len(b) \in Nat /\ LineSize \in Nat
    BY <2>1, AsyncLoggingAssumption
  <2>3. n \in Nat
    BY <2>2
  <2>4. AppendUnlocked(b, n) /\ UNCHANGED now
    BY <1>5 DEF WriteBuffer
  <2> HIDE DEF b, n
  <2> QED
    BY <1>0, <2>3, <2>4, AppendKeeps
<1>6. CASE TickClock
  BY <1>0, <1>6, TickKeeps DEF TickClock
<1> QED
  BY <1>1, <1>2, <1>3, <1>4, <1>5, <1>6, Zenon
  DEF ALNext, Writer, Start, StartReturns, Stop, StopNotify, StopReturns, AppendLine,
      LockAndTest, WakeUp, alvars

(* The critical section of the logging thread.  Both spare buffers are     *)
(* given away only if the front end had filled one and taken the next.     *)
LEMMA SwapKeeps ==
  ASSUME BuffersInv, SwapBuffers, writerPc \in {"lock", "waiting"},
         UNCHANGED <<written, lines, failed>>
  PROVE  BuffersInv'
<1>1. buffersToWrite = <<>> /\ newBuffer2 = TRUE /\ written = 0
  BY DEF BuffersInv
<1>2. /\ buffersToWrite' = Append(buffers_, currentBuffer_) /\ buffers_' = <<>>
      /\ currentBuffer_' = <<>> /\ writerPc' = "drop"
      /\ nextBuffer_' = TRUE /\ newBuffer2' = nextBuffer_
  BY <1>1, Zenon DEF SwapBuffers, BuffersInv
<1>3. /\ buffersToWrite' \in Seq(Seq(Nat))
      /\ Len(buffersToWrite') = Len(buffers_) + 1 /\ Len(buffers_) \in Nat
      /\ ~nextBuffer_ => Len(buffers_) >= 1
  BY <1>2 DEF BuffersInv
<1>4. Recycled'
  BY <1>2, <1>3 DEF Recycled
<1> QED
  BY <1>1, <1>2, <1>3, <1>4 DEF BuffersInv, SparesRecycled

LEMMA BuffersStep == ALInv /\ [ALNext]_alvars => BuffersInv'
<1> SUFFICES ASSUME ALInv, [ALNext]_alvars PROVE BuffersInv'
  OBVIOUS
<1>0. BuffersInv /\ ThreadsInv
  BY DEF ALInv
<1>1. CASE UNCHANGED <<front, back, writerPc, lines, failed>>
  BY <1>0, <1>1 DEF BuffersInv, SparesRecycled, Recycled, front, back
<1>2. CASE Start
  BY <1>0, <1>2 DEF Start, BuffersInv, ThreadsInv, SparesRecycled, front, back
<1>3. CASE AppendLine
  <2>1. lines' \in Nat
    BY <1>0, <1>3 DEF AppendLine, BuffersInv
  <2>2. /\ currentBuffer_' \in Seq(Nat) /\ buffers_' \in Seq(Seq(Nat))
        /\ nextBuffer_' \in BOOLEAN /\ (~nextBuffer_' => buffers_' # <<>>)
    <3>1. CASE Fits(currentBuffer_)
      <4>1. currentBuffer_' = Append(currentBuffer_, lines') /\ UNCHANGED <<nextBuffer_, buffers_>>
        BY <1>3, <3>1 DEF AppendLine
      <4> QED
        BY <1>0, <2>1, <4>1 DEF BuffersInv
    <3>2. CASE ~Fits(currentBuffer_)
      <4>1. /\ buffers_' = Append(buffers_, currentBuffer_) /\ currentBuffer_' = <<lines'>>
            /\ nextBuffer_' = FALSE
        BY <1>3, <3>2 DEF AppendLine
      <4>2. /\ buffers_' \in Seq(Seq(Nat)) /\ Len(buffers_') = Len(buffers_) + 1
            /\ Len(buffers_) \in Nat
        BY <1>0, <4>1 DEF BuffersInv
      <4>3. currentBuffer_' \in Seq(Nat)
        BY <2>1, <4>1
      <4>4. buffers_' # <<>>
        BY <4>2
      <4> QED
        BY <4>1, <4>2, <4>3, <4>4, Zenon
    <3> QED
      BY <3>1, <3>2
  <2>3. UNCHANGED <<back, writerPc, failed>>
    BY <1>3 DEF AppendLine
  <2> QED
    BY <1>0, <2>1, <2>2, <2>3 DEF BuffersInv, SparesRecycled, Recycled, back
<1>4. CASE ThreadFunc
  BY <1>0, <1>4, Zenon DEF ThreadFunc, BuffersInv, ThreadsInv, SparesRecycled, front, back
<1>5. CASE CheckRunning
  BY <1>0, <1>5, Zenon DEF CheckRunning, BuffersInv, SparesRecycled, front, back
<1>6. CASE LockAndTest
  <2>1. CASE buffers_ = <<>>
    BY <1>0, <1>6, <2>1 DEF LockAndTest, BuffersInv, SparesRecycled, front
  <2>2. CASE buffers_ # <<>>
    BY <1>0, <1>6, <2>2, SwapKeeps DEF LockAndTest
  <2> QED
    BY <2>1, <2>2
<1>7. CASE WakeUp
  BY <1>0, <1>7, SwapKeeps DEF WakeUp
<1>8. CASE DropBuffers
  <2>1. /\ buffersToWrite \in Seq(Seq(Nat)) /\ written \in Nat /\ Recycled
        /\ UNCHANGED <<front, newBuffer1, newBuffer2, written, lines, failed>> /\ writerPc' = "write"
    BY <1>0, <1>8 DEF DropBuffers, BuffersInv
  <2>2. CASE UNCHANGED buffersToWrite
    BY <1>0, <2>1, <2>2 DEF BuffersInv, SparesRecycled, Recycled, front
  <2>3. CASE Len(buffersToWrite) > kMaxBuffers /\ buffersToWrite' = SubSeq(buffersToWrite, 1, 2)
    <3>1. buffersToWrite' \in Seq(Seq(Nat)) /\ Len(buffersToWrite') = 2
      <4>1. Len(buffersToWrite) \in Nat /\ Len(buffersToWrite) >= 2
        BY <2>1, <2>3, AsyncLoggingAssumption
      <4>2. buffersToWrite' = [i \in 1 .. 2 |-> buffersToWrite[i]]
        BY <2>1, <2>3, <4>1
      <4>3. \A i \in 1 .. 2 : buffersToWrite[i] \in Seq(Nat)
        BY <2>1, <4>1
      <4> QED
        BY <4>2, <4>3
    <3>2. Recycled' /\ written' \in 0 .. Len(buffersToWrite')
      <4>1. written = 0
        BY <1>0, <1>8 DEF DropBuffers, ThreadsInv
      <4> QED
        BY <2>1, <3>1, <4>1 DEF Recycled
    <3> QED
      BY <1>0, <2>1, <3>1, <3>2 DEF BuffersInv, SparesRecycled, front
  <2> QED
    BY <1>8, <2>2, <2>3 DEF DropBuffers
<1>9. CASE WriteBuffer
  <2>1. written' \in 0 .. Len(buffersToWrite) /\ UNCHANGED buffersToWrite
    BY <1>0, <1>9 DEF WriteBuffer, BuffersInv
  <2>2. UNCHANGED <<front, newBuffer1, newBuffer2, writerPc, lines, failed>>
    BY <1>9 DEF WriteBuffer
  <2> QED
    BY <1>0, <2>1, <2>2 DEF BuffersInv, SparesRecycled, Recycled, front
<1>10. CASE RecycleBuffers
  <2>1. Recycled
    BY <1>0, <1>10, Zenon DEF RecycleBuffers, BuffersInv
  <2>2. newBuffer2' = TRUE /\ failed' = FALSE
    <3>1. Recycled \in BOOLEAN
      <4>1. Len(buffersToWrite) \in Nat
        BY <1>0 DEF BuffersInv
      <4>2. CASE newBuffer2
        BY <4>1, <4>2 DEF Recycled
      <4>3. CASE ~newBuffer2
        BY <4>1, <4>3 DEF Recycled
      <4> QED
        BY <4>2, <4>3
    <3> QED
      BY <1>10, <2>1, <3>1, Zenon DEF RecycleBuffers
  <2>3. /\ writerPc' = "check" /\ newBuffer1' = TRUE /\ buffersToWrite' = <<>> /\ written' = 0
        /\ UNCHANGED <<front, lines>>
    BY <1>10 DEF RecycleBuffers
  <2> QED
    BY <1>0, <2>2, <2>3 DEF BuffersInv, SparesRecycled, front
<1> QED
  BY <1>1, <1>2, <1>3, <1>4, <1>5, <1>6, <1>7, <1>8, <1>9, <1>10, Zenon
  DEF ALNext, Writer, StartReturns, Stop, StopNotify, StopReturns, TickClock, alvars

LEMMA ThreadsStep == ALInv /\ [ALNext]_alvars => ThreadsInv'
<1> SUFFICES ASSUME ALInv, [ALNext]_alvars PROVE ThreadsInv'
  OBVIOUS
<1>0. BuffersInv /\ ThreadsInv
  BY DEF ALInv
<1> USE DEF ThreadsInv, FullBufferNotifies
<1>1. CASE Start
  BY <1>0, <1>1, Zenon DEF Start, lfvars, front, back
<1>2. CASE StartReturns \/ Stop
  BY <1>0, <1>2 DEF StartReturns, Stop, lfvars, front, back
<1>3. CASE StopNotify
  BY <1>0, <1>3, Zenon DEF StopNotify, lfvars, front, back
<1>4. CASE StopReturns
  BY <1>0, <1>4 DEF StopReturns, lfvars, front, back
<1>5. CASE AppendLine
  BY <1>0, <1>5, Zenon DEF AppendLine, lfvars, back
<1>6. CASE ThreadFunc
  BY <1>0, <1>6 DEF ThreadFunc, OpenLogFile, front, back
<1>7. CASE CheckRunning
  BY <1>0, <1>7, Zenon DEF CheckRunning, BuffersInv, Flush, lfvars, front, back
<1>8. CASE LockAndTest
  <2>1. written = 0 /\ UNCHANGED <<written, lfvars, latch_, running_, userPc>>
    BY <1>0, <1>8 DEF LockAndTest, BuffersInv
  <2>2. CASE buffers_ = <<>>
    BY <1>0, <1>8, <2>1, <2>2 DEF LockAndTest, lfvars, front
  <2>3. CASE SwapBuffers
    BY <1>0, <1>8, <2>1, <2>3, Zenon DEF LockAndTest, SwapBuffers, lfvars
  <2> QED
    BY <1>8, <2>2, <2>3, Zenon DEF LockAndTest
<1>9. CASE WakeUp
  <2>1. /\ written = 0 /\ writerPc' = "drop" /\ writerPc = "waiting"
        /\ UNCHANGED <<written, lfvars, latch_, running_, userPc>>
    BY <1>0, <1>9 DEF WakeUp, SwapBuffers, BuffersInv
  <2> QED
    BY <1>0, <2>1, Zenon
<1>10. CASE DropBuffers
  BY <1>0, <1>10 DEF DropBuffers, front
<1>11. CASE WriteBuffer
  BY <1>0, <1>11 DEF WriteBuffer, front
<1>12. CASE RecycleBuffers
  BY <1>0, <1>12 DEF RecycleBuffers, front
<1>13. CASE TickClock
  BY <1>0, <1>13 DEF TickClock, Tick, lfvars, front, back
<1>14. CASE UNCHANGED alvars
  BY <1>0, <1>14, Zenon DEF alvars, lfvars, front, back
<1> QED
  BY <1>1, <1>2, <1>3, <1>4, <1>5, <1>6, <1>7, <1>8, <1>9, <1>10, <1>11, <1>12, <1>13, <1>14, Zenon
  DEF ALNext, Writer

LEMMA ALInvariance == ALSpec => []ALInv
<1>1. ALInv /\ [ALNext]_alvars => ALInv'
  BY LogFileStep, BuffersStep, ThreadsStep DEF ALInv
<1> QED
  BY <1>1, ALInvInit, PTL DEF ALSpec

-----------------------------------------------------------------------------
(* Whatever the sizes of the buffers that append_unlocked() gets, at most  *)
(* one of them that comes after the second a log file was opened in leaves *)
(* it larger than rollSize_; however the calls fall on the clock, at most  *)
(* kCheckTimeRoll_ + 2 of them go to the file of an earlier day.           *)
THEOREM FilesAreRolled == ALSpec => []FilesRolled
<1>1. ALInv => SizeBounded
  BY DEF ALInv, LogFileInv
<1>2. ALInv => DayBounded
  BY DEF ALInv, LogFileInv
<1>3. ALInv => FilesRolled
  BY <1>1, <1>2 DEF FilesRolled
<1> QED
  BY <1>3, ALInvariance, PTL

(* No assertion of threadFunc() ever fails: the buffers written suffice to *)
(* make up both spare ones, however many were filled or thrown away.  The  *)
(* logging thread never sleeps on a full buffer it was not told of, and    *)
(* when stop() returns, what it took is on disk.                           *)
THEOREM WriterIsInStep == ALSpec => []WriterKeepsUp
<1>1. ALInv => SparesRecycled
  BY DEF ALInv, BuffersInv
<1>2. ALInv => FullBufferNotifies
  BY DEF ALInv, ThreadsInv
<1>3. ALInv => TakenIsOnDisk
  BY DEF ALInv, ThreadsInv, TakenIsOnDisk
<1>4. ALInv => WriterKeepsUp
  BY <1>1, <1>2, <1>3 DEF WriterKeepsUp
<1> QED
  BY <1>4, ALInvariance, PTL

-----------------------------------------------------------------------------
(* Lines in their order. *)
LEMMA ConcatAt ==
  ASSUME NEW S, NEW s \in Seq(S), NEW t \in Seq(S)
  PROVE  /\ s \o t \in Seq(S) /\ Len(s \o t) = Len(s) + Len(t)
         /\ \A i \in 1 .. Len(s) : (s \o t)[i] = s[i]
         /\ \A i \in 1 .. Len(t) : (s \o t)[Len(s) + i] = t[i]
OBVIOUS

(* The pipeline of a file, two sequences of buffers and the last buffer. *)
Piped(f, u, b, c) == <<f>> \o u \o b \o <<c>>

LEMMA ItemAt ==
  ASSUME NEW s \in Seq(Nat), NEW a \in DOMAIN s
  PROVE  a \in Nat /\ s[a] \in Nat
OBVIOUS

LEMMA HeldIn ==
  ASSUME NEW p, NEW x
  PROVE  x \in Held(p) <=> \E i \in DOMAIN p : \E a \in DOMAIN p[i] : p[i][a] = x
BY DEF Held, ToSet

LEMMA HeldWithin ==
  ASSUME NEW p, NEW X, \A i \in DOMAIN p : \A a \in DOMAIN p[i] : p[i][a] \in X
  PROVE  Held(p) \subseteq X
<1> SUFFICES ASSUME NEW x \in Held(p) PROVE x \in X
  OBVIOUS
<1>1. PICK i \in DOMAIN p : \E a \in DOMAIN p[i] : p[i][a] = x
  BY HeldIn
<1> QED
  BY <1>1

-----------------------------------------------------------------------------
(* What a step does to the order: a new line at the end of the last        *)
(* buffer, a new buffer, the first two in one, some in between left out.   *)
Extends(p, q, n, m) ==
  /\ p \in Seq(Seq(Nat)) /\ q \in Seq(Seq(Nat)) /\ n \in Nat /\ m \in Nat /\ n >= 1 /\ Len(p) = n /\ Len(q) = n
  /\ (\A i \in 1 .. n : i # n => q[i] = p[i]) /\ q[n] = Append(p[n], m)
  /\ Ordered(p) /\ \A x \in Held(p) : x < m

LEMMA ExtendOrder ==
  ASSUME NEW p, NEW q, NEW n, NEW m, Extends(p, q, n, m)
  PROVE  Ordered(q) /\ Held(q) = Held(p) \cup {m}
<1>0. /\ p \in Seq(Seq(Nat)) /\ q \in Seq(Seq(Nat)) /\ n \in Nat /\ m \in Nat /\ n >= 1 /\ Len(p) = n /\ Len(q) = n
      /\ (\A i \in 1 .. n : i # n => q[i] = p[i]) /\ q[n] = Append(p[n], m)
      /\ Ordered(p) /\ \A x \in Held(p) : x < m
  BY Zenon DEF Extends
<1> USE <1>0
<1> DEFINE k == Len(p[n])
<1>1. n \in DOMAIN p /\ DOMAIN p = 1 .. n /\ DOMAIN q = 1 .. n /\ p[n] \in Seq(Nat)
  OBVIOUS
<1>2. k \in Nat /\ DOMAIN p[n] = 1 .. k
  BY <1>1
<1>3. DOMAIN q[n] = 1 .. k + 1 /\ q[n][k + 1] = m /\ \A a \in 1 .. k : q[n][a] = p[n][a]
  BY <1>1
<1> HIDE DEF k
<1>4. ASSUME NEW i \in 1 .. n, NEW a \in DOMAIN q[i], ~(i = n /\ a = k + 1)
      PROVE  a \in DOMAIN p[i] /\ q[i][a] = p[i][a]
  <2>1. CASE i # n
    BY <1>4, <2>1, Zenon
  <2>2. CASE i = n
    <3>1. a \in 1 .. k + 1 /\ a # k + 1
      BY <1>3, <1>4, <2>2, Zenon
    <3>2. a \in 1 .. k
      BY <1>2, <3>1
    <3> QED
      BY <1>2, <1>3, <2>2, <3>2, Zenon
  <2> QED
    BY <2>1, <2>2, Zenon
<1>5. ASSUME NEW i \in 1 .. n, NEW a \in DOMAIN p[i]
      PROVE  /\ a \in DOMAIN q[i] /\ q[i][a] = p[i][a] /\ p[i][a] \in Held(p) /\ p[i][a] < m
  <2>1. p[i][a] \in Held(p)
    BY <1>1, <1>5, HeldIn, Zenon
  <2>2. CASE i # n
    BY <1>5, <2>1, <2>2, Zenon
  <2>3. CASE i = n
    <3>1. a \in 1 .. k /\ a \in 1 .. k + 1
      BY <1>2, <1>5, <2>3
    <3> QED
      BY <1>3, <2>1, <2>3, <3>1, Zenon
  <2> QED
    BY <2>2, <2>3, Zenon
<1>6. Ordered(q)
  <2> SUFFICES ASSUME NEW i \in 1 .. n, NEW j \in 1 .. n, NEW a \in DOMAIN q[i], NEW b \in DOMAIN q[j],
                      i < j \/ (i = j /\ a < b)
               PROVE  q[i][a] < q[j][b]
    BY <1>1, Zenon DEF Ordered
  <2>1. ~(i = n /\ a = k + 1)
    <3>1. ASSUME i = n, a = k + 1 PROVE FALSE
      <4>1. j = n /\ b \in 1 .. k + 1
        BY <1>3, <3>1
      <4> QED
        BY <1>2, <3>1, <4>1
    <3> QED
      BY <3>1
  <2>2. a \in DOMAIN p[i] /\ q[i][a] = p[i][a]
    BY <1>4, <2>1, Zenon
  <2>3. CASE j = n /\ b = k + 1
    BY <1>3, <1>5, <2>2, <2>3, Zenon
  <2>4. CASE ~(j = n /\ b = k + 1)
    <3>1. b \in DOMAIN p[j] /\ q[j][b] = p[j][b]
      BY <1>4, <2>4, Zenon
    <3>2. p[i][a] < p[j][b]
      BY <1>1, <2>2, <3>1, Zenon DEF Ordered
    <3> QED
      BY <2>2, <3>1, <3>2, Zenon
  <2> QED
    BY <2>3, <2>4, Zenon
<1>7. Held(q) \subseteq Held(p) \cup {m}
  <2>1. ASSUME NEW i \in 1 .. n, NEW a \in DOMAIN q[i] PROVE q[i][a] \in Held(p) \cup {m}
    <3>1. CASE i = n /\ a = k + 1
      BY <1>3, <3>1
    <3>2. CASE ~(i = n /\ a = k + 1)
      <4>1. a \in DOMAIN p[i] /\ q[i][a] = p[i][a]
        BY <1>4, <3>2, Zenon
      <4>2. p[i][a] \in Held(p)
        BY <1>5, <4>1, Zenon
      <4> QED
        BY <4>1, <4>2
    <3> QED
      BY <3>1, <3>2, Zenon
  <2> QED
    BY <1>1, <2>1, HeldWithin, Zenon
<1>8. Held(p) \subseteq Held(q)
  <2>1. ASSUME NEW i \in 1 .. n, NEW a \in DOMAIN p[i] PROVE p[i][a] \in Held(q)
    <3>1. a \in DOMAIN q[i] /\ q[i][a] = p[i][a]
      BY <1>5, Zenon
    <3> QED
      BY <1>1, <3>1, HeldIn, Zenon
  <2> QED
    BY <1>1, <2>1, HeldWithin, Zenon
<1>9. m \in Held(q)
  <2>1. n \in DOMAIN q /\ k + 1 \in DOMAIN q[n] /\ q[n][k + 1] = m
    BY <1>1, <1>2, <1>3
  <2> QED
    BY <2>1, HeldIn, Zenon
<1> QED
  BY <1>6, <1>7, <1>8, <1>9

Grows(p, q, e, n) ==
  /\ p \in Seq(Seq(Nat)) /\ q \in Seq(Seq(Nat)) /\ e \in Seq(Nat) /\ n \in Nat /\ Len(p) = n /\ Len(q) = n + 1
  /\ (\A i \in 1 .. n : q[i] = p[i]) /\ q[n + 1] = e
  /\ Ordered(p) /\ Len(e) <= 1 /\ \A x \in Held(p) : \A a \in DOMAIN e : x < e[a]

LEMMA GrowOrder ==
  ASSUME NEW p, NEW q, NEW e, NEW n, Grows(p, q, e, n)
  PROVE  Ordered(q) /\ Held(q) = Held(p) \cup ToSet(e)
<1>0. /\ p \in Seq(Seq(Nat)) /\ q \in Seq(Seq(Nat)) /\ e \in Seq(Nat) /\ n \in Nat /\ Len(p) = n /\ Len(q) = n + 1
      /\ (\A i \in 1 .. n : q[i] = p[i]) /\ q[n + 1] = e
      /\ Ordered(p) /\ Len(e) <= 1 /\ \A x \in Held(p) : \A a \in DOMAIN e : x < e[a]
  BY Zenon DEF Grows
<1> USE <1>0
<1>1. DOMAIN p = 1 .. n /\ DOMAIN q = 1 .. n + 1 /\ n + 1 \in 1 .. n + 1 /\ ~(n + 1 \in 1 .. n)
  OBVIOUS
<1>2. \A i \in 1 .. n + 1 : i \in 1 .. n \/ i = n + 1
  OBVIOUS
<1>3. \A a, b \in DOMAIN e : ~(a < b)
  OBVIOUS
<1>4. Ordered(q)
  <2> SUFFICES ASSUME NEW i \in 1 .. n + 1, NEW j \in 1 .. n + 1, NEW a \in DOMAIN q[i], NEW b \in DOMAIN q[j],
                      i < j \/ (i = j /\ a < b)
               PROVE  q[i][a] < q[j][b]
    BY <1>1, Zenon DEF Ordered
  <2>1. i \in 1 .. n
    <3>1. ASSUME i = n + 1 PROVE FALSE
      <4>1. j = n + 1 /\ a \in DOMAIN e /\ b \in DOMAIN e
        BY <3>1
      <4> QED
        BY <1>3, <3>1, <4>1
    <3> QED
      BY <1>2, <3>1, Zenon
  <2>2. q[i] = p[i] /\ a \in DOMAIN p[i]
    BY <2>1, Zenon
  <2>3. CASE j \in 1 .. n
    <3>1. q[j] = p[j] /\ b \in DOMAIN p[j]
      BY <2>3, Zenon
    <3>2. p[i][a] < p[j][b]
      BY <1>1, <2>1, <2>2, <2>3, <3>1, Zenon DEF Ordered
    <3> QED
      BY <2>2, <3>1, <3>2, Zenon
  <2>4. CASE j = n + 1
    <3>1. p[i][a] \in Held(p)
      BY <1>1, <2>1, <2>2, HeldIn, Zenon
    <3>2. q[j] = e /\ b \in DOMAIN e
      BY <2>4, Zenon
    <3>3. p[i][a] < e[b]
      BY <3>1, <3>2, Zenon
    <3> QED
      BY <2>2, <3>2, <3>3, Zenon
  <2> QED
    BY <1>2, <2>3, <2>4, Zenon
<1>5. Held(q) \subseteq Held(p) \cup ToSet(e)
  <2>1. ASSUME NEW i \in 1 .. n + 1, NEW a \in DOMAIN q[i] PROVE q[i][a] \in Held(p) \cup ToSet(e)
    <3>1. CASE i = n + 1
      BY <3>1 DEF ToSet
    <3>2. CASE i \in 1 .. n
      <4>1. q[i] = p[i] /\ i \in DOMAIN p
        BY <1>1, <3>2, Zenon
      <4>2. p[i][a] \in Held(p)
        BY <4>1, HeldIn, Zenon
      <4> QED
        BY <4>1, <4>2, Zenon
    <3> QED
      BY <1>2, <3>1, <3>2, Zenon
  <2> QED
    BY <1>1, <2>1, HeldWithin, Zenon
<1>6. Held(p) \subseteq Held(q)
  <2>1. ASSUME NEW i \in 1 .. n, NEW a \in DOMAIN p[i] PROVE p[i][a] \in Held(q)
    <3>1. i \in 1 .. n + 1 /\ q[i] = p[i]
      OBVIOUS
    <3> QED
      BY <1>1, <3>1, HeldIn, Zenon
  <2> QED
    BY <1>1, <2>1, HeldWithin, Zenon
<1>7. ASSUME NEW x \in ToSet(e) PROVE x \in Held(q)
  <2>1. \E a \in DOMAIN q[n + 1] : q[n + 1][a] = x
    BY <1>7 DEF ToSet
  <2> QED
    BY <1>1, <2>1, HeldIn, Zenon
<1> QED
  BY <1>4, <1>5, <1>6, <1>7

Merges(p, q, n) ==
  /\ n >= 1 /\ Len(p) = n + 1 /\ Len(q) = n
  /\ q[1] = p[1] \o p[2] /\ \A i \in 1 .. n : i # 1 => q[i] = p[i + 1]

LEMMA MergeOrder ==
  ASSUME NEW p \in Seq(Seq(Nat)), NEW q \in Seq(Seq(Nat)), NEW n \in Nat, Merges(p, q, n), Ordered(p)
  PROVE  Ordered(q) /\ Held(q) = Held(p)
<1> DEFINE l == Len(p[1])
           r == Len(p[2])
           Same(i, a, k, c) ==
             /\ k \in 1 .. n + 1 /\ c \in DOMAIN p[k] /\ p[k][c] = q[i][a]
             /\ \/ i = 1 /\ k = 1 /\ a = c /\ c <= l
                \/ i = 1 /\ k = 2 /\ a = l + c /\ c >= 1
                \/ i > 1 /\ k = i + 1 /\ a = c
<1>1. /\ DOMAIN p = 1 .. n + 1 /\ DOMAIN q = 1 .. n /\ 1 \in 1 .. n + 1 /\ 2 \in 1 .. n + 1
      /\ p[1] \in Seq(Nat) /\ p[2] \in Seq(Nat) /\ 1 \in 1 .. n
  BY DEF Merges
<1>2. l \in Nat /\ r \in Nat /\ DOMAIN p[1] = 1 .. l /\ DOMAIN p[2] = 1 .. r
  BY <1>1
<1>3. /\ DOMAIN q[1] = 1 .. l + r /\ \A a \in 1 .. l : q[1][a] = p[1][a]
      /\ \A a \in 1 .. r : q[1][l + a] = p[2][a]
  BY <1>1 DEF Merges
<1> HIDE DEF l, r
<1>4. ASSUME NEW i \in 1 .. n, NEW a \in DOMAIN q[i]
      PROVE  \E k \in 1 .. n + 1 : \E c \in DOMAIN p[k] : Same(i, a, k, c)
  <2>1. CASE i = 1 /\ a \in 1 .. l
    <3>1. a \in DOMAIN p[1] /\ p[1][a] = q[i][a]
      BY <1>2, <1>3, <2>1, Zenon
    <3>2. a <= l
      BY <1>2, <2>1
    <3> QED
      BY <1>1, <2>1, <3>1, <3>2, Zenon
  <2>2. CASE i = 1 /\ a \in l + 1 .. l + r
    <3>1. PICK c \in 1 .. r : a = l + c /\ c >= 1
      <4>1. a - l \in 1 .. r /\ a = l + (a - l) /\ a - l >= 1
        BY <1>2, <2>2
      <4> QED
        BY <4>1, Zenon
    <3>2. c \in DOMAIN p[2] /\ p[2][c] = q[i][a]
      BY <1>2, <1>3, <2>2, <3>1, Zenon
    <3> QED
      BY <1>1, <2>2, <3>1, <3>2, Zenon
  <2>3. CASE i # 1
    <3>1. i + 1 \in 1 .. n + 1 /\ i > 1
      BY <2>3
    <3>2. q[i] = p[i + 1]
      BY <2>3, Zenon DEF Merges
    <3> QED
      BY <3>1, <3>2, Zenon
  <2>4. i = 1 => a \in 1 .. l \/ a \in l + 1 .. l + r
    <3>1. i = 1 => a \in 1 .. l + r
      BY <1>3, Zenon
    <3> QED
      BY <1>2, <3>1
  <2> QED
    BY <2>1, <2>2, <2>3, <2>4, Zenon
<1>5. ASSUME NEW k \in 1 .. n + 1, NEW c \in DOMAIN p[k]
      PROVE  \E i \in 1 .. n : \E a \in DOMAIN q[i] : q[i][a] = p[k][c]
  <2>1. CASE k = 1
    <3>1. c \in 1 .. l
      BY <1>2, <2>1, Zenon
    <3>2. c \in 1 .. l + r
      BY <1>2, <3>1
    <3> QED
      BY <1>1, <1>3, <2>1, <3>1, <3>2, Zenon
  <2>2. CASE k = 2
    <3>1. c \in 1 .. r
      BY <1>2, <2>2, Zenon
    <3>2. l + c \in 1 .. l + r
      BY <1>2, <3>1
    <3> QED
      BY <1>1, <1>3, <2>2, <3>1, <3>2, Zenon
  <2>3. CASE k # 1 /\ k # 2
    <3>1. k - 1 \in 1 .. n /\ k - 1 # 1 /\ (k - 1) + 1 = k
      BY <2>3
    <3>2. q[k - 1] = p[k]
      BY <3>1, Zenon DEF Merges
    <3> QED
      BY <3>1, <3>2, Zenon
  <2> QED
    BY <2>1, <2>2, <2>3, Zenon
<1>6. ASSUME NEW i \in 1 .. n, NEW j \in 1 .. n, NEW a \in DOMAIN q[i], NEW b \in DOMAIN q[j],
             i < j \/ (i = j /\ a < b)
      PROVE  q[i][a] < q[j][b]
  <2>1. PICK k \in 1 .. n + 1 : \E c \in DOMAIN p[k] : Same(i, a, k, c)
    BY <1>4, Zenon
  <2>2. PICK c \in DOMAIN p[k] : Same(i, a, k, c)
    BY <2>1, Zenon
  <2>3. PICK g \in 1 .. n + 1 : \E d \in DOMAIN p[g] : Same(j, b, g, d)
    BY <1>4, Zenon
  <2>4. PICK d \in DOMAIN p[g] : Same(j, b, g, d)
    BY <2>3, Zenon
  <2>5. c \in Nat /\ d \in Nat
    <3>1. p[k] \in Seq(Nat) /\ p[g] \in Seq(Nat)
      BY <1>1
    <3> QED
      BY <3>1, ItemAt, Zenon
  <2>6. k < g \/ (k = g /\ c < d)
    <3>1. \/ i = 1 /\ k = 1 /\ a = c /\ c <= l
          \/ i = 1 /\ k = 2 /\ a = l + c /\ c >= 1
          \/ i > 1 /\ k = i + 1 /\ a = c
      BY <2>2, Zenon
    <3>2. \/ j = 1 /\ g = 1 /\ b = d /\ d <= l
          \/ j = 1 /\ g = 2 /\ b = l + d /\ d >= 1
          \/ j > 1 /\ g = j + 1 /\ b = d
      BY <2>4, Zenon
    <3> QED
      BY <1>2, <1>6, <2>5, <3>1, <3>2
  <2>7. p[k][c] < p[g][d]
    BY <1>1, <2>6, Zenon DEF Ordered
  <2> QED
    BY <2>2, <2>4, <2>7, Zenon
<1>7. Ordered(q)
  BY <1>1, <1>6, Zenon DEF Ordered
<1>8. Held(q) \subseteq Held(p)
  <2>1. ASSUME NEW i \in 1 .. n, NEW a \in DOMAIN q[i] PROVE q[i][a] \in Held(p)
    <3>1. PICK k \in 1 .. n + 1 : \E c \in DOMAIN p[k] : Same(i, a, k, c)
      BY <1>4, Zenon
    <3>2. PICK c \in DOMAIN p[k] : p[k][c] = q[i][a]
      BY <3>1, Zenon
    <3>3. p[k][c] \in Held(p)
      BY <1>1, HeldIn, Zenon
    <3> QED
      BY <3>2, <3>3, Zenon
  <2> QED
    BY <1>1, <2>1, HeldWithin, Zenon
<1>9. Held(p) \subseteq Held(q)
  <2>1. ASSUME NEW k \in 1 .. n + 1, NEW c \in DOMAIN p[k] PROVE p[k][c] \in Held(q)
    <3>1. PICK i \in 1 .. n : \E a \in DOMAIN q[i] : q[i][a] = p[k][c]
      BY <1>5, Zenon
    <3>2. PICK a \in DOMAIN q[i] : q[i][a] = p[k][c]
      BY <3>1, Zenon
    <3>3. q[i][a] \in Held(q)
      BY <1>1, HeldIn, Zenon
    <3> QED
      BY <3>2, <3>3, Zenon
  <2> QED
    BY <1>1, <2>1, HeldWithin, Zenon
<1> QED
  BY <1>7, <1>8, <1>9, Zenon

(* The buffers 4 to d + 3 are left out. *)
Skips(p, q, n, d) ==
  /\ p \in Seq(Seq(Nat)) /\ q \in Seq(Seq(Nat)) /\ n \in Nat /\ d \in Nat
  /\ n >= 3 /\ Len(p) = n + d /\ Len(q) = n
  /\ \A i \in 1 .. 3 : q[i] = p[i]
  /\ \A i \in 4 .. n : q[i] = p[i + d]

LEMMA SkipOrder ==
  ASSUME NEW p, NEW q, NEW n, NEW d, Skips(p, q, n, d), Ordered(p)
  PROVE  Ordered(q) /\ Held(q) = Held(p) \ UNION {ToSet(p[i]) : i \in 4 .. d + 3}
<1>0. p \in Seq(Seq(Nat)) /\ q \in Seq(Seq(Nat)) /\ n \in Nat /\ d \in Nat
  BY Zenon DEF Skips
<1> USE <1>0
<1> DEFINE At(i) == IF i <= 3 THEN i ELSE i + d
           gone == UNION {ToSet(p[i]) : i \in 4 .. d + 3}
<1>1. DOMAIN p = 1 .. n + d /\ DOMAIN q = 1 .. n /\ n >= 3
  BY DEF Skips
<1>2. ASSUME NEW i \in 1 .. n PROVE At(i) \in 1 .. n + d /\ q[i] = p[At(i)] /\ ~(At(i) \in 4 .. d + 3)
  <2>1. CASE i <= 3
    <3>1. i \in 1 .. 3 /\ At(i) = i
      BY <2>1
    <3>2. q[i] = p[i]
      BY <3>1, Zenon DEF Skips
    <3>3. i \in 1 .. n + d /\ ~(i \in 4 .. d + 3)
      BY <3>1
    <3> QED
      BY <3>1, <3>2, <3>3, Zenon
  <2>2. CASE ~(i <= 3)
    <3>1. i \in 4 .. n /\ At(i) = i + d
      BY <2>2
    <3>2. q[i] = p[i + d]
      BY <3>1, Zenon DEF Skips
    <3>3. i + d \in 1 .. n + d /\ ~(i + d \in 4 .. d + 3)
      BY <3>1
    <3> QED
      BY <3>1, <3>2, <3>3, Zenon
  <2> QED
    BY <2>1, <2>2
<1>3. ASSUME NEW i \in 1 .. n, NEW j \in 1 .. n, i < j PROVE At(i) < At(j)
  BY <1>3
<1>4. ASSUME NEW k \in 1 .. n + d, ~(k \in 4 .. d + 3) PROVE \E i \in 1 .. n : At(i) = k
  <2>1. CASE k <= 3
    <3>1. k \in 1 .. n /\ At(k) = k
      BY <1>1, <2>1
    <3> QED
      BY <3>1, Zenon
  <2>2. CASE ~(k <= 3)
    <3>1. k - d \in 1 .. n /\ At(k - d) = k
      BY <1>4, <2>2
    <3> QED
      BY <3>1, Zenon
  <2> QED
    BY <2>1, <2>2
<1> HIDE DEF At
<1>5. ASSUME NEW i \in 1 .. n, NEW j \in 1 .. n, NEW a \in DOMAIN q[i], NEW b \in DOMAIN q[j],
             i < j \/ (i = j /\ a < b)
      PROVE  q[i][a] < q[j][b]
  <2>1. /\ At(i) \in DOMAIN p /\ At(j) \in DOMAIN p /\ a \in DOMAIN p[At(i)] /\ b \in DOMAIN p[At(j)]
        /\ q[i] = p[At(i)] /\ q[j] = p[At(j)]
    BY <1>1, <1>2, Zenon
  <2>2. At(i) < At(j) \/ (At(i) = At(j) /\ a < b)
    BY <1>3, <1>5, Zenon
  <2>3. p[At(i)][a] < p[At(j)][b]
    BY <2>1, <2>2, Zenon DEF Ordered
  <2> QED
    BY <2>1, <2>3, Zenon
<1>6. Ordered(q)
  BY <1>1, <1>5, Zenon DEF Ordered
<1>7. ASSUME NEW i \in 1 .. n, NEW a \in DOMAIN q[i] PROVE q[i][a] \in Held(p) \ gone
  <2>1. At(i) \in DOMAIN p /\ a \in DOMAIN p[At(i)] /\ q[i][a] = p[At(i)][a]
    BY <1>1, <1>2, Zenon
  <2>2. p[At(i)][a] \in Held(p)
    BY <2>1, HeldIn, Zenon
  <2>3. ASSUME NEW g \in 4 .. d + 3, NEW c \in DOMAIN p[g], p[g][c] = p[At(i)][a] PROVE FALSE
    <3>1. g \in DOMAIN p /\ (g < At(i) \/ At(i) < g) /\ p[g][c] \in Nat
      <4>1. At(i) \in 1 .. n + d /\ g # At(i)
        BY <1>2, Zenon
      <4>2. g \in 1 .. n + d
        BY <1>1
      <4>3. p[g] \in Seq(Nat)
        BY <1>1, <4>2
      <4>4. p[g][c] \in Nat
        BY <4>3, ItemAt, Zenon
      <4>5. g < At(i) \/ At(i) < g
        BY <4>1, <4>2
      <4> QED
        BY <1>1, <4>2, <4>4, <4>5, Zenon
    <3>2. p[g][c] < p[At(i)][a] \/ p[At(i)][a] < p[g][c]
      BY <2>1, <3>1, Zenon DEF Ordered
    <3>3. p[g][c] < p[g][c]
      BY <2>3, <3>2, Zenon
    <3> QED
      BY <3>1, <3>3
  <2>4. p[At(i)][a] \notin gone
    <3>1. ASSUME NEW g \in 4 .. d + 3, p[At(i)][a] \in ToSet(p[g]) PROVE FALSE
      <4>1. PICK c \in DOMAIN p[g] : p[g][c] = p[At(i)][a]
        BY <3>1, Zenon DEF ToSet
      <4> QED
        BY <2>3, <4>1, Zenon
    <3> QED
      BY <3>1, Zenon
  <2> QED
    BY <2>1, <2>2, <2>4
<1>8. Held(q) \subseteq Held(p) \ gone
  <2> HIDE DEF gone
  <2> QED
    BY <1>1, <1>7, HeldWithin, Zenon
<1>9. Held(p) \subseteq Held(q) \cup gone
  <2>1. ASSUME NEW k \in 1 .. n + d, NEW c \in DOMAIN p[k] PROVE p[k][c] \in Held(q) \cup gone
    <3>1. CASE k \in 4 .. d + 3
      BY <3>1 DEF ToSet
    <3>2. CASE ~(k \in 4 .. d + 3)
      <4>1. PICK i \in 1 .. n : At(i) = k
        BY <1>4, <3>2, Zenon
      <4>2. i \in DOMAIN q /\ c \in DOMAIN q[i] /\ q[i][c] = p[k][c]
        BY <1>1, <1>2, <4>1, Zenon
      <4>3. p[k][c] \in Held(q)
        BY <4>2, HeldIn, Zenon
      <4> QED
        BY <4>3
    <3> QED
      BY <3>1, <3>2, Zenon
  <2> HIDE DEF gone
  <2> QED
    BY <1>1, <2>1, HeldWithin, Zenon
<1> HIDE DEF gone
<1>10. Held(q) = Held(p) \ gone
  BY <1>8, <1>9
<1> QED
  BY <1>6, <1>10 DEF gone

-----------------------------------------------------------------------------
(* The pipeline, after each of the steps. *)
Assoc(x, y, z) == (x \o y) \o z = x \o (y \o z)

LEMMA Associates == \A x, y, z \in Seq(Seq(Nat)) : Assoc(x, y, z)
<1> DEFINE S == Seq(Nat)
<1> HIDE DEF S
<1>1. \A x, y, z \in Seq(S) : Assoc(x, y, z)
  BY ConcatAssociative DEF Assoc
<1> QED
  BY <1>1, Zenon DEF S

LEMMA Concats ==
  \A s, t \in Seq(Seq(Nat)) : /\ Len(s \o t) = Len(s) + Len(t)
                              /\ \A i \in 1 .. Len(t) : (s \o t)[Len(s) + i] = t[i]
<1> DEFINE S == Seq(Nat)
<1> HIDE DEF S
<1>1. \A s, t \in Seq(S) : /\ Len(s \o t) = Len(s) + Len(t)
                           /\ \A i \in 1 .. Len(t) : (s \o t)[Len(s) + i] = t[i]
  BY ConcatAt
<1> QED
  BY <1>1, Zenon DEF S

LEMMA PipeTypes ==
  ASSUME NEW f \in Seq(Nat), NEW u \in Seq(Seq(Nat)), NEW b \in Seq(Seq(Nat)), NEW c \in Seq(Nat)
  PROVE  /\ Piped(f, u, b, c) \in Seq(Seq(Nat))
         /\ <<f>> \in Seq(Seq(Nat)) /\ <<c>> \in Seq(Seq(Nat)) /\ <<f>> \o u \in Seq(Seq(Nat))
         /\ <<f>> \o u \o b \in Seq(Seq(Nat)) /\ b \o <<c>> \in Seq(Seq(Nat))
<1> DEFINE S == Seq(Nat)
<1> HIDE DEF S
<1>0. f \in S /\ c \in S /\ u \in Seq(S) /\ b \in Seq(S)
  BY Zenon DEF S
<1>1. <<f>> \in Seq(S) /\ <<c>> \in Seq(S)
  BY <1>0
<1>2. <<f>> \o u \in Seq(S) /\ b \o <<c>> \in Seq(S)
  BY <1>0, <1>1, ConcatProperties, Zenon
<1>3. <<f>> \o u \o b \in Seq(S)
  BY <1>0, <1>2, ConcatProperties, Zenon
<1>4. <<f>> \o u \o b \o <<c>> \in Seq(S)
  BY <1>1, <1>3, ConcatProperties, Zenon
<1> QED
  BY <1>1, <1>2, <1>3, <1>4, Zenon DEF Piped, S

(* append() to the current buffer. *)
Extended(f, u, b, c, m) ==
  /\ Ordered(Piped(f, u, b, Append(c, m)))
  /\ Held(Piped(f, u, b, Append(c, m))) = Held(Piped(f, u, b, c)) \cup {m}

LEMMA PipeExtended ==
  ASSUME NEW f \in Seq(Nat), NEW u \in Seq(Seq(Nat)), NEW b \in Seq(Seq(Nat)), NEW c \in Seq(Nat),
         NEW m \in Nat, Ordered(Piped(f, u, b, c)), \A x \in Held(Piped(f, u, b, c)) : x < m
  PROVE  Extended(f, u, b, c, m)
<1> DEFINE pre == <<f>> \o u \o b
           d == Append(c, m)
           p == pre \o <<c>>
           q == pre \o <<d>>
           n == Len(pre) + 1
<1>1. d \in Seq(Nat)
  OBVIOUS
<1>2. pre \in Seq(Seq(Nat)) /\ p \in Seq(Seq(Nat)) /\ q \in Seq(Seq(Nat))
      /\ <<c>> \in Seq(Seq(Nat)) /\ <<d>> \in Seq(Seq(Nat))
  BY <1>1, PipeTypes, Zenon DEF Piped
<1>3. p = Piped(f, u, b, c) /\ q = Piped(f, u, b, d)
  BY Zenon DEF Piped
<1>4. /\ Len(p) = Len(pre) + Len(<<c>>) /\ \A i \in 1 .. Len(pre) : p[i] = pre[i]
      /\ \A i \in 1 .. Len(<<c>>) : p[Len(pre) + i] = <<c>>[i]
  <2> HIDE DEF pre, d
  <2> QED
    BY <1>2, ConcatAt
<1>5. /\ Len(q) = Len(pre) + Len(<<d>>) /\ \A i \in 1 .. Len(pre) : q[i] = pre[i]
      /\ \A i \in 1 .. Len(<<d>>) : q[Len(pre) + i] = <<d>>[i]
  <2> HIDE DEF pre, d
  <2> QED
    BY <1>2, ConcatAt
<1> HIDE DEF pre, p, q
<1>6. Len(pre) \in Nat /\ n \in Nat /\ n >= 1
  BY <1>2
<1>7. Len(p) = n /\ Len(q) = n /\ p[n] = c /\ q[n] = d
  <2> HIDE DEF d
  <2>1. Len(<<c>>) = 1 /\ Len(<<d>>) = 1 /\ 1 \in 1 .. 1 /\ <<c>>[1] = c /\ <<d>>[1] = d
    OBVIOUS
  <2> QED
    BY <1>4, <1>5, <2>1, Zenon
<1>8. \A i \in 1 .. n : i # n => q[i] = p[i]
  <2>0. \A k \in Nat : \A i \in 1 .. k + 1 : i # k + 1 => i \in 1 .. k
    OBVIOUS
  <2>1. \A i \in 1 .. n : i # n => i \in 1 .. Len(pre)
    BY <1>6, <2>0, Zenon DEF n
  <2> QED
    BY <1>4, <1>5, <2>1, Zenon
<1>9. q[n] = Append(p[n], m)
  BY <1>7, Zenon
<1>10. Ordered(p) /\ \A x \in Held(p) : x < m
  BY <1>3, Zenon
<1> HIDE DEF n
<1>11. Ordered(q) /\ Held(q) = Held(p) \cup {m}
  <2>1. Extends(p, q, n, m)
    BY <1>2, <1>6, <1>7, <1>8, <1>9, <1>10, Zenon DEF Extends
  <2> QED
    BY <2>1, ExtendOrder, Zenon
<1> QED
  BY <1>3, <1>11, Zenon DEF Extended

(* A buffer more at the end. *)
LEMMA PipeGrown ==
  ASSUME NEW p \in Seq(Seq(Nat)), NEW e \in Seq(Nat), Len(e) <= 1, Ordered(p),
         \A x \in Held(p) : \A a \in DOMAIN e : x < e[a]
  PROVE  Ordered(p \o <<e>>) /\ Held(p \o <<e>>) = Held(p) \cup ToSet(e)
<1> DEFINE q == p \o <<e>>
           n == Len(p)
<1>1. n \in Nat /\ <<e>> \in Seq(Seq(Nat)) /\ Len(<<e>>) = 1 /\ 1 \in 1 .. 1 /\ <<e>>[1] = e
  OBVIOUS
<1>2. /\ q \in Seq(Seq(Nat)) /\ Len(q) = Len(p) + Len(<<e>>) /\ \A i \in 1 .. Len(p) : q[i] = p[i]
      /\ \A i \in 1 .. Len(<<e>>) : q[Len(p) + i] = <<e>>[i]
  BY <1>1, ConcatAt
<1> HIDE DEF q
<1>3. Len(p) = n /\ Len(q) = n + 1 /\ (\A i \in 1 .. n : q[i] = p[i]) /\ q[n + 1] = e
  BY <1>1, <1>2, Zenon
<1> HIDE DEF n
<1>4. Ordered(q) /\ Held(q) = Held(p) \cup ToSet(e)
  <2>1. Grows(p, q, e, n)
    BY <1>1, <1>2, <1>3, Zenon DEF Grows
  <2> QED
    BY <2>1, GrowOrder, Zenon
<1> QED
  BY <1>4, Zenon DEF q

(* The current buffer joins the full ones, *)
Fuller(f, u, b, c, e) == Piped(f, u, Append(b, c), e) = Piped(f, u, b, c) \o <<e>>

LEMMA PipeFull ==
  ASSUME NEW f \in Seq(Nat), NEW u \in Seq(Seq(Nat)), NEW b \in Seq(Seq(Nat)), NEW c \in Seq(Nat), NEW e
  PROVE  Fuller(f, u, b, c, e)
<1> DEFINE h == <<f>> \o u
<1>1. h \in Seq(Seq(Nat)) /\ <<c>> \in Seq(Seq(Nat))
  BY PipeTypes, Zenon
<1>2. Append(b, c) = b \o <<c>>
  OBVIOUS
<1> HIDE DEF h
<1>3. (h \o b) \o <<c>> = h \o (b \o <<c>>)
  <2> DEFINE k == <<c>>
  <2>1. k \in Seq(Seq(Nat)) /\ h \in Seq(Seq(Nat))
    BY <1>1, Zenon
  <2> HIDE DEF k
  <2>2. Assoc(h, b, k)
    BY <2>1, Associates, Zenon
  <2> QED
    BY <2>2, Zenon DEF Assoc, k
<1>4. h \o Append(b, c) = (h \o b) \o <<c>>
  BY <1>2, <1>3, Zenon
<1> QED
  BY <1>4, Zenon DEF Fuller, Piped, h

(* and both are taken. *)
Swapped(f, b, c, e) == Piped(f, Append(b, c), <<>>, e) = Piped(f, <<>>, b, c) \o <<e>>

LEMMA PipeSwapped ==
  ASSUME NEW f \in Seq(Nat), NEW b \in Seq(Seq(Nat)), NEW c \in Seq(Nat), NEW e
  PROVE  Swapped(f, b, c, e)
<1> DEFINE h == <<f>>
           t == Append(b, c)
<1>1. h \in Seq(Seq(Nat)) /\ <<c>> \in Seq(Seq(Nat)) /\ t \in Seq(Seq(Nat)) /\ t = b \o <<c>>
  <2> DEFINE S == Seq(Nat)
  <2>1. f \in S /\ c \in S /\ b \in Seq(S)
    BY Zenon
  <2> HIDE DEF S
  <2>2. <<f>> \in Seq(S) /\ <<c>> \in Seq(S) /\ Append(b, c) \in Seq(S) /\ Append(b, c) = b \o <<c>>
    BY <2>1
  <2> QED
    BY <2>2 DEF S
<1> HIDE DEF h, t
<1>2. h \o <<>> = h
  BY <1>1, ConcatEmptySeq, Zenon
<1>3. h \o t \in Seq(Seq(Nat))
  BY <1>1, ConcatProperties, Zenon
<1>4. (h \o t) \o <<>> = h \o t
  BY <1>3, ConcatEmptySeq, Zenon
<1>5. (h \o b) \o <<c>> = h \o (b \o <<c>>)
  <2> DEFINE k == <<c>>
  <2>1. k \in Seq(Seq(Nat)) /\ h \in Seq(Seq(Nat))
    BY <1>1, Zenon
  <2> HIDE DEF k
  <2>2. Assoc(h, b, k)
    BY <2>1, Associates, Zenon
  <2> QED
    BY <2>2, Zenon DEF Assoc, k
<1>6. (h \o t) \o <<>> = ((h \o <<>>) \o b) \o <<c>>
  BY <1>1, <1>2, <1>4, <1>5, Zenon
<1> QED
  BY <1>6, Zenon DEF Swapped, Piped, h, t

Headed(f, u, b, c) == Piped(f, u, b, c) = <<f>> \o ((u \o b) \o <<c>>)

LEMMA PipeHead ==
  \A f, c \in Seq(Nat) : \A u, b \in Seq(Seq(Nat)) : Headed(f, u, b, c)
<1> SUFFICES ASSUME NEW f \in Seq(Nat), NEW c \in Seq(Nat), NEW u \in Seq(Seq(Nat)), NEW b \in Seq(Seq(Nat))
             PROVE  Headed(f, u, b, c)
  BY Zenon
<1> DEFINE h == <<f>>
           k == <<c>>
<1>1. h \in Seq(Seq(Nat)) /\ k \in Seq(Seq(Nat))
  BY PipeTypes, Zenon
<1> HIDE DEF h, k
<1>2. u \o b \in Seq(Seq(Nat))
  BY ConcatProperties, Zenon
<1>3. Assoc(h, u, b) /\ Assoc(h, u \o b, k)
  BY <1>1, <1>2, Associates, Zenon
<1>4. ((h \o u) \o b) \o k = h \o ((u \o b) \o k)
  BY <1>3 DEF Assoc
<1> QED
  BY <1>4, Zenon DEF Headed, Piped, h, k

(* What a sequence has after its first element. *)
LEMMA AfterFirst ==
  ASSUME NEW S, NEW x \in S, NEW t \in Seq(S)
  PROVE  /\ <<x>> \o t \in Seq(S) /\ Len(<<x>> \o t) = Len(t) + 1 /\ (<<x>> \o t)[1] = x
         /\ \A i \in 2 .. Len(t) + 1 : (<<x>> \o t)[i] = t[i - 1]
OBVIOUS

(* A buffer is written to the file. *)
Written(f, x, u, b, c) ==
  /\ Ordered(Piped(f \o x, u, b, c))
  /\ Held(Piped(f \o x, u, b, c)) = Held(Piped(f, <<x>> \o u, b, c))

LEMMA PipeWritten ==
  ASSUME NEW f \in Seq(Nat), NEW x \in Seq(Nat), NEW u \in Seq(Seq(Nat)), NEW b \in Seq(Seq(Nat)),
         NEW c \in Seq(Nat), Ordered(Piped(f, <<x>> \o u, b, c))
  PROVE  Written(f, x, u, b, c)
<1> DEFINE S == Seq(Nat)
           t == (u \o b) \o <<c>>
           r == <<x>> \o t
           p == <<f>> \o r
           g == f \o x
           q == <<g>> \o t
           n == Len(t) + 1
<1>1. g \in Seq(Nat)
  OBVIOUS
<1>2. <<f>> \in Seq(Seq(Nat)) /\ <<x>> \in Seq(Seq(Nat)) /\ <<g>> \in Seq(Seq(Nat)) /\ <<c>> \in Seq(Seq(Nat))
  BY <1>1, PipeTypes, Zenon
<1>3. u \o b \in Seq(Seq(Nat)) /\ <<x>> \o u \in Seq(Seq(Nat))
  BY <1>2, ConcatProperties, Zenon
<1>4. t \in Seq(Seq(Nat))
  BY <1>2, <1>3, ConcatProperties, Zenon
<1>5. q = Piped(g, u, b, c)
  <2> HIDE DEF g
  <2>1. Headed(g, u, b, c)
    BY <1>1, PipeHead, Zenon
  <2> QED
    BY <2>1, Zenon DEF Headed
<1>6. p = Piped(f, <<x>> \o u, b, c)
  <2>1. Headed(x, u, b, c)
    BY PipeHead, Zenon
  <2> DEFINE w == <<x>> \o u
  <2>2. w \in Seq(Seq(Nat))
    BY <1>3, Zenon
  <2>3. (w \o b) \o <<c>> = r
    BY <2>1, Zenon DEF Headed, Piped
  <2> HIDE DEF w, r
  <2>4. Headed(f, w, b, c)
    BY <2>2, PipeHead, Zenon
  <2>5. Piped(f, w, b, c) = <<f>> \o r
    BY <2>3, <2>4, Zenon DEF Headed
  <2> QED
    BY <2>5, Zenon DEF w
<1> HIDE DEF t
<1>7. f \in S /\ x \in S /\ g \in S /\ t \in Seq(S)
  BY <1>1, <1>4, Zenon
<1> HIDE DEF S
<1>8. /\ r \in Seq(S) /\ Len(r) = Len(t) + 1 /\ r[1] = x
      /\ \A i \in 2 .. Len(t) + 1 : r[i] = t[i - 1]
  BY <1>7, AfterFirst
<1> HIDE DEF g
<1>9. /\ q \in Seq(S) /\ Len(q) = Len(t) + 1 /\ q[1] = g
      /\ \A i \in 2 .. Len(t) + 1 : q[i] = t[i - 1]
  BY <1>7, AfterFirst
<1> HIDE DEF r
<1>10. /\ p \in Seq(S) /\ Len(p) = Len(r) + 1 /\ p[1] = f
       /\ \A i \in 2 .. Len(r) + 1 : p[i] = r[i - 1]
  BY <1>7, <1>8, AfterFirst
<1> HIDE DEF p, q
<1>11. Len(t) \in Nat /\ n \in Nat /\ n >= 1 /\ 2 \in 2 .. n + 1
  BY <1>7
<1>12. Len(p) = n + 1 /\ Len(q) = n /\ \A i \in 2 .. n + 1 : p[i] = r[i - 1]
  BY <1>8, <1>9, <1>10
<1>13. p[2] = x
  BY <1>8, <1>11, <1>12
<1>14. q[1] = p[1] \o p[2]
  BY <1>9, <1>10, <1>13 DEF g
<1>15. \A i \in 1 .. n : i # 1 => q[i] = p[i + 1]
  <2>1. ASSUME NEW i \in 1 .. n, i # 1
        PROVE  i \in 2 .. Len(t) + 1 /\ i + 1 \in 2 .. n + 1 /\ (i + 1) - 1 = i
    BY <1>11, <2>1 DEF n
  <2>2. ASSUME NEW i \in 1 .. n, i # 1
        PROVE  q[i] = p[i + 1]
    <3>1. q[i] = t[i - 1] /\ r[i] = t[i - 1]
      BY <1>8, <1>9, <2>1, <2>2, Zenon
    <3>2. p[i + 1] = r[(i + 1) - 1]
      BY <1>12, <2>1, <2>2, Zenon
    <3> QED
      BY <2>1, <2>2, <3>1, <3>2
  <2> QED
    BY <2>2, Zenon
<1> HIDE DEF n
<1>16. Merges(p, q, n)
  BY <1>11, <1>12, <1>14, <1>15, Zenon DEF Merges
<1>17. p \in Seq(Seq(Nat)) /\ q \in Seq(Seq(Nat)) /\ Ordered(p)
  BY <1>6, <1>9, <1>10, Zenon DEF S
<1>18. Ordered(q) /\ Held(q) = Held(p)
  BY <1>11, <1>16, <1>17, MergeOrder, Zenon
<1> QED
  BY <1>5, <1>6, <1>18, Zenon DEF Written, g

(* The buffers after the first two are thrown away. *)
Skipped(f, v, x, b, c) ==
  /\ Ordered(Piped(f, v, b, c))
  /\ Held(Piped(f, v, b, c)) =
       Held(Piped(f, v \o x, b, c)) \ UNION {ToSet((v \o x)[i]) : i \in 3 .. Len(v \o x)}
  /\ UNION {ToSet((v \o x)[i]) : i \in 3 .. Len(v \o x)} \subseteq Held(Piped(f, v \o x, b, c))

LEMMA PipeSkipped ==
  ASSUME NEW f \in Seq(Nat), NEW v \in Seq(Seq(Nat)), NEW x \in Seq(Seq(Nat)), NEW b \in Seq(Seq(Nat)),
         NEW c \in Seq(Nat), Len(v) = 2, Ordered(Piped(f, v \o x, b, c))
  PROVE  Skipped(f, v, x, b, c)
<1> DEFINE S == Seq(Nat)
           t == b \o <<c>>
           h == <<f>> \o v
           r == x \o t
           p == h \o r
           q == h \o t
           n == Len(t) + 3
           d == Len(x)
<1>1. <<f>> \in Seq(Seq(Nat)) /\ <<c>> \in Seq(Seq(Nat)) /\ h \in Seq(Seq(Nat)) /\ t \in Seq(Seq(Nat))
  BY PipeTypes, Zenon
<1>2. v \o x \in Seq(Seq(Nat)) /\ r \in Seq(Seq(Nat))
  BY <1>1, ConcatProperties, Zenon
<1>3. q = Piped(f, v, b, c)
  <2> DEFINE k == <<c>>
  <2>1. h \in Seq(Seq(Nat)) /\ k \in Seq(Seq(Nat))
    BY <1>1, Zenon
  <2> HIDE DEF h, k
  <2>2. Assoc(h, b, k)
    BY <2>1, Associates, Zenon
  <2> QED
    BY <2>2, Zenon DEF Assoc, Piped, h, k
<1>4. p = Piped(f, v \o x, b, c)
  <2> DEFINE k == <<c>>
             e == <<f>>
  <2>1. e \in Seq(Seq(Nat)) /\ k \in Seq(Seq(Nat)) /\ h \in Seq(Seq(Nat)) /\ h = e \o v
    BY <1>1, Zenon
  <2> HIDE DEF e, k, h
  <2>2. x \o b \in Seq(Seq(Nat))
    BY ConcatProperties, Zenon
  <2>3. Assoc(e, v, x) /\ Assoc(h, x, b) /\ Assoc(h, x \o b, k) /\ Assoc(x, b, k)
    BY <2>1, <2>2, Associates, Zenon
  <2>4. (e \o (v \o x)) \o b = h \o (x \o b)
    BY <2>1, <2>3 DEF Assoc
  <2>5. ((e \o (v \o x)) \o b) \o k = h \o (x \o (b \o k))
    BY <2>3, <2>4 DEF Assoc
  <2> QED
    BY <2>5, Zenon DEF Piped, e, k
<1>5. Len(h) = 3
  <2>1. Len(<<f>>) = 1 /\ Len(h) = Len(<<f>>) + Len(v)
    BY <1>1, ConcatProperties, Zenon
  <2> QED
    BY <2>1
<1> HIDE DEF h, t
<1>6. /\ Len(r) = Len(x) + Len(t) /\ \A i \in 1 .. Len(x) : r[i] = x[i]
      /\ \A i \in 1 .. Len(t) : r[Len(x) + i] = t[i]
  BY <1>1, ConcatAt
<1>7. /\ q \in Seq(Seq(Nat)) /\ Len(q) = Len(h) + Len(t) /\ \A i \in 1 .. Len(h) : q[i] = h[i]
      /\ \A i \in 1 .. Len(t) : q[Len(h) + i] = t[i]
  BY <1>1, ConcatAt
<1> HIDE DEF r
<1>8. /\ p \in Seq(Seq(Nat)) /\ Len(p) = Len(h) + Len(r) /\ \A i \in 1 .. Len(h) : p[i] = h[i]
      /\ \A i \in 1 .. Len(r) : p[Len(h) + i] = r[i]
  BY <1>1, <1>2, ConcatAt
<1> HIDE DEF p, q
<1>9. /\ Len(v \o x) = Len(v) + Len(x)
      /\ \A i \in 1 .. Len(x) : (v \o x)[Len(v) + i] = x[i]
  BY Concats, Zenon
<1>10. Len(t) \in Nat /\ d \in Nat /\ n \in Nat /\ n >= 3
  BY <1>1
<1>11. /\ Len(p) = n + d /\ Len(q) = n /\ Len(r) = d + Len(t)
       /\ (\A i \in 1 .. 3 : q[i] = h[i] /\ p[i] = h[i])
       /\ (\A i \in 1 .. Len(t) : q[3 + i] = t[i] /\ r[d + i] = t[i])
       /\ \A i \in 1 .. d + Len(t) : p[3 + i] = r[i]
  <2>1. Len(r) = d + Len(t) /\ \A i \in 1 .. Len(t) : r[d + i] = t[i]
    BY <1>6, Zenon
  <2>2. Len(q) = 3 + Len(t) /\ (\A i \in 1 .. 3 : q[i] = h[i]) /\ \A i \in 1 .. Len(t) : q[3 + i] = t[i]
    BY <1>5, <1>7
  <2>3. Len(p) = 3 + Len(r) /\ (\A i \in 1 .. 3 : p[i] = h[i]) /\ \A i \in 1 .. Len(r) : p[3 + i] = r[i]
    BY <1>5, <1>8
  <2> HIDE DEF d
  <2>4. Len(p) = n + d /\ Len(q) = n
    BY <1>10, <2>1, <2>2, <2>3
  <2>5. \A i \in 1 .. d + Len(t) : p[3 + i] = r[i]
    BY <2>1, <2>3
  <2> QED
    BY <2>1, <2>2, <2>3, <2>4, <2>5, Zenon
<1> HIDE DEF d
<1>12. \A i \in 4 .. n : q[i] = p[i + d]
  <2> SUFFICES ASSUME NEW i \in 4 .. n
               PROVE  q[i] = p[i + d]
    OBVIOUS
  <2> DEFINE j == i - 3
  <2>1. j \in 1 .. Len(t) /\ i = 3 + j /\ d + j \in 1 .. d + Len(t) /\ i + d = 3 + (d + j)
    BY <1>10
  <2> HIDE DEF j
  <2>2. q[3 + j] = t[j] /\ r[d + j] = t[j] /\ p[3 + (d + j)] = r[d + j]
    BY <1>11, <2>1, Zenon
  <2> QED
    BY <2>1, <2>2
<1>13. Skips(p, q, n, d)
  <2> HIDE DEF n
  <2> QED
    BY <1>7, <1>8, <1>10, <1>11, <1>12, Zenon DEF Skips
<1>14. Ordered(p)
  BY <1>4, Zenon
<1>15. Ordered(q) /\ Held(q) = Held(p) \ UNION {ToSet(p[i]) : i \in 4 .. d + 3}
  <2> HIDE DEF n
  <2> QED
    BY <1>13, <1>14, SkipOrder, Zenon
<1>16. UNION {ToSet(p[i]) : i \in 4 .. d + 3} = UNION {ToSet((v \o x)[i]) : i \in 3 .. Len(v \o x)}
  <2> DEFINE w == v \o x
  <2>0. Len(w) = Len(v) + Len(x) /\ \A i \in 1 .. Len(x) : w[Len(v) + i] = x[i]
    BY <1>9, Zenon
  <2> HIDE DEF w
  <2>1. Len(w) = d + 2 /\ \A i \in 1 .. d : w[2 + i] = x[i]
    <3>1. Len(w) = 2 + d /\ \A i \in 1 .. d : w[2 + i] = x[i]
      BY <2>0, Zenon DEF d
    <3> QED
      BY <1>10, <3>1
  <2>2. \A i \in 1 .. d : p[3 + i] = x[i]
    <3>1. \A i \in 1 .. d : i \in 1 .. d + Len(t) /\ r[i] = x[i]
      BY <1>6, <1>10 DEF d
    <3> QED
      BY <1>11, <3>1, Zenon
  <2>3. \A i \in 1 .. d : p[3 + i] = w[2 + i]
    BY <2>1, <2>2, Zenon
  <2>4. \A i \in 4 .. d + 3 : i - 1 \in 3 .. Len(w) /\ p[i] = w[i - 1]
    <3> SUFFICES ASSUME NEW i \in 4 .. d + 3 PROVE i - 1 \in 3 .. Len(w) /\ p[i] = w[i - 1]
      BY Zenon
    <3>1. i - 3 \in 1 .. d /\ 3 + (i - 3) = i /\ 2 + (i - 3) = i - 1 /\ i - 1 \in 3 .. Len(w)
      BY <1>10, <2>1
    <3>2. p[3 + (i - 3)] = w[2 + (i - 3)]
      BY <2>3, <3>1, Zenon
    <3> QED
      BY <3>1, <3>2
  <2>5. \A i \in 3 .. Len(w) : i + 1 \in 4 .. d + 3 /\ p[i + 1] = w[i]
    <3> SUFFICES ASSUME NEW i \in 3 .. Len(w) PROVE i + 1 \in 4 .. d + 3 /\ p[i + 1] = w[i]
      OBVIOUS
    <3>1. i - 2 \in 1 .. d /\ 3 + (i - 2) = i + 1 /\ 2 + (i - 2) = i /\ i + 1 \in 4 .. d + 3
      BY <1>10, <2>1
    <3>2. p[3 + (i - 2)] = w[2 + (i - 2)]
      BY <2>3, <3>1, Zenon
    <3> QED
      BY <3>1, <3>2
  <2>6. {ToSet(p[i]) : i \in 4 .. d + 3} = {ToSet(w[i]) : i \in 3 .. Len(w)}
    BY <2>4, <2>5, Zenon
  <2> QED
    BY <2>6, Zenon DEF w
<1>17. UNION {ToSet(p[i]) : i \in 4 .. d + 3} \subseteq Held(p)
  <2>1. \A i \in 4 .. d + 3 : i \in DOMAIN p
    <3>1. p \in Seq(Seq(Nat)) /\ Len(p) = n + d
      BY <1>8, <1>11, Zenon
    <3>2. DOMAIN p = 1 .. n + d
      BY <3>1
    <3>3. \A i \in 4 .. d + 3 : i \in 1 .. n + d
      <4>1. d \in Nat /\ n \in Nat /\ n >= 3
        BY <1>10, Zenon
      <4> HIDE DEF n
      <4> QED
        BY <4>1
    <3> QED
      BY <3>2, <3>3, Zenon
  <2> QED
    BY <2>1, Zenon DEF Held
<1> QED
  BY <1>3, <1>4, <1>15, <1>16, <1>17, Zenon DEF Skipped

-----------------------------------------------------------------------------
(* The types, in three parts: the LogFile, the buffers and the threads. *)
BufferTypes ==
  /\ currentBuffer_ \in Buffers /\ buffers_ \in Seq(Buffers) /\ buffersToWrite \in Seq(Buffers)
  /\ written \in 0 .. Len(buffersToWrite)
  /\ lines \in 0 .. MaxLines /\ dropped \subseteq 1 .. MaxLines

ThreadTypes ==
  /\ running_ \in BOOLEAN /\ latch_ \in 0 .. 1
  /\ nextBuffer_ \in BOOLEAN /\ newBuffer1 \in BOOLEAN /\ newBuffer2 \in BOOLEAN
  /\ writerPc \in {"none", "new", "check", "lock", "waiting", "drop", "write", "done"}
  /\ notified \in BOOLEAN
  /\ userPc \in {"idle", "starting", "started", "notify", "join", "stopped"}
  /\ failed \in BOOLEAN

LEMMA TypesSplit == ALTypeOK <=> LFTypeOK /\ BufferTypes /\ ThreadTypes
BY Zenon DEF ALTypeOK, BufferTypes, ThreadTypes

LEMMA AppendTypes ==
  ASSUME LFTypeOK, NEW text \in Seq(Nat), NEW n \in Nat, AppendUnlocked(text, n), UNCHANGED now
  PROVE  LFTypeOK'
<1>1. /\ file' \in Seq(Nat) /\ Len(file') \in Nat /\ Len(file) \in Nat /\ Len(file) <= Len(file')
  BY DEF LFTypeOK, AppendUnlocked, AppendToFile
<1>9. large' \in Nat /\ stale' \in Nat
  BY DEF LFTypeOK, AppendUnlocked, AppendToFile
<1>2. (Period(lastRoll_))' = Period(lastRoll_') /\ kCheckTimeRoll_ \in Nat
  BY LogFileAssumption DEF Period
<1>3. ASSUME Keep(n)
      PROVE  /\ startOfPeriod_' = Period(lastRoll_') /\ lastRoll_' \in 1 .. now' /\ lastRoll_' = lastRoll_
             /\ writtenBytes_' \in Nat /\ rolled' \in BOOLEAN
  <2>1. rolled' \in BOOLEAN
    BY <1>3, Zenon DEF Keep
  <2>2. /\ startOfPeriod_' = Period(lastRoll_') /\ lastRoll_' \in 1 .. now' /\ lastRoll_' = lastRoll_
        /\ writtenBytes_' \in Nat
    BY <1>3 DEF LFTypeOK, Keep
  <2> QED
    BY <2>1, <2>2, Zenon
<1>4. ASSUME RollFile(n)
      PROVE  /\ startOfPeriod_' = Period(lastRoll_') /\ lastRoll_' \in 1 .. now' /\ lastFlush_' \in lastRoll_' .. now'
             /\ flushed' \in 0 .. Len(file') /\ writtenBytes_' \in Nat /\ rolled' \in BOOLEAN
  <2>1. CASE now > lastRoll_
    <3>1. /\ lastRoll_' = now /\ lastFlush_' = now /\ startOfPeriod_' = Period(now)
          /\ writtenBytes_' = 0 /\ rolled' = TRUE /\ flushed' = Len(file')
      BY <1>4, <2>1 DEF RollFile
    <3>2. startOfPeriod_' = Period(lastRoll_')
      BY <3>1
    <3>3. now \in 1 .. MaxNow /\ now' = now
      BY DEF LFTypeOK
    <3> QED
      BY <1>1, <3>1, <3>2, <3>3
  <2>2. CASE ~(now > lastRoll_)
    <3>1. Keep(n) /\ lastFlush_' = lastFlush_ /\ flushed' = flushed
      BY <1>4, <2>2 DEF RollFile
    <3>2. /\ startOfPeriod_' = Period(lastRoll_') /\ lastRoll_' \in 1 .. now' /\ lastRoll_' = lastRoll_
          /\ writtenBytes_' \in Nat /\ rolled' \in BOOLEAN
      BY <1>3, <3>1
    <3>3. lastFlush_ \in lastRoll_ .. now /\ flushed \in 0 .. Len(file)
      BY DEF LFTypeOK
    <3> QED
      BY <1>1, <3>1, <3>2, <3>3
  <2> QED
    BY <2>1, <2>2, Zenon
<1>5. ASSUME Keep(n), UNCHANGED <<lastFlush_, flushed>> \/ (lastFlush_' = now /\ flushed' = Len(file'))
      PROVE  lastFlush_' \in lastRoll_' .. now' /\ flushed' \in 0 .. Len(file')
  BY <1>1, <1>3, <1>5 DEF LFTypeOK
<1>6. count_' \in 0 .. kCheckTimeRoll_ + 1
  BY <1>2 DEF LFTypeOK, AppendUnlocked
<1>7. now' \in 1 .. MaxNow
  BY DEF LFTypeOK
<1>8. \/ RollFile(n)
      \/ Keep(n) /\ (UNCHANGED <<lastFlush_, flushed>> \/ (lastFlush_' = now /\ flushed' = Len(file')))
  BY DEF AppendUnlocked
<1> QED
  BY <1>1, <1>2, <1>3, <1>4, <1>5, <1>6, <1>7, <1>8, <1>9 DEF LFTypeOK

LEMMA LogFileTypes ==
  ASSUME LFTypeOK, UNCHANGED <<lfvars, now>> \/ (OpenLogFile /\ UNCHANGED now) \/ (Flush /\ UNCHANGED now) \/ Tick
  PROVE  LFTypeOK'
<1>1. (Period(lastRoll_))' = Period(lastRoll_')
  BY DEF Period
<1>2. CASE UNCHANGED <<lfvars, now>>
  BY <1>1, <1>2 DEF LFTypeOK, lfvars
<1>3. CASE OpenLogFile /\ UNCHANGED now
  BY <1>1, <1>3 DEF LFTypeOK, OpenLogFile
<1>4. CASE Flush /\ UNCHANGED now
  BY <1>1, <1>4 DEF LFTypeOK, Flush
<1>5. CASE Tick
  <2>1. MaxNow \in Nat
    BY LogFileAssumption
  <2> QED
    BY <1>1, <1>5, <2>1 DEF LFTypeOK, Tick, lfvars
<1> QED
  BY <1>2, <1>3, <1>4, <1>5, Zenon

(* A buffer is a sequence of numbers. *)
LEMMA BufferIsText == \A b \in Buffers : b \in Seq(Nat) /\ ToSet(b) \subseteq 1 .. MaxLines
<1> SUFFICES ASSUME NEW b \in Buffers PROVE b \in Seq(Nat) /\ ToSet(b) \subseteq 1 .. MaxLines
  OBVIOUS
<1>1. b \in Seq(1 .. MaxLines) /\ MaxLines \in Nat
  BY AsyncLoggingAssumption DEF Buffers
<1> QED
  BY <1>1 DEF ToSet

LEMMA BufferAt ==
  ASSUME NEW s \in Seq(Buffers), NEW i \in 1 .. Len(s)
  PROVE  s[i] \in Buffers
OBVIOUS

LEMMA LFTypeStep ==
  ASSUME ALTypeOK, ALInv, [ALNext]_alvars
  PROVE  LFTypeOK'
<1>1. LFTypeOK /\ BufferTypes
  BY TypesSplit, Zenon
<1>2. ASSUME DropBuffers, ~UNCHANGED lfvars
      PROVE  LFTypeOK'
  <2>1. AppendUnlocked(<<>>, LineSize) /\ UNCHANGED now
    BY <1>2 DEF DropBuffers
  <2>2. LineSize \in Nat /\ <<>> \in Seq(Nat)
    BY AsyncLoggingAssumption
  <2> QED
    BY <1>1, <2>1, <2>2, AppendTypes, Zenon
<1>3. ASSUME WriteBuffer
      PROVE  LFTypeOK'
  <2> DEFINE b == buffersToWrite[written + 1]
  <2>1. written + 1 \in 1 .. Len(buffersToWrite)
    BY <1>1, <1>3 DEF WriteBuffer, BufferTypes
  <2>2. b \in Seq(Nat)
    BY <1>1, <2>1, BufferAt, BufferIsText, Zenon DEF BufferTypes
  <2>3. Len(b) * LineSize \in Nat
    <3> HIDE DEF b
    <3>1. Len(b) \in Nat /\ LineSize \in Nat
      BY <2>2, AsyncLoggingAssumption
    <3> QED
      BY <3>1
  <2>4. AppendUnlocked(b, Len(b) * LineSize) /\ UNCHANGED now
    BY <1>3 DEF WriteBuffer
  <2> HIDE DEF b
  <2> QED
    BY <1>1, <2>2, <2>3, <2>4, AppendTypes, Zenon
<1>4. \/ UNCHANGED <<lfvars, now>> \/ (OpenLogFile /\ UNCHANGED now) \/ (Flush /\ UNCHANGED now) \/ Tick
      \/ (DropBuffers /\ ~UNCHANGED lfvars) \/ WriteBuffer
  BY Zenon DEF ALNext, alvars, Writer, Start, StartReturns, Stop, StopNotify, StopReturns, AppendLine, ThreadFunc,
         CheckRunning, LockAndTest, WakeUp, DropBuffers, RecycleBuffers, TickClock
<1> QED
  BY <1>1, <1>2, <1>3, <1>4, LogFileTypes, Zenon

LEMMA ThreadTypeStep ==
  ASSUME ALTypeOK, [ALNext]_alvars
  PROVE  ThreadTypes'
<1>0. ThreadTypes
  BY TypesSplit, Zenon
<1>1. CASE UNCHANGED alvars
  BY <1>0, <1>1 DEF ThreadTypes, alvars, front, back
<1>2. CASE Start \/ StartReturns \/ Stop \/ StopReturns
  <2>1. CASE Start
    BY <1>0, <2>1, Zenon DEF ThreadTypes, Start, front, back
  <2>2. CASE Stop
    BY <1>0, <2>2, Zenon DEF ThreadTypes, Stop, front, back
  <2>3. CASE StartReturns \/ StopReturns
    BY <1>0, <2>3, Zenon DEF ThreadTypes, StartReturns, StopReturns, front, back
  <2> QED
    BY <1>2, <2>1, <2>2, <2>3, Zenon
<1>3. CASE StopNotify
  BY <1>0, <1>3 DEF ThreadTypes, StopNotify, front, back
<1>4. CASE AppendLine
  <2>1. /\ UNCHANGED <<running_, latch_, newBuffer1, newBuffer2, writerPc, userPc, failed>>
        /\ \/ UNCHANGED <<nextBuffer_, notified>>
           \/ nextBuffer_' = FALSE /\ notified' = (notified \/ writerPc = "waiting")
    BY <1>4, Zenon DEF AppendLine, back
  <2>2. nextBuffer_' \in BOOLEAN /\ notified' \in BOOLEAN
    BY <1>0, <2>1, Zenon DEF ThreadTypes
  <2> QED
    BY <1>0, <2>1, <2>2, Zenon DEF ThreadTypes
<1>5. CASE ThreadFunc
  BY <1>0, <1>5 DEF ThreadTypes, ThreadFunc, front, back
<1>6. CASE CheckRunning
  BY <1>0, <1>6, Zenon DEF ThreadTypes, CheckRunning, front, back
<1>7. CASE LockAndTest \/ WakeUp
  BY <1>0, <1>7, Zenon DEF ThreadTypes, LockAndTest, WakeUp, SwapBuffers, front
<1>8. CASE DropBuffers
  BY <1>0, <1>8 DEF ThreadTypes, DropBuffers, front
<1>9. CASE WriteBuffer
  BY <1>0, <1>9 DEF ThreadTypes, WriteBuffer, front
<1>10. CASE RecycleBuffers
  <2>1. Recycled \in BOOLEAN /\ (~Recycled) \in BOOLEAN
    <3>1. (Len(buffersToWrite) >= 1) \in BOOLEAN /\ (Len(buffersToWrite) >= 2) \in BOOLEAN
      OBVIOUS
    <3> QED
      BY <3>1, Zenon DEF Recycled
  <2>2. /\ writerPc' = "check" /\ failed' = ~Recycled /\ newBuffer1' = TRUE /\ newBuffer2' = Recycled
        /\ UNCHANGED <<running_, latch_, nextBuffer_, notified, userPc>>
    BY <1>10, Zenon DEF RecycleBuffers, front
  <2>3. failed' \in BOOLEAN /\ newBuffer2' \in BOOLEAN
    BY <2>1, <2>2, Zenon
  <2> QED
    BY <1>0, <2>2, <2>3 DEF ThreadTypes
<1>11. CASE TickClock
  BY <1>0, <1>11 DEF ThreadTypes, TickClock, front, back
<1> QED
  BY <1>1, <1>2, <1>3, <1>4, <1>5, <1>6, <1>7, <1>8, <1>9, <1>10, <1>11, Zenon DEF ALNext, Writer

LEMMA BufferTypeStep ==
  ASSUME ALTypeOK, ALInv, [ALNext]_alvars
  PROVE  BufferTypes'
<1>0. BufferTypes /\ ThreadsInv
  BY TypesSplit, Zenon DEF ALInv
<1>1. ASSUME UNCHANGED <<front, back, lines, dropped>>
      PROVE  BufferTypes'
  BY <1>0, <1>1 DEF BufferTypes, front, back
<1>2. ASSUME AppendLine
      PROVE  BufferTypes'
  <2>1. lines' = lines + 1 /\ lines' \in 1 .. MaxLines
    <3>1. lines < MaxLines /\ lines' = lines + 1 /\ lines \in 0 .. MaxLines /\ MaxLines \in Nat
      BY <1>0, <1>2, AsyncLoggingAssumption, Zenon DEF AppendLine, BufferTypes
    <3> QED
      BY <3>1
  <2>2. UNCHANGED <<buffersToWrite, written, dropped>>
    BY <1>2 DEF AppendLine, back
  <2>3. Append(currentBuffer_, lines') \in Buffers /\ <<lines'>> \in Buffers
    BY <1>0, <2>1 DEF BufferTypes, Buffers
  <2>4. Append(buffers_, currentBuffer_) \in Seq(Buffers)
    BY <1>0 DEF BufferTypes
  <2>5. \/ currentBuffer_' = Append(currentBuffer_, lines') /\ buffers_' = buffers_
        \/ currentBuffer_' = <<lines'>> /\ buffers_' = Append(buffers_, currentBuffer_)
    BY <1>2 DEF AppendLine
  <2>6. currentBuffer_' \in Buffers /\ buffers_' \in Seq(Buffers)
    BY <1>0, <2>3, <2>4, <2>5, Zenon DEF BufferTypes
  <2>7. Buffers' = Buffers
    BY Zenon DEF Buffers
  <2> QED
    BY <1>0, <2>1, <2>2, <2>6, <2>7 DEF BufferTypes
<1>3. ASSUME LockAndTest \/ WakeUp
      PROVE  BufferTypes'
  <2>1. UNCHANGED <<written, lines, dropped>>
    BY <1>3 DEF LockAndTest, WakeUp
  <2>2. CASE UNCHANGED <<front, newBuffer1, newBuffer2, buffersToWrite>>
    BY <1>1, <2>1, <2>2 DEF back
  <2>3. CASE SwapBuffers
    <3>1. written = 0
      <4>1. buffersToWrite = <<>>
        BY <1>3 DEF ALInv, BuffersInv, LockAndTest, WakeUp
      <4> QED
        BY <1>0, <4>1 DEF BufferTypes
    <3>2. Append(buffers_, currentBuffer_) \in Seq(Buffers) /\ <<>> \in Seq(Buffers) /\ <<>> \in Buffers
      BY <1>0 DEF BufferTypes, Buffers
    <3>3. buffersToWrite' = Append(buffers_, currentBuffer_) /\ buffers_' = <<>> /\ currentBuffer_' = <<>>
      BY <2>3 DEF SwapBuffers
    <3>4. buffersToWrite' \in Seq(Buffers) /\ Len(buffersToWrite') \in Nat
      BY <3>2, <3>3
    <3> QED
      BY <1>0, <2>1, <3>1, <3>2, <3>3, <3>4 DEF BufferTypes, Buffers
  <2> QED
    BY <1>3, <2>2, <2>3, Zenon DEF LockAndTest, WakeUp
<1>4. ASSUME DropBuffers
      PROVE  BufferTypes'
  <2>1. written' = 0 /\ written = 0 /\ UNCHANGED <<front, newBuffer1, newBuffer2, lines>>
    BY <1>0, <1>4 DEF DropBuffers, ThreadsInv
  <2>2. CASE UNCHANGED <<dropped, buffersToWrite>>
    BY <1>1, <2>1, <2>2 DEF back
  <2>3. CASE /\ Len(buffersToWrite) > kMaxBuffers
             /\ dropped' = dropped \cup UNION {ToSet(buffersToWrite[i]) : i \in 3 .. Len(buffersToWrite)}
             /\ buffersToWrite' = SubSeq(buffersToWrite, 1, 2)
    <3>1. buffersToWrite' \in Seq(Buffers) /\ Len(buffersToWrite') \in Nat
      BY <1>0, <2>3, AsyncLoggingAssumption DEF BufferTypes
    <3>2. \A i \in 3 .. Len(buffersToWrite) : ToSet(buffersToWrite[i]) \subseteq 1 .. MaxLines
      <4>1. \A i \in 3 .. Len(buffersToWrite) : i \in 1 .. Len(buffersToWrite)
        BY <1>0 DEF BufferTypes
      <4> QED
        BY <1>0, <4>1, BufferAt, BufferIsText, Zenon DEF BufferTypes
    <3>3. dropped' \subseteq 1 .. MaxLines
      BY <1>0, <2>3, <3>2, Zenon DEF BufferTypes
    <3> QED
      BY <1>0, <2>1, <3>1, <3>3 DEF BufferTypes, front, Buffers
  <2> QED
    BY <1>4, <2>2, <2>3, Zenon DEF DropBuffers
<1>5. ASSUME WriteBuffer
      PROVE  BufferTypes'
  BY <1>0, <1>5 DEF BufferTypes, WriteBuffer, front, Buffers
<1>6. ASSUME RecycleBuffers
      PROVE  BufferTypes'
  BY <1>0, <1>6 DEF BufferTypes, RecycleBuffers, front, Buffers
<1> QED
  BY <1>1, <1>2, <1>3, <1>4, <1>5, <1>6, Zenon
  DEF ALNext, alvars, Writer, Start, StartReturns, Stop, StopNotify, StopReturns, ThreadFunc, CheckRunning, TickClock

LEMMA TypesInit == ALInit => ALTypeOK
<1> SUFFICES ASSUME ALInit PROVE ALTypeOK
  OBVIOUS
<1>1. LFTypeOK
  <2>1. MaxNow \in Nat \ {0} /\ kCheckTimeRoll_ \in Nat
    BY LogFileAssumption
  <2>2. startOfPeriod_ = Period(lastRoll_)
    BY DEF ALInit, LFInit
  <2>3. now = 1 /\ file = <<>> /\ flushed = 0 /\ writtenBytes_ = 0 /\ count_ = 0
        /\ lastRoll_ = 1 /\ lastFlush_ = 1 /\ large = 0 /\ stale = 0 /\ rolled = FALSE
    BY DEF ALInit, LFInit
  <2>4. rolled \in BOOLEAN
    BY <2>3, Zenon
  <2> QED
    BY <2>1, <2>2, <2>3, <2>4 DEF LFTypeOK
<1>2. BufferTypes
  BY AsyncLoggingAssumption DEF ALInit, BufferTypes, Buffers
<1>3. ThreadTypes
  <2>1. /\ running_ = FALSE /\ latch_ = 1 /\ nextBuffer_ = TRUE /\ newBuffer1 = TRUE /\ newBuffer2 = TRUE
        /\ writerPc = "none" /\ notified = FALSE /\ userPc = "idle" /\ failed = FALSE
    BY Zenon DEF ALInit
  <2>2. latch_ \in 0 .. 1
    BY <2>1
  <2> QED
    BY <2>1, <2>2, Zenon DEF ThreadTypes
<1> QED
  BY <1>1, <1>2, <1>3, TypesSplit, Zenon

-----------------------------------------------------------------------------
(* The lines: in their order, and all of them. *)
Unwritten == SubSeq(buffersToWrite, written + 1, Len(buffersToWrite))

LineInv == dropped \subseteq 1 .. lines /\ Ordered(Pipeline) /\ Held(Pipeline) = (1 .. lines) \ dropped

LEMMA PipelineIsPiped == Pipeline = Piped(file, Unwritten, buffers_, currentBuffer_)
BY Zenon DEF Pipeline, Piped, Unwritten

LEMMA PipelineTypes ==
  ASSUME ALTypeOK, ALInv
  PROVE  /\ file \in Seq(Nat) /\ buffers_ \in Seq(Seq(Nat)) /\ currentBuffer_ \in Seq(Nat)
         /\ buffersToWrite \in Seq(Seq(Nat)) /\ Unwritten \in Seq(Seq(Nat))
         /\ written \in 0 .. Len(buffersToWrite) /\ lines \in Nat /\ dropped \subseteq 1 .. MaxLines
<1>1. /\ buffers_ \in Seq(Seq(Nat)) /\ currentBuffer_ \in Seq(Nat) /\ buffersToWrite \in Seq(Seq(Nat))
      /\ written \in 0 .. Len(buffersToWrite) /\ lines \in Nat
  BY Zenon DEF ALInv, BuffersInv
<1>2. file \in Seq(Nat) /\ dropped \subseteq 1 .. MaxLines
  BY Zenon DEF ALTypeOK, LFTypeOK
<1>3. Unwritten \in Seq(Seq(Nat))
  BY <1>1 DEF Unwritten
<1> QED
  BY <1>1, <1>2, <1>3, Zenon

LEMMA LineInit == ALInit => LineInv
<1> SUFFICES ASSUME ALInit PROVE LineInv
  OBVIOUS
<1> DEFINE p == Pipeline
<1>1. p \in Seq({<<>>}) /\ Len(p) = 2
  <2> DEFINE e == <<>>
             s == <<e>>
  <2>1. file = e /\ buffersToWrite = <<>> /\ written = 0 /\ buffers_ = <<>> /\ currentBuffer_ = e
    BY Zenon DEF ALInit, LFInit
  <2>2. SubSeq(buffersToWrite, written + 1, Len(buffersToWrite)) = <<>>
    BY <2>1
  <2>3. p = s \o <<>> \o <<>> \o s
    BY <2>1, <2>2 DEF Pipeline
  <2> HIDE DEF e
  <2>4. s \in Seq({e}) /\ s \o <<>> = s
    OBVIOUS
  <2>5. p = s \o s
    BY <2>3, <2>4
  <2>6. Len(s) = 1 /\ s \o s \in Seq({e}) /\ Len(s \o s) = Len(s) + Len(s)
    BY <2>4, ConcatProperties
  <2>7. p \in Seq({e}) /\ Len(p) = 2
    BY <2>5, <2>6
  <2> QED
    BY <2>7, Zenon DEF e
<1> HIDE DEF p
<1>2. DOMAIN p = 1 .. 2 /\ \A i \in 1 .. 2 : p[i] = <<>>
  <2> DEFINE E == {<<>>}
  <2>1. p \in Seq(E) /\ Len(p) = 2
    BY <1>1, Zenon
  <2> HIDE DEF E
  <2>2. DOMAIN p = 1 .. 2 /\ \A i \in 1 .. 2 : p[i] \in E
    BY <2>1
  <2> QED
    BY <2>2, Zenon DEF E
<1>3. \A i \in DOMAIN p : DOMAIN p[i] = {}
  BY <1>2
<1>4. Ordered(p)
  BY <1>3, Zenon DEF Ordered
<1>5. Held(p) = {}
  BY <1>3 DEF Held, ToSet
<1>6. lines = 0 /\ dropped = {} /\ 1 .. 0 = {}
  BY DEF ALInit
<1> QED
  BY <1>4, <1>5, <1>6 DEF LineInv, p

LEMMA AppendKeepsLines ==
  ASSUME ALTypeOK, ALInv, LineInv, AppendLine
  PROVE  LineInv'
<1> DEFINE f == file
           u == Unwritten
           b == buffers_
           c == currentBuffer_
           m == lines'
           p == Pipeline
<1>1. f \in Seq(Nat) /\ u \in Seq(Seq(Nat)) /\ b \in Seq(Seq(Nat)) /\ c \in Seq(Nat) /\ lines \in Nat
  BY PipelineTypes, Zenon
<1>2. m = lines + 1 /\ m \in Nat /\ dropped' = dropped
  BY <1>1 DEF AppendLine
<1>3. dropped \subseteq 1 .. lines /\ Ordered(p) /\ Held(p) = (1 .. lines) \ dropped
  BY Zenon DEF LineInv
<1>4. \A x \in Held(p) : x < m
  BY <1>1, <1>2, <1>3
<1>5. p = Piped(f, u, b, c) /\ p \in Seq(Seq(Nat))
  <2>1. p = Piped(f, u, b, c)
    BY PipelineIsPiped, Zenon
  <2>2. Piped(f, u, b, c) \in Seq(Seq(Nat))
    <3> HIDE DEF f, u, b, c
    <3> QED
      BY <1>1, PipeTypes, Zenon
  <2> QED
    BY <2>1, <2>2
<1>6. file' = f /\ Unwritten' = u
  BY DEF AppendLine, lfvars, back, Unwritten
<1>7. Pipeline' = Piped(file', Unwritten', buffers_', currentBuffer_')
  BY Zenon DEF Pipeline, Piped, Unwritten
<1> HIDE DEF f, u, b, c, m, p
<1>8. Ordered(Pipeline') /\ Held(Pipeline') = Held(p) \cup {m}
  <2>1. CASE currentBuffer_' = Append(c, m) /\ buffers_' = b
    <3>1. Pipeline' = Piped(f, u, b, Append(c, m))
      BY <1>6, <1>7, <2>1
    <3>2. Ordered(Piped(f, u, b, c)) /\ \A x \in Held(Piped(f, u, b, c)) : x < m
      BY <1>3, <1>4, <1>5
    <3>3. m \in Nat
      BY <1>2, Zenon
    <3>4. Extended(f, u, b, c, m)
      BY <1>1, <3>2, <3>3, PipeExtended, Zenon
    <3> QED
      BY <1>5, <3>1, <3>4 DEF Extended
  <2>2. CASE currentBuffer_' = <<m>> /\ buffers_' = Append(b, c)
    <3> DEFINE e == <<m>>
    <3>1. Pipeline' = Piped(f, u, Append(b, c), e)
      BY <1>6, <1>7, <2>2
    <3>2. e \in Seq(Nat) /\ Len(e) <= 1 /\ DOMAIN e = {1} /\ e[1] = m
      BY <1>2
    <3>3. ToSet(e) = {m}
      BY <3>2 DEF ToSet
    <3> HIDE DEF e
    <3>4. Piped(f, u, Append(b, c), e) = Piped(f, u, b, c) \o <<e>>
      <4>1. Fuller(f, u, b, c, e)
        BY <1>1, PipeFull, Zenon
      <4> QED
        BY <4>1, Zenon DEF Fuller
    <3>5. \A x \in Held(p) : \A a \in DOMAIN e : x < e[a]
      BY <1>4, <3>2
    <3>6. Ordered(p \o <<e>>) /\ Held(p \o <<e>>) = Held(p) \cup ToSet(e)
      BY <1>3, <1>5, <3>2, <3>5, PipeGrown, Zenon
    <3>7. Pipeline' = p \o <<e>>
      BY <1>5, <3>1, <3>4
    <3> QED
      BY <3>3, <3>6, <3>7
  <2> QED
    BY <2>1, <2>2 DEF AppendLine, m, b, c
<1>9. (1 .. lines) \cup {m} = 1 .. m /\ m \notin dropped
  BY <1>1, <1>2, <1>3
<1>10. Held(Pipeline') = (1 .. m) \ dropped
  BY <1>3, <1>8, <1>9, Zenon
<1>11. dropped \subseteq 1 .. m
  BY <1>3, <1>9, Zenon
<1>12. (Ordered(Pipeline))' = Ordered(Pipeline') /\ (Held(Pipeline))' = Held(Pipeline')
  BY Zenon
<1> QED
  BY <1>2, <1>8, <1>10, <1>11, <1>12 DEF LineInv, m

(* The logging thread takes the buffers when it has none left to write. *)
LEMMA SwapKeepsLines ==
  ASSUME ALTypeOK, ALInv, LineInv, LockAndTest \/ WakeUp, SwapBuffers
  PROVE  LineInv'
<1> DEFINE f == file
           b == buffers_
           c == currentBuffer_
           p == Pipeline
           e == <<>>
<1>1. f \in Seq(Nat) /\ b \in Seq(Seq(Nat)) /\ c \in Seq(Nat) /\ written \in 0 .. Len(buffersToWrite)
  BY PipelineTypes, Zenon
<1>2. buffersToWrite = <<>>
  BY Zenon DEF ALInv, BuffersInv, LockAndTest, WakeUp
<1>3. written = 0 /\ Unwritten = <<>>
  BY <1>1, <1>2 DEF Unwritten
<1>4. file' = f /\ written' = written /\ lines' = lines /\ dropped' = dropped
  BY DEF LockAndTest, WakeUp, lfvars
<1>5. buffersToWrite' = Append(b, c) /\ buffers_' = <<>> /\ currentBuffer_' = e
  BY Zenon DEF SwapBuffers
<1>6. Unwritten' = Append(b, c)
  <2> DEFINE w == Append(b, c)
  <2>1. w \in Seq(Seq(Nat))
    <3> DEFINE S == Seq(Nat)
    <3>1. b \in Seq(S) /\ c \in S
      BY <1>1, Zenon
    <3> HIDE DEF S
    <3>2. Append(b, c) \in Seq(S)
      BY <3>1
    <3> QED
      BY <3>2, Zenon DEF S
  <2> HIDE DEF w
  <2>2. SubSeq(w, 1, Len(w)) = w
    BY <2>1, SubSeqFull
  <2>3. Unwritten' = SubSeq(buffersToWrite', written' + 1, Len(buffersToWrite'))
    BY Zenon DEF Unwritten
  <2>4. buffersToWrite' = w /\ written' + 1 = 1
    BY <1>3, <1>4, <1>5 DEF w
  <2>5. Unwritten' = w
    BY <2>2, <2>3, <2>4
  <2> QED
    BY <2>5, Zenon DEF w
<1>7. Pipeline' = Piped(file', Unwritten', buffers_', currentBuffer_')
  BY Zenon DEF Pipeline, Piped, Unwritten
<1>8. dropped \subseteq 1 .. lines /\ Ordered(p) /\ Held(p) = (1 .. lines) \ dropped
  BY Zenon DEF LineInv
<1>9. p = Piped(f, <<>>, b, c) /\ p \in Seq(Seq(Nat))
  <2>1. p = Piped(f, <<>>, b, c)
    BY <1>3, PipelineIsPiped
  <2>2. <<>> \in Seq(Seq(Nat))
    OBVIOUS
  <2>3. Piped(f, <<>>, b, c) \in Seq(Seq(Nat))
    <3> HIDE DEF f, b, c
    <3> QED
      BY <1>1, <2>2, PipeTypes, Zenon
  <2> QED
    BY <2>1, <2>3
<1>10. e \in Seq(Nat) /\ Len(e) <= 1 /\ DOMAIN e = {}
  OBVIOUS
<1>11. ToSet(e) = {}
  BY <1>10 DEF ToSet
<1> HIDE DEF f, b, c, p, e
<1>12. Swapped(f, b, c, e)
  BY <1>1, PipeSwapped, Zenon
<1>13. Pipeline' = Piped(f, Append(b, c), <<>>, e)
  BY <1>4, <1>5, <1>6, <1>7
<1>14. Pipeline' = p \o <<e>>
  BY <1>9, <1>12, <1>13 DEF Swapped
<1>15. \A x \in Held(p) : \A a \in DOMAIN e : x < e[a]
  BY <1>10, Zenon
<1>16. Ordered(p \o <<e>>) /\ Held(p \o <<e>>) = Held(p) \cup ToSet(e)
  BY <1>8, <1>9, <1>10, <1>15, PipeGrown, Zenon
<1>17. Ordered(Pipeline') /\ Held(Pipeline') = Held(p)
  BY <1>11, <1>14, <1>16
<1>18. (Ordered(Pipeline))' = Ordered(Pipeline') /\ (Held(Pipeline))' = Held(Pipeline')
  BY Zenon
<1> QED
  BY <1>4, <1>8, <1>17, <1>18 DEF LineInv

(* append_unlocked() adds what it is given to the file. *)
LEMMA WriteKeepsLines ==
  ASSUME ALTypeOK, ALInv, LineInv, WriteBuffer
  PROVE  LineInv'
<1> DEFINE f == file
           w == buffersToWrite
           n == written + 1
           x == w[n]
           u == SubSeq(w, n + 1, Len(w))
           b == buffers_
           c == currentBuffer_
           p == Pipeline
<1>1. /\ f \in Seq(Nat) /\ b \in Seq(Seq(Nat)) /\ c \in Seq(Nat) /\ w \in Seq(Seq(Nat))
      /\ written \in 0 .. Len(w)
  BY PipelineTypes, Zenon
<1>2. n \in 1 .. Len(w) /\ written' + 1 = n + 1
  BY <1>1 DEF WriteBuffer
<1>3. file' = f \o x /\ UNCHANGED <<buffersToWrite, buffers_, currentBuffer_, lines, dropped>>
  BY Zenon DEF WriteBuffer, AppendUnlocked, AppendToFile, front
<1>4. Unwritten' = u
  <2>1. Unwritten' = SubSeq(buffersToWrite', written' + 1, Len(buffersToWrite'))
    BY Zenon DEF Unwritten
  <2> QED
    BY <1>2, <1>3, <2>1, Zenon
<1>5. Pipeline' = Piped(file', Unwritten', buffers_', currentBuffer_')
  BY Zenon DEF Pipeline, Piped, Unwritten
<1>6. dropped \subseteq 1 .. lines /\ Ordered(p) /\ Held(p) = (1 .. lines) \ dropped
  BY Zenon DEF LineInv
<1>7. p = Piped(f, SubSeq(w, n, Len(w)), b, c)
  BY PipelineIsPiped, Zenon DEF Unwritten
<1> HIDE DEF f, w, n, b, c, p
<1>8. x \in Seq(Nat) /\ u \in Seq(Seq(Nat))
  BY <1>1, <1>2
<1>9. SubSeq(w, n, Len(w)) = <<x>> \o u
  <2> DEFINE S == Seq(Nat)
  <2>1. w \in Seq(S) /\ n \in 1 .. Len(w) /\ Len(w) \in n .. Len(w)
    BY <1>1, <1>2
  <2> HIDE DEF S
  <2> QED
    BY <2>1, SubSeqRecursiveFirst
<1> HIDE DEF x, u
<1>10. p = Piped(f, <<x>> \o u, b, c)
  BY <1>7, <1>9
<1>11. Ordered(Piped(f, <<x>> \o u, b, c))
  BY <1>6, <1>10
<1>12. Written(f, x, u, b, c)
  BY <1>1, <1>8, <1>11, PipeWritten, Zenon
<1>13. Pipeline' = Piped(f \o x, u, b, c)
  BY <1>3, <1>4, <1>5 DEF b, c
<1>14. Ordered(Pipeline') /\ Held(Pipeline') = Held(p)
  BY <1>10, <1>12, <1>13 DEF Written
<1>15. (Ordered(Pipeline))' = Ordered(Pipeline') /\ (Held(Pipeline))' = Held(Pipeline')
  BY Zenon
<1> QED
  BY <1>3, <1>6, <1>14, <1>15 DEF LineInv

(* All but two buffers are thrown away, before any of them is written. *)
LEMMA DropKeepsLines ==
  ASSUME ALTypeOK, ALInv, LineInv, DropBuffers, Len(buffersToWrite) > kMaxBuffers
  PROVE  LineInv'
<1> DEFINE f == file
           w == buffersToWrite
           v == SubSeq(w, 1, 2)
           x == SubSeq(w, 3, Len(w))
           b == buffers_
           c == currentBuffer_
           p == Pipeline
           gone == UNION {ToSet(w[i]) : i \in 3 .. Len(w)}
<1>1. f \in Seq(Nat) /\ b \in Seq(Seq(Nat)) /\ c \in Seq(Nat) /\ w \in Seq(Seq(Nat))
  BY PipelineTypes, Zenon
<1>2. written = 0 /\ written' = 0 /\ Len(w) \in Nat /\ Len(w) >= 3
  <2>1. written = 0 /\ written' = written
    BY Zenon DEF DropBuffers, ALInv, ThreadsInv
  <2> QED
    BY <1>1, <2>1, AsyncLoggingAssumption
<1>3. /\ dropped' = dropped \cup gone /\ buffersToWrite' = v
      /\ UNCHANGED <<buffers_, currentBuffer_, lines>>
  BY DEF DropBuffers, front
<1>4. file' = f
  <2>1. file' = f \o <<>>
    BY Zenon DEF DropBuffers, AppendUnlocked, AppendToFile
  <2> QED
    BY <1>1, <2>1, ConcatEmptySeq
<1>5. Pipeline' = Piped(file', Unwritten', buffers_', currentBuffer_')
  BY Zenon DEF Pipeline, Piped, Unwritten
<1>6. dropped \subseteq 1 .. lines /\ Ordered(p) /\ Held(p) = (1 .. lines) \ dropped
  BY Zenon DEF LineInv
<1>7. p = Piped(f, SubSeq(w, written + 1, Len(w)), b, c)
  BY PipelineIsPiped, Zenon DEF Unwritten
<1> HIDE DEF f, w, b, c, p
<1>8. v \in Seq(Seq(Nat)) /\ x \in Seq(Seq(Nat)) /\ Len(v) = 2
  BY <1>1, <1>2
<1>9. v \o x = w
  <2> DEFINE S == Seq(Nat)
  <2>1. w \in Seq(S) /\ 1 \in 1 .. Len(w) + 1 /\ 2 \in 1 - 1 .. Len(w) /\ Len(w) \in 2 .. Len(w)
    BY <1>1, <1>2
  <2> HIDE DEF S
  <2>2. SubSeq(w, 1, 2) \o SubSeq(w, 2 + 1, Len(w)) = SubSeq(w, 1, Len(w))
    BY <2>1, ConcatAdjacentSubSeq, Zenon
  <2>3. SubSeq(w, 1, Len(w)) = w
    BY <2>1, SubSeqFull
  <2>4. 2 + 1 = 3
    OBVIOUS
  <2> QED
    BY <2>2, <2>3, <2>4
<1>10. SubSeq(w, written + 1, Len(w)) = w
  <2>1. SubSeq(w, 1, Len(w)) = w
    BY <1>1, SubSeqFull
  <2>2. written + 1 = 1
    BY <1>2
  <2> QED
    BY <2>1, <2>2
<1> HIDE DEF v, x
<1>11. Unwritten' = v
  <2>1. SubSeq(v, 1, Len(v)) = v
    BY <1>8, SubSeqFull
  <2>2. written' + 1 = 1
    BY <1>2
  <2>3. Unwritten' = SubSeq(buffersToWrite', written' + 1, Len(buffersToWrite'))
    BY Zenon DEF Unwritten
  <2> QED
    BY <1>3, <2>1, <2>2, <2>3
<1>12. p = Piped(f, v \o x, b, c)
  BY <1>7, <1>9, <1>10, Zenon
<1>13. Ordered(Piped(f, v \o x, b, c))
  BY <1>6, <1>12
<1>14. Skipped(f, v, x, b, c)
  BY <1>1, <1>8, <1>13, PipeSkipped, Zenon
<1>15. Pipeline' = Piped(f, v, b, c)
  BY <1>3, <1>4, <1>5, <1>11 DEF b, c
<1>16. gone = UNION {ToSet((v \o x)[i]) : i \in 3 .. Len(v \o x)}
  BY <1>9
<1> HIDE DEF gone
<1>17. Ordered(Pipeline') /\ Held(Pipeline') = Held(p) \ gone /\ gone \subseteq Held(p)
  BY <1>12, <1>14, <1>15, <1>16, Zenon DEF Skipped
<1>18. (Ordered(Pipeline))' = Ordered(Pipeline') /\ (Held(Pipeline))' = Held(Pipeline')
  BY Zenon
<1>19. Held(Pipeline') = (1 .. lines) \ dropped' /\ dropped' \subseteq 1 .. lines
  BY <1>3, <1>6, <1>17, Zenon
<1> QED
  BY <1>3, <1>17, <1>18, <1>19 DEF LineInv

LEMMA LineStep ==
  ASSUME ALTypeOK, ALInv, LineInv, [ALNext]_alvars
  PROVE  LineInv'
<1>1. ASSUME UNCHANGED <<file, buffersToWrite, written, buffers_, currentBuffer_, lines, dropped>>
      PROVE  LineInv'
  <2>1. Pipeline' = Pipeline
    BY <1>1 DEF Pipeline
  <2>2. (Ordered(Pipeline))' = Ordered(Pipeline') /\ (Held(Pipeline))' = Held(Pipeline')
    BY Zenon
  <2> QED
    BY <1>1, <2>1, <2>2 DEF LineInv
<1>2. ASSUME RecycleBuffers
      PROVE  LineInv'
  <2>1. buffersToWrite \in Seq(Seq(Nat)) /\ written \in 0 .. Len(buffersToWrite)
    BY PipelineTypes, Zenon
  <2>2. SubSeq(buffersToWrite, written + 1, Len(buffersToWrite)) = <<>>
    BY <1>2, <2>1, SubSeqEmpty DEF RecycleBuffers
  <2>3. SubSeq(buffersToWrite', written' + 1, Len(buffersToWrite')) = <<>>
    <3>1. buffersToWrite' = <<>> /\ written' = 0
      BY <1>2 DEF RecycleBuffers
    <3> QED
      BY <3>1
  <2>4. UNCHANGED <<file, buffers_, currentBuffer_, lines, dropped>>
    BY <1>2 DEF RecycleBuffers, Flush, front
  <2>5. Pipeline' = Pipeline
    BY <2>2, <2>3, <2>4, Zenon DEF Pipeline
  <2>6. (Ordered(Pipeline))' = Ordered(Pipeline') /\ (Held(Pipeline))' = Held(Pipeline')
    BY Zenon
  <2> QED
    BY <2>4, <2>5, <2>6 DEF LineInv
<1>3. ASSUME LockAndTest \/ WakeUp
      PROVE  LineInv'
  <2>1. CASE SwapBuffers
    BY <1>3, <2>1, SwapKeepsLines, Zenon
  <2>2. CASE ~SwapBuffers
    <3>1. UNCHANGED <<file, buffersToWrite, written, buffers_, currentBuffer_, lines, dropped>>
      BY <1>3, <2>2, Zenon DEF LockAndTest, WakeUp, lfvars, front
    <3> QED
      BY <1>1, <3>1, Zenon
  <2> QED
    BY <2>1, <2>2, Zenon
<1>4. ASSUME DropBuffers
      PROVE  LineInv'
  <2>1. CASE Len(buffersToWrite) > kMaxBuffers
    BY <1>4, <2>1, DropKeepsLines, Zenon
  <2>2. CASE ~(Len(buffersToWrite) > kMaxBuffers)
    <3>1. UNCHANGED <<file, buffersToWrite, written, buffers_, currentBuffer_, lines, dropped>>
      BY <1>4, <2>2, Zenon DEF DropBuffers, lfvars, front
    <3> QED
      BY <1>1, <3>1, Zenon
  <2> QED
    BY <2>1, <2>2, Zenon
<1>5. \/ AppendLine \/ LockAndTest \/ WakeUp \/ DropBuffers \/ WriteBuffer \/ RecycleBuffers
      \/ UNCHANGED <<file, buffersToWrite, written, buffers_, currentBuffer_, lines, dropped>>
  BY Zenon DEF ALNext, alvars, lfvars, front, back, Writer, Start, StartReturns, Stop, StopNotify, StopReturns,
         ThreadFunc, OpenLogFile, CheckRunning, Flush, TickClock, Tick
<1> QED
  BY <1>1, <1>2, <1>3, <1>4, <1>5, AppendKeepsLines, WriteKeepsLines, Zenon

(* However the threads that append, start and stop and the logging thread  *)
(* interleave, however many lines and buffers there are and whenever the   *)
(* file is changed for a new one: append() and threadFunc() lose no line,  *)
(* write none twice and keep their order; only what threadFunc() throws    *)
(* away beyond kMaxBuffers is missing.                                     *)
THEOREM LinesAreKept == ALSpec => []LinesInOrder
<1> DEFINE I == ALTypeOK /\ LineInv
<1>1. ALInit => I
  BY TypesInit, LineInit, Zenon
<1>2. ALInv /\ I /\ [ALNext]_alvars => I'
  <2> SUFFICES ASSUME ALInv, ALTypeOK, LineInv, [ALNext]_alvars
               PROVE  ALTypeOK' /\ LineInv'
    BY Zenon
  <2>1. LFTypeOK' /\ BufferTypes' /\ ThreadTypes'
    BY LFTypeStep, BufferTypeStep, ThreadTypeStep, Zenon
  <2>2. ALTypeOK'
    BY <2>1, Zenon DEF ALTypeOK, BufferTypes, ThreadTypes
  <2> QED
    BY <2>2, LineStep, Zenon
<1>3. I => LinesInOrder
  BY Zenon DEF LineInv, LinesInOrder
<1> QED
  BY <1>1, <1>2, <1>3, ALInvariance, PTL DEF ALSpec
=============================================================================
