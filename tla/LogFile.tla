------------------------------- MODULE LogFile -------------------------------
(***************************************************************************)
(* muduo::LogFile: log lines go to a file that is changed for a new one    *)
(* when it is too large or of an earlier day.  Lines are numbers; file is  *)
(* all that was written, over all files, and flushed says how much of it   *)
(* has left the buffer of stdio.  Every function runs in one piece: its    *)
(* caller is the only one (threadSafe false) or holds mutex_.  Write       *)
(* errors are left out.                                                    *)
(***************************************************************************)
EXTENDS Integers, SequencesExt

CONSTANTS
  rollSize_, flushInterval_, kCheckTimeRoll_, kRollPerSeconds_,
  MaxNow         \* bound on the clock

ASSUME LogFileAssumption ==
  /\ rollSize_ \in Nat /\ flushInterval_ \in Nat /\ kCheckTimeRoll_ \in Nat
  /\ kRollPerSeconds_ \in Nat \ {0} /\ MaxNow \in Nat \ {0}

VARIABLES
  now,                                     \* time(NULL)
  file, flushed,
  writtenBytes_,                           \* of the current File
  count_, startOfPeriod_, lastRoll_, lastFlush_,
  (* history, of the file that the last append() went to:                  *)
  large,     \* appends, later than the second it was opened in, that left it too large
  stale,     \* appends on a later day
  rolled     \* it was closed

lfvars ==
  <<file, flushed, writtenBytes_, count_, startOfPeriod_, lastRoll_, lastFlush_, large, stale, rolled>>

Period(t) == (t \div kRollPerSeconds_) * kRollPerSeconds_

LFTypeOK ==
  /\ now \in 1 .. MaxNow /\ file \in Seq(Nat) /\ flushed \in 0 .. Len(file)
  /\ writtenBytes_ \in Nat /\ count_ \in 0 .. kCheckTimeRoll_ + 1
  /\ startOfPeriod_ = Period(lastRoll_)
  /\ lastRoll_ \in 1 .. now /\ lastFlush_ \in lastRoll_ .. now
  /\ large \in Nat /\ stale \in Nat /\ rolled \in BOOLEAN

(* The clock before a LogFile is made. *)
LFInit ==
  /\ now = 1 /\ file = <<>> /\ flushed = 0 /\ writtenBytes_ = 0 /\ count_ = 0
  /\ startOfPeriod_ = Period(now) /\ lastRoll_ = now /\ lastFlush_ = now
  /\ large = 0 /\ stale = 0 /\ rolled = FALSE

(* The constructor rolls to the first file. *)
OpenLogFile ==
  /\ lastRoll_' = now /\ lastFlush_' = now /\ startOfPeriod_' = Period(now)
  /\ UNCHANGED <<file, flushed, writtenBytes_, count_, large, stale, rolled>>

Tick == now < MaxNow /\ now' = now + 1 /\ UNCHANGED lfvars

(* File::append(): n bytes go to the file that is open. *)
AppendToFile(lines, n) ==
  /\ file' = file \o lines
  /\ large' = (IF rolled THEN 0 ELSE large)
                + (IF now > lastRoll_ /\ writtenBytes_ + n > rollSize_ THEN 1 ELSE 0)
  /\ stale' = (IF rolled THEN 0 ELSE stale) + (IF Period(now) # startOfPeriod_ THEN 1 ELSE 0)

(* The file with the n new bytes stays open. *)
Keep(n) ==
  /\ writtenBytes_' = writtenBytes_ + n /\ rolled' = FALSE
  /\ UNCHANGED <<startOfPeriod_, lastRoll_>>

(* rollFile(): files are named by the second, so no second file is opened  *)
(* in the same one.  The old file, with the n new bytes, is closed.        *)
RollFile(n) ==
  IF now > lastRoll_
  THEN /\ lastRoll_' = now /\ lastFlush_' = now /\ startOfPeriod_' = Period(now)
       /\ writtenBytes_' = 0 /\ rolled' = TRUE
       /\ flushed' = Len(file')
  ELSE Keep(n) /\ UNCHANGED <<lastFlush_, flushed>>

(* A bug: the counter is never advanced, the day not looked at. *)
AppendUnlocked_NoCount(lines, n) ==
  /\ AppendToFile(lines, n)
  /\ IF writtenBytes_ + n > rollSize_ THEN RollFile(n) ELSE Keep(n) /\ UNCHANGED <<lastFlush_, flushed>>
  /\ UNCHANGED count_

(* append_unlocked(): the size is looked at every time, the clock after    *)
(* every kCheckTimeRoll_ + 1 appends.                                      *)
AppendUnlocked(lines, n) ==
  /\ AppendToFile(lines, n)
  /\ \/ writtenBytes_ + n > rollSize_ /\ RollFile(n) /\ UNCHANGED count_
     \/ /\ writtenBytes_ + n <= rollSize_ /\ count_ <= kCheckTimeRoll_
        /\ Keep(n)
        /\ count_' = count_ + 1
        /\ UNCHANGED <<lastFlush_, flushed>>
     \/ /\ writtenBytes_ + n <= rollSize_ /\ count_ > kCheckTimeRoll_
        /\ count_' = 0
        /\ IF Period(now) # startOfPeriod_ THEN RollFile(n)
           ELSE /\ Keep(n)
                /\ IF now - lastFlush_ > flushInterval_
                   THEN lastFlush_' = now /\ flushed' = Len(file')
                   ELSE UNCHANGED <<lastFlush_, flushed>>

Flush ==
  /\ flushed' = Len(file)
  /\ UNCHANGED <<file, writtenBytes_, count_, startOfPeriod_, lastRoll_, lastFlush_, large, stale, rolled>>

-----------------------------------------------------------------------------
(* The append that takes a file past rollSize_ is the last that goes to it *)
(* (append_unlocked() writes, then rolls), but for those of the second the *)
(* file was opened in, when no other can be.                               *)
SizeBounded == large <= 1

(* At most kCheckTimeRoll_ + 2 appends of a new day go to the file of an   *)
(* earlier day: those count_ lets pass, and the one that rolls the file.   *)
DayBounded == stale <= kCheckTimeRoll_ + 2
=============================================================================
