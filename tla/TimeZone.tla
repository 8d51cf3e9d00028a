------------------------------- MODULE TimeZone -------------------------------
(***************************************************************************)
(* muduo::TimeZone: local time from the transitions of a zone file, and    *)
(* back.  gmtime_r() and timegm() are ToUtcTime and FromUtcTime.           *)
(***************************************************************************)
EXTENDS Date

VARIABLES
  zone,                  \* a zone file: [trans, idx, types]
  instant                \* a time_t

zoneVars == <<zone, instant>>

(* readTimeZoneFile() for a well-formed file. *)
ReadTimeZoneFile(z) ==
  [transitions |-> [i \in DOMAIN z.trans |->
      [gmt |-> z.trans[i], local |-> z.trans[i] + z.types[z.idx[i]].gmtOffset, idx |-> z.idx[i]]],
   localtimes |-> z.types]

Key(tr, compareGmt) == IF compareGmt THEN tr.gmt ELSE tr.local

(* A bug: a time equal to a transition's is left before it.                *)
FindLocaltime_Before(data, key, compareGmt) ==
  LET trs == data.transitions
      later == {i \in DOMAIN trs : Key(trs[i], compareGmt) >= key}
      lower == IF later = {} THEN Len(trs) + 1 ELSE Min(later)
  IN  IF lower = 1 THEN data.localtimes[1] ELSE data.localtimes[trs[lower - 1].idx]

(* findLocaltime(): the first localtime before the first transition, else  *)
(* that of the transition lower_bound() finds or the one before it.        *)
FindLocaltime(data, key, compareGmt) ==
  LET trs == data.transitions
      later == {i \in DOMAIN trs : Key(trs[i], compareGmt) >= key}
      lower == IF later = {} THEN Len(trs) + 1 ELSE Min(later)
  IN  IF trs = <<>> \/ key < Key(trs[1], compareGmt) THEN data.localtimes[1]
      ELSE IF lower > Len(trs) THEN data.localtimes[trs[Len(trs)].idx]
      ELSE IF key = Key(trs[lower], compareGmt) THEN data.localtimes[trs[lower].idx]
      ELSE data.localtimes[trs[lower - 1].idx]

ToLocalTime(data, s) ==
  LET local == FindLocaltime(data, s, TRUE)
  IN  [tm |-> ToUtcTime(s + local.gmtOffset), isdst |-> local.isDst]

FromLocalTime(data, l) ==
  LET seconds == FromUtcTime(l.tm)
      local == FindLocaltime(data, seconds, FALSE)
      try == ToLocalTime(data, seconds - local.gmtOffset)
      hack == l.isdst /\ ~try.isdst /\ try.tm.hour = l.tm.hour /\ try.tm.min = l.tm.min
  IN  (IF hack THEN seconds - 3600 ELSE seconds) - local.gmtOffset

-----------------------------------------------------------------------------
(* toLocalTime() uses the offset of the last transition not after the      *)
(* instant, at the transitions themselves and outside the file's range.    *)
(* Before the first one it is the first of the file, whether summer time   *)
(* or not (TimeZone.cc: "FIXME: should be first non dst time zone").       *)
LocalIsInEffect ==
  LET past == {i \in DOMAIN zone.trans : zone.trans[i] <= instant}
      type == IF past = {} THEN zone.types[1] ELSE zone.types[zone.idx[Max(past)]]
  IN  ToLocalTime(ReadTimeZoneFile(zone), instant) =
        [tm |-> ToUtcTime(instant + type.gmtOffset), isdst |-> type.isDst]

(* fromLocalTime() inverts toLocalTime() at every instant of a zone with   *)
(* summer time, the two readings of the hour that comes twice included.    *)
LocalRoundTrip ==
  LET data == ReadTimeZoneFile(zone) IN FromLocalTime(data, ToLocalTime(data, instant)) = instant
=============================================================================
