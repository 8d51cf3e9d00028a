------------------------------- MODULE Poller -------------------------------
(***************************************************************************)
(* What an EventLoop relies on of a Poller (Poller.h): updateChannel()     *)
(* changes the events it watches for a channel, removeChannel() forgets a  *)
(* channel that watches none, and poll() reports watched channels with an  *)
(* event and no others.  A channel that watches nothing is never due; the  *)
(* kernel may still report a hang-up on it while it is registered.  A wait *)
(* that is interrupted or fails reports nothing, as if there had been no   *)
(* poll(); the pollers leave it out.                                       *)
(***************************************************************************)
EXTENDS Naturals

CONSTANTS
  Channels,
  Writers,      \* bound: those that ask for writing too, and whose fd is not always writable
  Hanging       \* bound: those whose peer may hang up

Events == {"read", "write"}
Readiness == Events \cup {"hup"}

(* What the operations of a Channel make of its events_. *)
EnableReading(ev) == ev \cup {"read"}
EnableWriting(ev) == ev \cup {"write"}
DisableWriting(ev) == ev \ {"write"}
DisableAll(ev) == {}
Requests(c, ev) ==
  {EnableReading(ev), DisableAll(ev)}
    \cup (IF c \in Writers THEN {EnableWriting(ev), DisableWriting(ev)} ELSE {})

(* What the kernel may come to say of a descriptor: one kind of readiness  *)
(* at a time tells the channels that are due from the others.              *)
Kinds(c) ==
  {{}, {"read"}} \cup (IF c \in Writers THEN {{"write"}} ELSE {})
                \cup (IF c \in Hanging THEN {{"hup"}} ELSE {})

VARIABLES
  interest,     \* the events the poller watches for each channel
  registered,   \* the channels the poller knows
  ready,        \* the kernel: what could be reported of each fd now
  active        \* what the last poll() reported

pvars == <<interest, registered, ready, active>>

Due(c) == interest[c] # {} /\ ready[c] \cap (interest[c] \cup {"hup"}) # {}
Reportable(c) == Due(c) \/ (c \in registered /\ "hup" \in ready[c])

PInit ==
  /\ interest = [c \in Channels |-> {}]
  /\ registered = {}
  /\ ready = [c \in Channels |-> {}]
  /\ active = {}

PUpdate(c) ==
  /\ interest' \in {[interest EXCEPT ![c] = ev] : ev \in Requests(c, interest[c])}
  /\ registered' = registered \cup {c}
  /\ UNCHANGED <<ready, active>>

PRemove(c) ==
  /\ c \in registered
  /\ interest[c] = {}
  /\ registered' = registered \ {c}
  /\ UNCHANGED <<interest, ready, active>>

(* poll() reports some of the channels it may, and one that is due if any  *)
(* is.                                                                     *)
PPoll ==
  /\ active' \in SUBSET {c \in Channels : Reportable(c)}
  /\ (\E c \in Channels : Due(c)) => active' # {}
  /\ UNCHANGED <<interest, registered, ready>>

PReady(c) ==
  /\ ready' \in {[ready EXCEPT ![c] = r] : r \in Kinds(c)}
  /\ UNCHANGED <<interest, registered, active>>

PNext == PPoll \/ \E c \in Channels : PUpdate(c) \/ PRemove(c) \/ PReady(c)

PSpec == PInit /\ [][PNext]_pvars
=============================================================================
