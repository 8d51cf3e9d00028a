----------------------------- MODULE PollPoller -----------------------------
(***************************************************************************)
(* muduo::net::PollPoller, the poller used when MUDUO_USE_POLL is set,     *)
(* driven by the operations of Channel.  pollfds_ is the array handed to   *)
(* poll(); a channel's index_ is its (0-based) place in it.  An entry      *)
(* whose fd is stored as -fd-1 is ignored by the kernel.  A failed         *)
(* assert() sets failed and stops the program.                             *)
(***************************************************************************)
EXTENDS Integers, Sequences, FiniteSets

CONSTANTS Channels, Writers, Hanging

VARIABLES
  events_, index_,      \* of each Channel
  channels_,            \* the channels in the map
  pollfds_,             \* entries [fd: a channel, ignored: fd < 0, events]
  ready, activeChannels,
  failed

ppvars == <<events_, index_, channels_, pollfds_, ready, activeChannels, failed>>

Promise == INSTANCE Poller
             WITH interest <- events_, registered <- channels_, active <- activeChannels

Entries == [fd : Channels, ignored : BOOLEAN, events : SUBSET Promise!Events]

PPTypeOK ==
  /\ events_ \in [Channels -> SUBSET Promise!Events]
  /\ index_ \in [Channels -> -1 .. Cardinality(Channels) - 1]
  /\ channels_ \subseteq Channels
  /\ pollfds_ \in Seq(Entries)
  /\ ready \in [Channels -> SUBSET Promise!Readiness]
  /\ activeChannels \subseteq Channels
  /\ failed \in BOOLEAN

PPInit ==
  /\ events_ = [c \in Channels |-> {}]
  /\ index_ = [c \in Channels |-> -1]
  /\ channels_ = {}
  /\ pollfds_ = <<>>
  /\ ready = [c \in Channels |-> {}]
  /\ activeChannels = {}
  /\ failed = FALSE

Entry(c) == pollfds_[index_[c] + 1]
InBounds(c) == index_[c] \in 0 .. Len(pollfds_) - 1

(* assert(cond): the rest of the operation happens only if it holds. *)
Asserting(cond, effect) ==
  IF cond THEN effect /\ failed' = FALSE
          ELSE failed' = TRUE /\ UNCHANGED <<index_, channels_, pollfds_>>

-----------------------------------------------------------------------------
(* updateChannel() of a channel it has not seen. *)
UpdateNew(c, ev) ==
  /\ index_[c] < 0
  /\ Asserting(c \notin channels_,
       /\ pollfds_' = Append(pollfds_, [fd |-> c, ignored |-> FALSE, events |-> ev])
       /\ index_' = [index_ EXCEPT ![c] = Len(pollfds_)]
       /\ channels_' = channels_ \cup {c})

(* A bug: the events of a known channel are not copied to its entry. *)
UpdateExisting_EventsKept(c, ev) ==
  /\ index_[c] >= 0
  /\ Asserting(c \in channels_ /\ InBounds(c) /\ Entry(c).fd = c,
       /\ pollfds_' = [pollfds_ EXCEPT ![index_[c] + 1].ignored = @ \/ ev = {}]
       /\ UNCHANGED <<index_, channels_>>)

(* updateChannel() of a channel it knows: a channel that watches nothing   *)
(* has its entry ignored.                                                  *)
UpdateExisting(c, ev) ==
  /\ index_[c] >= 0
  /\ Asserting(c \in channels_ /\ InBounds(c) /\ Entry(c).fd = c,
       /\ pollfds_' = [pollfds_ EXCEPT ![index_[c] + 1] =
                         [fd |-> c, ignored |-> @.ignored \/ ev = {}, events |-> ev]]
       /\ UNCHANGED <<index_, channels_>>)

(* Channel::enableReading() and its siblings, each ending in update(). *)
ChannelUpdate(c) ==
  /\ ~failed
  /\ \E ev \in Promise!Requests(c, events_[c]) :
       /\ events_' = [events_ EXCEPT ![c] = ev]
       /\ UpdateNew(c, ev) \/ UpdateExisting(c, ev)
  /\ UNCHANGED <<ready, activeChannels>>

WithoutLast(s) == SubSeq(s, 1, Len(s) - 1)

(* A bug: the entry moved into the hole keeps its old index. *)
RemoveEntry_IndexNotMoved(c) ==
  /\ pollfds_' = IF index_[c] = Len(pollfds_) - 1 THEN WithoutLast(pollfds_)
                 ELSE WithoutLast([pollfds_ EXCEPT ![index_[c] + 1] = pollfds_[Len(pollfds_)]])
  /\ index_' = [index_ EXCEPT ![c] = -1]

(* Erasing the entry of c: the last entry takes its place. *)
RemoveEntry(c) ==
  LET last == pollfds_[Len(pollfds_)] IN
  IF index_[c] = Len(pollfds_) - 1
  THEN /\ pollfds_' = WithoutLast(pollfds_)
       /\ index_' = [index_ EXCEPT ![c] = -1]
  ELSE /\ pollfds_' = WithoutLast([pollfds_ EXCEPT ![index_[c] + 1] = last])
       /\ index_' = [index_ EXCEPT ![last.fd] = index_[c], ![c] = -1]

(* Channel::remove() and removeChannel(), called on a registered channel   *)
(* after disableAll().  The channel is destroyed afterwards, so c stands   *)
(* for the next Channel on the fd, with a fresh index.                     *)
ChannelRemove(c) ==
  /\ ~failed
  /\ c \in channels_
  /\ events_[c] = {}
  /\ Asserting(InBounds(c) /\ Entry(c).fd = c /\ Entry(c).ignored /\ Entry(c).events = {},
       RemoveEntry(c) /\ channels_' = channels_ \ {c})
  /\ UNCHANGED <<events_, ready, activeChannels>>

(* What poll() has to say: hang-ups are reported unasked. *)
Reported ==
  {e.fd : e \in {pollfds_[i] : i \in {j \in 1 .. Len(pollfds_) :
     /\ ~pollfds_[j].ignored
     /\ ready[pollfds_[j].fd] \cap (pollfds_[j].events \cup {"hup"}) # {}}}}

Poll ==
  /\ ~failed
  /\ activeChannels' = Reported
  /\ failed' = ~(Reported \subseteq channels_)
  /\ UNCHANGED <<events_, index_, channels_, pollfds_, ready>>

(* The environment: the kernel's view of a file descriptor changes.        *)
FdChange(c) ==
  /\ ~failed
  /\ \E r \in Promise!Kinds(c) : ready' = [ready EXCEPT ![c] = r]
  /\ UNCHANGED <<events_, index_, channels_, pollfds_, activeChannels, failed>>

PPNext == Poll \/ \E c \in Channels : ChannelUpdate(c) \/ ChannelRemove(c) \/ FdChange(c)

PPSpec == PPInit /\ [][PPNext]_ppvars

-----------------------------------------------------------------------------
(* The array and the map describe the same channels, and each index_ leads *)
(* to the channel's own entry: removal moves an entry and its index        *)
(* together.                                                               *)
IndexPointsBack ==
  /\ \A c \in channels_ : InBounds(c) /\ Entry(c).fd = c /\ Entry(c).events = events_[c]
  /\ \A c \in Channels \ channels_ : index_[c] = -1
  /\ \A i \in 1 .. Len(pollfds_) : pollfds_[i].fd \in channels_ /\ index_[pollfds_[i].fd] = i - 1
=============================================================================
