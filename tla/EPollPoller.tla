----------------------------- MODULE EPollPoller -----------------------------
(***************************************************************************)
(* muduo::net::EPollPoller, driven by the operations of Channel.  index_   *)
(* records where a channel stands; channels_ is the poller's map and tree  *)
(* the kernel's interest list.  A failed assert() or epoll_ctl() sets      *)
(* failed.  Channels stand for their fds: two live channels never share    *)
(* one.                                                                    *)
(***************************************************************************)
EXTENDS Integers, FiniteSets

CONSTANTS
  Channels, Writers, Hanging,
  kInitEventListSize   \* 16 in the code, smaller in a model

ASSUME EventListAssumption == kInitEventListSize \in Nat \ {0}
ASSUME ChannelsAssumption == IsFiniteSet(Channels)

VARIABLES
  events_, index_,      \* of each Channel
  channels_,            \* the channels in the map
  tree,                 \* the epoll interest list: the events of each channel, or Absent
  eventListSize,        \* events_.size() of the poller
  ready, activeChannels,
  failed

epvars == <<events_, index_, channels_, tree, eventListSize, ready, activeChannels, failed>>

Promise == INSTANCE Poller
             WITH interest <- events_, registered <- channels_, active <- activeChannels

kNew == -1
kAdded == 1
kDeleted == 2
Absent == {"absent"}
EventSets == SUBSET Promise!Events

EPTypeOK ==
  /\ events_ \in [Channels -> EventSets]
  /\ index_ \in [Channels -> {kNew, kAdded, kDeleted}]
  /\ channels_ \subseteq Channels
  /\ tree \in [Channels -> EventSets \cup {Absent}]
  /\ eventListSize \in Nat \ {0}
  /\ ready \in [Channels -> SUBSET Promise!Readiness]
  /\ activeChannels \subseteq Channels
  /\ failed \in BOOLEAN

EPInit ==
  /\ events_ = [c \in Channels |-> {}]
  /\ index_ = [c \in Channels |-> kNew]
  /\ channels_ = {}
  /\ tree = [c \in Channels |-> Absent]
  /\ eventListSize = kInitEventListSize
  /\ ready = [c \in Channels |-> {}]
  /\ activeChannels = {}
  /\ failed = FALSE

-----------------------------------------------------------------------------
(* epoll_ctl() succeeds when the channel is not in the tree (ADD) or in it *)
(* (MOD, DEL).                                                             *)
CtlFails(op, c) == (op = "ADD") # (tree[c] = Absent)

(* updateChannel() of a channel that is not in the tree. *)
UpdateAdd(c, ev) ==
  /\ index_[c] \in {kNew, kDeleted}
  /\ events_' = [events_ EXCEPT ![c] = ev]
  /\ channels_' = channels_ \cup {c}
  /\ index_' = [index_ EXCEPT ![c] = kAdded]
  /\ tree' = [tree EXCEPT ![c] = ev]
  /\ failed' = (failed \/ CtlFails("ADD", c) \/ (index_[c] = kNew) # (c \notin channels_))
  /\ UNCHANGED <<eventListSize, ready, activeChannels>>

(* updateChannel() of a channel in the tree that still watches something. *)
UpdateMod(c, ev) ==
  /\ index_[c] = kAdded
  /\ ev # {}
  /\ events_' = [events_ EXCEPT ![c] = ev]
  /\ tree' = [tree EXCEPT ![c] = ev]
  /\ failed' = (failed \/ CtlFails("MOD", c) \/ c \notin channels_)
  /\ UNCHANGED <<index_, channels_, eventListSize, ready, activeChannels>>

(* updateChannel() of a channel in the tree that watches nothing any more. *)
UpdateDel(c, ev) ==
  /\ index_[c] = kAdded
  /\ ev = {}
  /\ events_' = [events_ EXCEPT ![c] = ev]
  /\ tree' = [tree EXCEPT ![c] = Absent]
  /\ index_' = [index_ EXCEPT ![c] = kDeleted]
  /\ failed' = (failed \/ CtlFails("DEL", c) \/ c \notin channels_)
  /\ UNCHANGED <<channels_, eventListSize, ready, activeChannels>>

(* Channel::enableReading() and its siblings, each ending in update(). *)
ChannelUpdate(c) ==
  \E ev \in Promise!Requests(c, events_[c]) :
    UpdateAdd(c, ev) \/ UpdateMod(c, ev) \/ UpdateDel(c, ev)

(* A bug: removal trusts that disableAll() took the channel out of the     *)
(* tree.                                                                   *)
ChannelRemove_NoDel(c) ==
  /\ c \in channels_
  /\ events_[c] = {}
  /\ channels_' = channels_ \ {c}
  /\ index_' = [index_ EXCEPT ![c] = kNew]
  /\ failed' = (failed \/ index_[c] = kNew)
  /\ UNCHANGED <<events_, tree, eventListSize, ready, activeChannels>>

(* Channel::remove() and removeChannel(), called on a registered channel   *)
(* after disableAll() as Channel.cc asks.                                  *)
ChannelRemove(c) ==
  /\ c \in channels_
  /\ events_[c] = {}
  /\ channels_' = channels_ \ {c}
  /\ tree' = IF index_[c] = kAdded THEN [tree EXCEPT ![c] = Absent] ELSE tree
  /\ index_' = [index_ EXCEPT ![c] = kNew]
  /\ failed' = (failed \/ index_[c] = kNew \/ (index_[c] = kAdded /\ CtlFails("DEL", c)))
  /\ UNCHANGED <<events_, eventListSize, ready, activeChannels>>

(* What epoll_wait() has to say: hang-ups are reported unasked. *)
Reported == {c \in Channels : tree[c] # Absent /\ ready[c] \cap (tree[c] \cup {"hup"}) # {}}

(* A bug: the event list is never enlarged. *)
Poll_NoResize ==
  /\ \E S \in SUBSET Reported :
       /\ Cardinality(S) = IF Cardinality(Reported) < eventListSize
                           THEN Cardinality(Reported) ELSE eventListSize
       /\ activeChannels' = S
       /\ failed' = (failed \/ ~(S \subseteq channels_))
  /\ UNCHANGED <<events_, index_, channels_, tree, ready, eventListSize>>

(* poll(): epoll_wait() fills at most events_.size() entries, which ones   *)
(* is up to the kernel; a full list is doubled for the next time.          *)
Poll ==
  /\ \E S \in SUBSET Reported :
       /\ Cardinality(S) = IF Cardinality(Reported) < eventListSize
                           THEN Cardinality(Reported) ELSE eventListSize
       /\ activeChannels' = S
       /\ eventListSize' = IF Cardinality(S) = eventListSize
                           THEN eventListSize * 2 ELSE eventListSize
       /\ failed' = (failed \/ ~(S \subseteq channels_))
  /\ UNCHANGED <<events_, index_, channels_, tree, ready>>

(* The environment: the kernel's view of a file descriptor changes.        *)
FdChange(c) ==
  /\ \E r \in Promise!Kinds(c) : ready' = [ready EXCEPT ![c] = r]
  /\ UNCHANGED <<events_, index_, channels_, tree, eventListSize, activeChannels, failed>>

EPNext == Poll \/ \E c \in Channels : ChannelUpdate(c) \/ ChannelRemove(c) \/ FdChange(c)

EPSpec == EPInit /\ [][EPNext]_epvars

-----------------------------------------------------------------------------
(* index_ means what the comments on kNew, kAdded and kDeleted say, and a  *)
(* channel in the tree is there with the events it asked for.              *)
IndexMeaning ==
  \A c \in Channels :
    /\ index_[c] = kNew <=> c \notin channels_
    /\ index_[c] = kAdded <=> tree[c] # Absent
    /\ index_[c] = kAdded => tree[c] = events_[c]
    /\ index_[c] # kAdded => events_[c] = {}

(* No assert() of the poller fails and epoll_ctl() is never refused (a     *)
(* refused ADD or MOD aborts the program), whatever order the channels are *)
(* enabled, disabled and removed in.                                       *)
NeverFails == ~failed

(* The poller reports what channels asked for, as Poller promises. *)
EPollPromise == Promise!PSpec
=============================================================================
