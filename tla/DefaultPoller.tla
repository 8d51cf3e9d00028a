---------------------------- MODULE DefaultPoller ----------------------------
(***************************************************************************)
(* Poller::newDefaultPoller(): a loop polls with PollPoller when the       *)
(* environment has MUDUO_USE_POLL and with EPollPoller otherwise, so       *)
(* whatever an EventLoop relies on has to hold of both.  The channels'     *)
(* variables are those of either poller; the variables of the poller that  *)
(* was not chosen stay as they are.                                        *)
(***************************************************************************)
EXTENDS EPollPoller, Sequences

VARIABLES
  usePoll, pollfds_,
  fresh     \* history: channels put into pollfds_ with no events and not updated since

ByPoll == INSTANCE PollPoller

dpvars == <<epvars, usePoll, pollfds_, fresh>>

DPTypeOK ==
  /\ usePoll \in BOOLEAN /\ fresh \subseteq channels_
  /\ IF usePoll THEN ByPoll!PPTypeOK ELSE EPTypeOK

NewDefaultPoller ==
  /\ fresh = {}
  /\ \/ /\ usePoll = TRUE
        /\ ByPoll!PPInit
        /\ tree = [c \in Channels |-> Absent] /\ eventListSize = kInitEventListSize
     \/ /\ usePoll = FALSE
        /\ EPInit
        /\ pollfds_ = <<>>

EPollStep == ~usePoll /\ EPNext /\ UNCHANGED <<usePoll, pollfds_, fresh>>

PollUpdate(c) ==
  /\ ByPoll!ChannelUpdate(c)
  /\ fresh' = IF c \notin channels_ /\ events_'[c] = {} THEN fresh \cup {c} ELSE fresh \ {c}
PollRemove(c) == ByPoll!ChannelRemove(c) /\ fresh' = fresh \cap channels_'
PollKernel == (ByPoll!Poll \/ \E c \in Channels : ByPoll!FdChange(c)) /\ UNCHANGED fresh

PollStep ==
  /\ usePoll
  /\ PollKernel \/ \E c \in Channels : PollUpdate(c) \/ PollRemove(c)
  /\ UNCHANGED <<usePoll, tree, eventListSize>>

(* One poll() of the poller that was chosen. *)
AnyPoll ==
  \/ ~usePoll /\ Poll /\ UNCHANGED <<usePoll, pollfds_, fresh>>
  \/ usePoll /\ ByPoll!Poll /\ UNCHANGED <<usePoll, tree, eventListSize, fresh>>

(* The loop goes on calling poll(). *)
DPSpec == NewDefaultPoller /\ [][EPollStep \/ PollStep]_dpvars /\ WF_dpvars(AnyPoll)

-----------------------------------------------------------------------------
(* The events the poller watches: those the channel asked for, but         *)
(* PollPoller never takes back that the entry of a channel is ignored, so  *)
(* a channel that is enabled again stays deaf until it is removed.         *)
Watched ==
  [c \in Channels |-> IF usePoll /\ c \in channels_ /\ ByPoll!Entry(c).ignored THEN {} ELSE events_[c]]

Promised == INSTANCE Poller
              WITH interest <- Watched, registered <- channels_, active <- activeChannels

(* EPollPoller: index_ means what the comments on kNew, kAdded and         *)
(* kDeleted say of channels_ and of the epoll tree.                        *)
EPollIndex == ~usePoll => IndexMeaning

(* PollPoller: index_ leads to the channel's own entry of pollfds_, also   *)
(* after removeChannel() moved the last entry.                             *)
PollIndex == usePoll => ByPoll!IndexPointsBack

(* index_ leads the next updateChannel() or removeChannel() of a channel   *)
(* to its place, in the epoll tree or in pollfds_, after any sequence of   *)
(* calls.                                                                  *)
IndexFollows == DPTypeOK /\ EPollIndex /\ PollIndex

(* Whatever order channels are enabled, disabled and removed in (a Channel *)
(* that was removed is not used again), no assert() of EPollPoller fails   *)
(* and epoll_ctl() is never refused, and the only assert() of PollPoller   *)
(* that fails is the one on the negated fd in removeChannel(), for a       *)
(* channel whose first and last update() was to disable it: its entry was  *)
(* appended with no events and never negated.  ~Acceptor() of a server     *)
(* that did not listen removes such a channel.                             *)
AssertsHold ==
  [][~failed /\ failed' => usePoll /\ \E c \in fresh : ByPoll!ChannelRemove(c)]_dpvars

(* Both pollers report what they watch, as Poller promises, in whatever    *)
(* order channels are enabled, disabled and removed.                       *)
ImplementsPoller == Promised!PSpec

(* A channel that stays due is reported again and again, however many are  *)
(* due and however small the event list starts: the list doubles until     *)
(* they fit.                                                               *)
NoStarvation ==
  \A c \in Channels : []<>(c \in activeChannels) \/ []<>~Promised!Due(c) \/ <>failed
=============================================================================
