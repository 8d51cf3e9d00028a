------------------------- MODULE DefaultPollerProofs -------------------------
(***************************************************************************)
(* Proofs about EPollPoller and PollPoller, the two pollers a loop may     *)
(* have: index_ always leads to the place of a channel, which assert() can *)
(* fail, and that poll() reports what Poller promises.                     *)
(***************************************************************************)
EXTENDS DefaultPoller, FiniteSetTheorems, TLAPS

EPInv == EPTypeOK /\ IndexMeaning /\ NeverFails

ReadySets == SUBSET {"read", "write", "hup"}

USE DEF Promise!Events, Promise!Readiness

LEMMA EPInvInit == EPInit => EPInv
<1> SUFFICES ASSUME EPInit PROVE EPInv
  OBVIOUS
<1>1. failed \in BOOLEAN /\ NeverFails
  BY Zenon DEF EPInit, NeverFails
<1>2. EPTypeOK
  BY <1>1, EventListAssumption DEF EPInit, EPTypeOK, EventSets, ReadySets, Absent, kNew, kAdded, kDeleted
<1>3. IndexMeaning
  BY DEF EPInit, IndexMeaning, Absent, kNew, kAdded, kDeleted
<1> QED
  BY <1>1, <1>2, <1>3 DEF EPInv

(* The operations of Channel make sets of events out of sets of events. *)
LEMMA RequestsAreEvents ==
  ASSUME NEW c, NEW ev \in EventSets
  PROVE  Promise!Requests(c, ev) \subseteq EventSets
BY DEF EventSets, Promise!Requests, Promise!EnableReading, Promise!EnableWriting,
       Promise!DisableWriting, Promise!DisableAll

(* What the kernel says of a descriptor is a set of kinds of readiness. *)
LEMMA KindsAreReady == \A c : Promise!Kinds(c) \subseteq ReadySets
BY DEF Promise!Kinds, ReadySets

LEMMA AbsentIsNoEventSet == Absent \notin EventSets
BY DEF Absent, EventSets

LEMMA EPInvStep == EPInv /\ [EPNext]_epvars => EPInv'
<1> SUFFICES ASSUME EPInv, [EPNext]_epvars PROVE EPInv'
  OBVIOUS
<1> USE AbsentIsNoEventSet DEF kNew, kAdded, kDeleted
<1>0. ~failed
  BY DEF EPInv, NeverFails
<1>1. ASSUME NEW c \in Channels, ChannelUpdate(c) PROVE EPInv'
  <2>1. PICK ev \in Promise!Requests(c, events_[c]) :
           UpdateAdd(c, ev) \/ UpdateMod(c, ev) \/ UpdateDel(c, ev)
    BY <1>1 DEF ChannelUpdate
  <2>2. ev \in EventSets
    BY RequestsAreEvents DEF EPInv, EPTypeOK
  <2>3. CASE UpdateAdd(c, ev)
    <3>1. ~CtlFails("ADD", c) /\ ((index_[c] = kNew) <=> (c \notin channels_))
      BY <2>3 DEF UpdateAdd, CtlFails, EPInv, IndexMeaning
    <3>2. ~failed'
      BY <1>0, <2>3, <3>1, Zenon DEF UpdateAdd
    <3>3. failed' \in BOOLEAN /\ NeverFails'
      BY <2>3, <3>2, Zenon DEF UpdateAdd, NeverFails
    <3> QED
      BY <2>2, <2>3, <3>3 DEF UpdateAdd, EPInv, EPTypeOK, IndexMeaning
  <2>4. CASE UpdateMod(c, ev)
    <3>1. ~CtlFails("MOD", c) /\ c \in channels_
      BY <2>4 DEF UpdateMod, CtlFails, EPInv, IndexMeaning
    <3>2. ~failed'
      BY <1>0, <2>4, <3>1, Zenon DEF UpdateMod
    <3>3. failed' \in BOOLEAN /\ NeverFails'
      BY <2>4, <3>2, Zenon DEF UpdateMod, NeverFails
    <3> QED
      BY <2>2, <2>4, <3>3 DEF UpdateMod, EPInv, EPTypeOK, IndexMeaning
  <2>5. CASE UpdateDel(c, ev)
    <3>1. ~CtlFails("DEL", c) /\ c \in channels_
      BY <2>5 DEF UpdateDel, CtlFails, EPInv, IndexMeaning
    <3>2. ~failed'
      BY <1>0, <2>5, <3>1, Zenon DEF UpdateDel
    <3>3. failed' \in BOOLEAN /\ NeverFails'
      BY <2>5, <3>2, Zenon DEF UpdateDel, NeverFails
    <3> QED
      BY <2>2, <2>5, <3>3 DEF UpdateDel, EPInv, EPTypeOK, IndexMeaning
  <2> QED
    BY <2>1, <2>3, <2>4, <2>5
<1>2. ASSUME NEW c \in Channels, ChannelRemove(c) PROVE EPInv'
  <2>1. index_[c] # kNew /\ (index_[c] = kAdded => ~CtlFails("DEL", c))
    BY <1>2 DEF ChannelRemove, CtlFails, EPInv, IndexMeaning
  <2>2. ~failed'
    BY <1>0, <1>2, <2>1, Zenon DEF ChannelRemove
  <2>3. failed' \in BOOLEAN /\ NeverFails'
    BY <1>2, <2>2, Zenon DEF ChannelRemove, NeverFails
  <2> QED
    BY <1>2, <2>3 DEF ChannelRemove, EPInv, EPTypeOK, IndexMeaning
<1>3. ASSUME Poll PROVE EPInv'
  <2>1. Reported \subseteq channels_
    BY DEF Reported, EPInv, EPTypeOK, IndexMeaning
  <2>2. PICK S \in SUBSET Reported :
           /\ activeChannels' = S
           /\ eventListSize' = IF Cardinality(S) = eventListSize
                               THEN eventListSize * 2 ELSE eventListSize
           /\ failed' = (failed \/ ~(S \subseteq channels_))
    BY <1>3 DEF Poll
  <2>3. ~failed'
    BY <1>0, <2>1, <2>2, Zenon
  <2>4. failed' \in BOOLEAN /\ NeverFails'
    BY <2>2, <2>3, Zenon DEF NeverFails
  <2>5. eventListSize' \in Nat \ {0} /\ activeChannels' \subseteq Channels
    BY <2>2 DEF Reported, EPInv, EPTypeOK
  <2> QED
    BY <1>3, <2>4, <2>5 DEF Poll, EPInv, EPTypeOK, IndexMeaning
<1>4. ASSUME NEW c \in Channels, FdChange(c) PROVE EPInv'
  <2>1. PICK r \in ReadySets : ready' = [ready EXCEPT ![c] = r]
    BY <1>4, KindsAreReady, Zenon DEF FdChange
  <2>2. ready' \in [Channels -> ReadySets]
    BY <2>1 DEF EPInv, EPTypeOK, ReadySets
  <2> QED
    BY <1>4, <2>2 DEF FdChange, EPInv, EPTypeOK, IndexMeaning, NeverFails, ReadySets
<1>5. CASE UNCHANGED epvars
  BY <1>5 DEF epvars, EPInv, EPTypeOK, IndexMeaning, NeverFails
<1> QED
  BY <1>1, <1>2, <1>3, <1>4, <1>5 DEF EPNext

(* The inductive invariant holds in every state of the poller. *)
LEMMA EPInvariant == EPSpec => []EPInv
BY EPInvInit, EPInvStep, PTL DEF EPSpec

(* index_ of every Channel agrees with channels_ and the epoll tree: the   *)
(* meaning EPollPoller.cc gives to kNew, kAdded and kDeleted.              *)
THEOREM IndexAgrees == EPSpec => []IndexMeaning
<1>1. EPInv => IndexMeaning
  BY DEF EPInv
<1> QED
  BY <1>1, EPInvariant, PTL

(* No assert() of EPollPoller fails and no epoll_ctl() is refused. *)
THEOREM EPollNeverFails == EPSpec => []NeverFails
<1>1. EPInv => NeverFails
  BY DEF EPInv
<1> QED
  BY <1>1, EPInvariant, PTL

-----------------------------------------------------------------------------
(* What the tree reports is what the channels asked for, or a hang-up on a *)
(* registered channel.                                                     *)
LEMMA ReportedIsReportable ==
  ASSUME EPInv
  PROVE  /\ \A c \in Reported : Promise!Reportable(c)
         /\ \A c \in Channels : Promise!Due(c) => c \in Reported
<1> USE AbsentIsNoEventSet DEF kNew, kAdded, kDeleted
<1>1. ASSUME NEW c \in Reported PROVE Promise!Reportable(c)
  <2>1. c \in Channels /\ tree[c] = events_[c] /\ c \in channels_
    BY <1>1 DEF Reported, EPInv, EPTypeOK, IndexMeaning
  <2> QED
    BY <1>1, <2>1 DEF Reported, Promise!Reportable, Promise!Due
<1>2. ASSUME NEW c \in Channels, Promise!Due(c) PROVE c \in Reported
  <2>1. tree[c] = events_[c] /\ tree[c] # Absent
    BY <1>2 DEF Promise!Due, EPInv, EPTypeOK, IndexMeaning
  <2> QED
    BY <1>2, <2>1 DEF Reported, Promise!Due
<1> QED
  BY <1>1, <1>2

LEMMA PollIsPPoll == EPInv /\ Poll => Promise!PPoll
<1> SUFFICES ASSUME EPInv, Poll PROVE Promise!PPoll
  OBVIOUS
<1>1. PICK S \in SUBSET Reported :
         /\ Cardinality(S) = IF Cardinality(Reported) < eventListSize
                             THEN Cardinality(Reported) ELSE eventListSize
         /\ activeChannels' = S
  BY DEF Poll
<1>2. IsFiniteSet(Reported)
  BY ChannelsAssumption, FS_Subset DEF Reported
<1>3. ASSUME NEW c \in Channels, Promise!Due(c) PROVE activeChannels' # {}
  <2>1. Reported # {}
    BY <1>3, ReportedIsReportable
  <2>2. Cardinality(Reported) \in Nat /\ Cardinality(Reported) # 0
    BY <1>2, <2>1, FS_CardinalityType, FS_EmptySet
  <2>3. Cardinality(S) # 0
    BY <1>1, <2>2 DEF EPInv, EPTypeOK
  <2> QED
    BY <1>1, <2>3, FS_EmptySet
<1>4. activeChannels' \in SUBSET {c \in Channels : Promise!Reportable(c)}
  BY <1>1, ReportedIsReportable DEF Reported
<1> QED
  BY <1>3, <1>4 DEF Promise!PPoll, Poll

(* Every step of EPollPoller is a step of Poller or leaves it unchanged. *)
LEMMA EPStepRefined == EPInv /\ [EPNext]_epvars => [Promise!PNext]_(Promise!pvars)
<1> SUFFICES ASSUME EPInv, [EPNext]_epvars PROVE [Promise!PNext]_(Promise!pvars)
  OBVIOUS
<1>1. ASSUME NEW c \in Channels, ChannelUpdate(c) PROVE Promise!PUpdate(c)
  <2>1. PICK ev \in Promise!Requests(c, events_[c]) :
           UpdateAdd(c, ev) \/ UpdateMod(c, ev) \/ UpdateDel(c, ev)
    BY <1>1 DEF ChannelUpdate
  <2>2. index_[c] = kAdded => c \in channels_
    BY DEF EPInv, IndexMeaning, kNew, kAdded
  <2> QED
    BY <2>1, <2>2 DEF Promise!PUpdate, UpdateAdd, UpdateMod, UpdateDel
<1>2. ASSUME NEW c \in Channels, ChannelRemove(c) PROVE Promise!PRemove(c)
  BY <1>2 DEF ChannelRemove, Promise!PRemove
<1>3. ASSUME Poll PROVE Promise!PPoll
  BY <1>3, PollIsPPoll
<1>4. ASSUME NEW c \in Channels, FdChange(c) PROVE Promise!PReady(c)
  <2>1. PICK r \in Promise!Kinds(c) : ready' = [ready EXCEPT ![c] = r]
    BY <1>4, Zenon DEF FdChange
  <2> QED
    BY <1>4, <2>1, Zenon DEF FdChange, Promise!PReady
<1>5. CASE UNCHANGED epvars
  BY <1>5 DEF epvars, Promise!pvars
<1> QED
  BY <1>1, <1>2, <1>3, <1>4, <1>5 DEF EPNext, Promise!PNext

(* EPollPoller implements Poller: a channel with an event it asked for is  *)
(* never overlooked by a poll() that reports nothing, and only registered  *)
(* channels are reported.                                                  *)
THEOREM EPollImplementsPoller == EPSpec => EPollPromise
<1>1. EPInit => Promise!PInit
  BY DEF EPInit, Promise!PInit
<1> QED
  BY <1>1, EPInvariant, EPStepRefined, PTL DEF EPSpec, EPollPromise, Promise!PSpec

-----------------------------------------------------------------------------
(* PollPoller.  Besides what IndexPointsBack says: pollfds_ and the map    *)
(* have the same size, the entry of a channel that watches nothing is      *)
(* ignored unless the channel is fresh, and a channel the poller does not  *)
(* know watches nothing.                                                   *)
Sized == Len(pollfds_) = Cardinality(channels_)
IdleIgnored ==
  \A i \in 1 .. Len(pollfds_) :
    pollfds_[i].events = {} => pollfds_[i].ignored \/ pollfds_[i].fd \in fresh
UnknownIdle == \A c \in Channels \ channels_ : events_[c] = {}

PollInv ==
  /\ ByPoll!PPTypeOK /\ ByPoll!IndexPointsBack /\ Sized /\ IdleIgnored /\ UnknownIdle
  /\ fresh \subseteq channels_

(* The entry of the channel is ignored, whatever events it asked for. *)
Deaf(c) == c \in channels_ /\ pollfds_[index_[c] + 1].ignored

LEMMA SameCardinality == ByPoll!Cardinality(Channels) = Cardinality(Channels)
BY DEF ByPoll!Cardinality, Cardinality

LEMMA EntryFields ==
  ASSUME NEW e \in ByPoll!Entries
  PROVE  e.fd \in Channels /\ e.ignored \in BOOLEAN /\ e.events \in EventSets
BY DEF ByPoll!Entries, EventSets, ByPoll!Promise!Events

LEMMA EntryMade ==
  ASSUME NEW c \in Channels, NEW b \in BOOLEAN, NEW ev \in EventSets
  PROVE  [fd |-> c, ignored |-> b, events |-> ev] \in ByPoll!Entries
BY DEF ByPoll!Entries, EventSets, ByPoll!Promise!Events

(* What PPTypeOK says, in the terms the steps use. *)
LEMMA PollTypes ==
  ASSUME ByPoll!PPTypeOK
  PROVE  /\ events_ \in [Channels -> EventSets]
         /\ index_ \in [Channels -> Int]
         /\ \A c \in Channels : -1 <= index_[c] /\ index_[c] < Cardinality(Channels)
         /\ channels_ \subseteq Channels
         /\ pollfds_ \in Seq(ByPoll!Entries) /\ Len(pollfds_) \in Nat
         /\ \A i \in 1 .. Len(pollfds_) : pollfds_[i] \in ByPoll!Entries
         /\ ready \in [Channels -> ReadySets]
         /\ activeChannels \subseteq Channels
         /\ failed \in BOOLEAN
<1> USE DEF ByPoll!Promise!Readiness, ByPoll!Promise!Events
<1>1. Cardinality(Channels) \in Nat
  BY ChannelsAssumption, FS_CardinalityType
<1>0. ReadySets = SUBSET ByPoll!Promise!Readiness
  BY DEF ReadySets
<1>2. index_ \in [Channels -> -1 .. Cardinality(Channels) - 1]
  BY SameCardinality, Zenon DEF ByPoll!PPTypeOK
<1>3. /\ index_ \in [Channels -> Int]
      /\ \A c \in Channels : -1 <= index_[c] /\ index_[c] < Cardinality(Channels)
  BY <1>1, <1>2
<1>4. pollfds_ \in Seq(ByPoll!Entries)
  BY DEF ByPoll!PPTypeOK
<1>5. Len(pollfds_) \in Nat /\ \A i \in 1 .. Len(pollfds_) : pollfds_[i] \in ByPoll!Entries
  BY <1>4
<1>6. EventSets = SUBSET ByPoll!Promise!Events
  BY DEF EventSets, ByPoll!Promise!Events
<1> QED
  BY <1>0, <1>3, <1>4, <1>5, <1>6, Zenon DEF ByPoll!PPTypeOK

(* The converse, of the state after a step. *)
LEMMA PollTyped ==
  ASSUME events_' \in [Channels -> EventSets],
         index_' \in [Channels -> Int],
         \A c \in Channels : -1 <= index_'[c] /\ index_'[c] < Cardinality(Channels),
         channels_' \subseteq Channels,
         pollfds_' \in Seq(ByPoll!Entries),
         ready' \in [Channels -> ReadySets],
         activeChannels' \subseteq Channels,
         failed' \in BOOLEAN
  PROVE  ByPoll!PPTypeOK'
<1>1. Cardinality(Channels) \in Nat
  BY ChannelsAssumption, FS_CardinalityType
<1>2. index_' \in [Channels -> -1 .. Cardinality(Channels) - 1]
  BY <1>1
<1>3. EventSets = SUBSET ByPoll!Promise!Events /\ ReadySets = SUBSET ByPoll!Promise!Readiness
  BY DEF EventSets, ReadySets, ByPoll!Promise!Events, ByPoll!Promise!Readiness
<1> QED
  BY <1>2, <1>3, SameCardinality, Zenon DEF ByPoll!PPTypeOK

LEMMA PollInvInit == ByPoll!PPInit /\ fresh = {} => PollInv
<1> SUFFICES ASSUME ByPoll!PPInit, fresh = {} PROVE PollInv
  OBVIOUS
<1>1. failed \in BOOLEAN
  BY Zenon DEF ByPoll!PPInit
<1>2. Cardinality(Channels) \in Nat /\ Cardinality({}) = 0
  BY ChannelsAssumption, FS_CardinalityType, FS_EmptySet
<1>3. /\ events_ \in [Channels -> EventSets] /\ ready \in [Channels -> ReadySets]
      /\ \A c \in Channels : events_[c] = {}
  BY DEF ByPoll!PPInit, EventSets, ReadySets
<1>4. index_ = [c \in Channels |-> -1]
  BY DEF ByPoll!PPInit
<1>5. /\ index_ \in [Channels -> Int] /\ \A c \in Channels : index_[c] = -1
      /\ \A c \in Channels : -1 <= index_[c] /\ index_[c] < Cardinality(Channels)
  BY <1>2, <1>4
<1>6. channels_ = {} /\ activeChannels = {} /\ pollfds_ = <<>>
  BY DEF ByPoll!PPInit
<1>7. pollfds_ \in Seq(ByPoll!Entries) /\ Len(pollfds_) = 0
  BY <1>6
<1>8. ByPoll!PPTypeOK
  <2>1. index_ \in [Channels -> -1 .. Cardinality(Channels) - 1]
    BY <1>2, <1>5
  <2>2. EventSets = SUBSET ByPoll!Promise!Events /\ ReadySets = SUBSET ByPoll!Promise!Readiness
    BY DEF EventSets, ReadySets, ByPoll!Promise!Events, ByPoll!Promise!Readiness
  <2> QED
    BY <1>1, <1>3, <1>6, <1>7, <2>1, <2>2, SameCardinality, Zenon DEF ByPoll!PPTypeOK
<1>9. Sized
  BY <1>2, <1>6, <1>7 DEF Sized
<1>10. 1 .. Len(pollfds_) = {}
  BY <1>7
<1>11. IdleIgnored /\ UnknownIdle
  BY <1>3, <1>10, Zenon DEF IdleIgnored, UnknownIdle
<1>12. ByPoll!IndexPointsBack
  BY <1>5, <1>6, <1>10, Zenon DEF ByPoll!IndexPointsBack
<1> QED
  BY <1>8, <1>9, <1>11, <1>12 DEF PollInv

(* What IndexPointsBack says, with the places of pollfds_ from 1. *)
LEMMA PointsBack ==
  ASSUME ByPoll!PPTypeOK, ByPoll!IndexPointsBack
  PROVE  /\ \A c \in channels_ : /\ index_[c] + 1 \in 1 .. Len(pollfds_)
                                 /\ pollfds_[index_[c] + 1].fd = c
                                 /\ pollfds_[index_[c] + 1].events = events_[c]
         /\ \A c \in Channels : c \in channels_ <=> index_[c] >= 0
         /\ \A i \in 1 .. Len(pollfds_) : pollfds_[i].fd \in channels_ /\ index_[pollfds_[i].fd] = i - 1
<1>1. /\ index_ \in [Channels -> Int] /\ Len(pollfds_) \in Nat /\ channels_ \subseteq Channels
  BY PollTypes, Zenon
<1>2. ASSUME NEW c \in channels_
      PROVE  /\ index_[c] + 1 \in 1 .. Len(pollfds_) /\ index_[c] >= 0
             /\ pollfds_[index_[c] + 1].fd = c /\ pollfds_[index_[c] + 1].events = events_[c]
  <2>1. index_[c] \in 0 .. Len(pollfds_) - 1
    BY <1>2, Zenon DEF ByPoll!IndexPointsBack, ByPoll!InBounds
  <2>2. pollfds_[index_[c] + 1].fd = c /\ pollfds_[index_[c] + 1].events = events_[c]
    BY <1>2, Zenon DEF ByPoll!IndexPointsBack, ByPoll!Entry
  <2>3. index_[c] + 1 \in 1 .. Len(pollfds_) /\ index_[c] >= 0
    BY <1>1, <2>1
  <2> QED
    BY <2>2, <2>3, Zenon
<1>3. ASSUME NEW c \in Channels, c \notin channels_ PROVE ~(index_[c] >= 0)
  <2>1. index_[c] = -1
    BY <1>3, Zenon DEF ByPoll!IndexPointsBack
  <2> QED
    BY <2>1
<1>4. \A i \in 1 .. Len(pollfds_) : pollfds_[i].fd \in channels_ /\ index_[pollfds_[i].fd] = i - 1
  BY Zenon DEF ByPoll!IndexPointsBack
<1> QED
  BY <1>1, <1>2, <1>3, <1>4, Zenon

(* The converse, of the state after a step. *)
LEMMA PointedBack ==
  ASSUME Len(pollfds_') \in Nat, index_' \in [Channels -> Int], channels_' \subseteq Channels,
         \A c \in channels_' : /\ index_'[c] + 1 \in 1 .. Len(pollfds_')
                               /\ pollfds_'[index_'[c] + 1].fd = c
                               /\ pollfds_'[index_'[c] + 1].events = events_'[c],
         \A c \in Channels \ channels_' : index_'[c] = -1,
         \A i \in 1 .. Len(pollfds_') :
           pollfds_'[i].fd \in channels_' /\ index_'[pollfds_'[i].fd] = i - 1
  PROVE  ByPoll!IndexPointsBack'
<1>1. ASSUME NEW c \in channels_' PROVE index_'[c] \in 0 .. Len(pollfds_') - 1
  <2>1. index_'[c] + 1 \in 1 .. Len(pollfds_') /\ index_'[c] \in Int
    BY <1>1
  <2> QED
    BY <2>1
<1> QED
  BY <1>1, Zenon DEF ByPoll!IndexPointsBack, ByPoll!InBounds, ByPoll!Entry

LEMMA PollRequests ==
  ASSUME NEW c, NEW ev \in EventSets
  PROVE  ByPoll!Promise!Requests(c, ev) = Promise!Requests(c, ev)
BY DEF ByPoll!Promise!Requests, ByPoll!Promise!EnableReading, ByPoll!Promise!EnableWriting,
       ByPoll!Promise!DisableWriting, ByPoll!Promise!DisableAll,
       Promise!Requests, Promise!EnableReading, Promise!EnableWriting,
       Promise!DisableWriting, Promise!DisableAll

(* The parts of PollInv. *)
LEMMA PollFacts ==
  ASSUME PollInv
  PROVE  /\ ByPoll!PPTypeOK /\ ByPoll!IndexPointsBack
         /\ Sized /\ IdleIgnored /\ UnknownIdle /\ fresh \subseteq channels_
BY Zenon DEF PollInv

(* updateChannel() of a channel PollPoller has not seen appends its entry. *)
LEMMA UpdateNewKeeps ==
  ASSUME PollInv, NEW c \in Channels, NEW ev \in EventSets,
         events_' = [events_ EXCEPT ![c] = ev], ByPoll!UpdateNew(c, ev),
         fresh' = IF c \notin channels_ /\ ev = {} THEN fresh \cup {c} ELSE fresh \ {c},
         UNCHANGED <<ready, activeChannels>>
  PROVE  /\ PollInv' /\ c \notin channels_ /\ channels_' = channels_ \cup {c} /\ failed' = FALSE
         /\ ~Deaf(c)' /\ \A d \in Channels : d # c => (Deaf(d)' <=> Deaf(d))
<1> DEFINE n == Len(pollfds_)
           new == [fd |-> c, ignored |-> FALSE, events |-> ev]
<1>0. /\ ByPoll!PPTypeOK /\ ByPoll!IndexPointsBack /\ Sized /\ IdleIgnored /\ UnknownIdle
      /\ fresh \subseteq channels_
  BY PollFacts, Zenon
<1>1. /\ events_ \in [Channels -> EventSets] /\ index_ \in [Channels -> Int]
      /\ channels_ \subseteq Channels /\ pollfds_ \in Seq(ByPoll!Entries) /\ n \in Nat
      /\ \A i \in 1 .. n : pollfds_[i] \in ByPoll!Entries
      /\ ready \in [Channels -> ReadySets] /\ activeChannels \subseteq Channels
      /\ \A d \in Channels : -1 <= index_[d] /\ index_[d] < Cardinality(Channels)
  BY <1>0, PollTypes, Zenon
<1>2. index_[c] < 0 /\ index_[c] \in Int
  BY <1>1 DEF ByPoll!UpdateNew
<1>3. ~(index_[c] >= 0)
  BY <1>2
<1>4. c \notin channels_
  BY <1>0, <1>3, PointsBack, Zenon
<1>5. /\ pollfds_' = Append(pollfds_, new) /\ index_' = [index_ EXCEPT ![c] = n]
      /\ channels_' = channels_ \cup {c} /\ failed' = FALSE
  BY <1>4, Zenon DEF ByPoll!UpdateNew, ByPoll!Asserting
<1>6. new \in ByPoll!Entries /\ new.fd = c /\ new.events = ev /\ new.ignored = FALSE
  <2>1. new \in ByPoll!Entries
    BY EntryMade, Zenon
  <2>2. new.fd = c /\ new.events = ev /\ new.ignored = FALSE
    OBVIOUS
  <2> QED
    BY <2>1, <2>2, Zenon
<1> HIDE DEF new
<1>7. /\ pollfds_' \in Seq(ByPoll!Entries) /\ Len(pollfds_') = n + 1 /\ Len(pollfds_') \in Nat
      /\ pollfds_'[n + 1] = new /\ \A i \in 1 .. n : pollfds_'[i] = pollfds_[i]
  BY <1>1, <1>5, <1>6
<1>8. /\ IsFiniteSet(channels_) /\ Cardinality(channels_) = n
      /\ Cardinality(channels_') = n + 1 /\ n + 1 <= Cardinality(Channels)
      /\ Cardinality(Channels) \in Nat
  <2>1. IsFiniteSet(channels_) /\ Cardinality(channels_) = n
    BY <1>0, <1>1, ChannelsAssumption, FS_Subset DEF Sized
  <2>2. channels_' \subseteq Channels
    BY <1>1, <1>5
  <2>3. Cardinality(channels_') = Cardinality(channels_) + 1
    BY <1>4, <1>5, <2>1, FS_AddElement, Zenon
  <2>4. Cardinality(channels_') <= Cardinality(Channels)
    BY <2>2, ChannelsAssumption, FS_Subset
  <2>5. Cardinality(Channels) \in Nat
    BY ChannelsAssumption, FS_CardinalityType
  <2> QED
    BY <2>1, <2>3, <2>4, <2>5
<1>9. /\ index_' \in [Channels -> Int] /\ index_'[c] = n
      /\ \A d \in Channels : d # c => index_'[d] = index_[d]
  BY <1>1, <1>5
<1>10. \A d \in Channels : -1 <= index_'[d] /\ index_'[d] < Cardinality(Channels)
  BY <1>1, <1>8, <1>9
<1>11. /\ events_' \in [Channels -> EventSets] /\ events_'[c] = ev
       /\ \A d \in Channels : d # c => events_'[d] = events_[d]
  BY <1>1
<1>12. ByPoll!PPTypeOK'
  <2>1. failed' \in BOOLEAN /\ channels_' \subseteq Channels
    BY <1>1, <1>5, Zenon
  <2> QED
    BY <1>1, <1>7, <1>9, <1>10, <1>11, <2>1, PollTyped, Zenon
<1>13. Sized'
  BY <1>5, <1>7, <1>8 DEF Sized
<1>14. ASSUME NEW i \in 1 .. Len(pollfds_') PROVE i \in 1 .. n \/ i = n + 1
  BY <1>1, <1>7
<1>15. IdleIgnored' /\ fresh' \subseteq channels_'
  <2>1. /\ \A d \in fresh : d # c => d \in fresh' /\ (ev = {} => c \in fresh')
        /\ fresh' \subseteq channels_' /\ (ev = {} => c \in fresh')
    BY <1>0, <1>4, <1>5, Zenon
  <2>2. \A i \in 1 .. n : pollfds_[i].fd # c
    BY <1>0, <1>4, PointsBack, Zenon
  <2> QED
    BY <1>0, <1>6, <1>7, <1>14, <2>1, <2>2, Zenon DEF IdleIgnored
<1>16. UnknownIdle'
  BY <1>0, <1>1, <1>5, <1>11, Zenon DEF UnknownIdle
<1>17. ASSUME NEW d \in channels_'
       PROVE  /\ index_'[d] + 1 \in 1 .. Len(pollfds_')
              /\ pollfds_'[index_'[d] + 1].fd = d
              /\ pollfds_'[index_'[d] + 1].events = events_'[d]
  <2>1. CASE d = c
    <3>1. index_'[d] + 1 = n + 1
      BY <1>9, <2>1
    <3>2. n + 1 \in 1 .. Len(pollfds_')
      BY <1>1, <1>7
    <3> QED
      BY <1>6, <1>7, <1>11, <2>1, <3>1, <3>2, Zenon
  <2>2. CASE d # c
    <3>1. d \in channels_ /\ d \in Channels
      BY <1>1, <1>5, <1>17, <2>2, Zenon
    <3>2. /\ index_[d] + 1 \in 1 .. n /\ pollfds_[index_[d] + 1].fd = d
          /\ pollfds_[index_[d] + 1].events = events_[d]
      BY <1>0, <3>1, PointsBack, Zenon
    <3>3. index_[d] + 1 \in 1 .. Len(pollfds_')
      BY <1>1, <1>7, <3>2
    <3> QED
      BY <1>7, <1>9, <1>11, <2>2, <3>1, <3>2, <3>3, Zenon
  <2> QED
    BY <2>1, <2>2
<1>18. ASSUME NEW d \in Channels \ channels_' PROVE index_'[d] = -1
  BY <1>0, <1>5, <1>9, <1>18, Zenon DEF ByPoll!IndexPointsBack
<1>19. ASSUME NEW i \in 1 .. Len(pollfds_')
       PROVE  pollfds_'[i].fd \in channels_' /\ index_'[pollfds_'[i].fd] = i - 1
  <2>1. CASE i = n + 1
    <3>1. n = i - 1
      BY <1>1, <2>1
    <3> QED
      BY <1>5, <1>6, <1>7, <1>9, <2>1, <3>1, Zenon
  <2>2. CASE i \in 1 .. n
    <3>1. pollfds_[i].fd \in channels_ /\ index_[pollfds_[i].fd] = i - 1
      BY <1>0, <2>2, PointsBack, Zenon
    <3> QED
      BY <1>1, <1>4, <1>5, <1>7, <1>9, <2>2, <3>1, Zenon
  <2> QED
    BY <1>14, <2>1, <2>2
<1>20. channels_' \subseteq Channels
  BY <1>1, <1>5, Zenon
<1>21. ByPoll!IndexPointsBack'
  BY <1>7, <1>9, <1>17, <1>18, <1>19, <1>20, PointedBack, Zenon
<1>22. ~Deaf(c)' /\ \A d \in Channels : d # c => (Deaf(d)' <=> Deaf(d))
  <2>1. pollfds_'[index_'[c] + 1].ignored = FALSE
    BY <1>6, <1>7, <1>9, Zenon
  <2>2. ASSUME NEW d \in Channels, d # c PROVE Deaf(d)' <=> Deaf(d)
    <3>1. index_'[d] = index_[d] /\ (d \in channels_' <=> d \in channels_)
      BY <1>5, <1>9, <2>2, Zenon
    <3>2. d \in channels_ => pollfds_'[index_[d] + 1] = pollfds_[index_[d] + 1]
      BY <1>0, <1>7, PointsBack, Zenon
    <3> QED
      BY <3>1, <3>2, Zenon DEF Deaf
  <2> QED
    BY <2>1, <2>2, Zenon DEF Deaf
<1> QED
  BY <1>4, <1>5, <1>12, <1>13, <1>15, <1>16, <1>21, <1>22, Zenon DEF PollInv

(* updateChannel() of a channel PollPoller knows writes to its own entry.  *)
LEMMA UpdateExistingKeeps ==
  ASSUME PollInv, NEW c \in Channels, NEW ev \in EventSets,
         events_' = [events_ EXCEPT ![c] = ev], ByPoll!UpdateExisting(c, ev),
         fresh' = IF c \notin channels_ /\ ev = {} THEN fresh \cup {c} ELSE fresh \ {c},
         UNCHANGED <<ready, activeChannels>>
  PROVE  /\ PollInv' /\ c \in channels_ /\ channels_' = channels_ /\ failed' = FALSE
         /\ Deaf(c)' <=> Deaf(c) \/ ev = {}
         /\ \A d \in Channels : d # c => (Deaf(d)' <=> Deaf(d))
<1> DEFINE n == Len(pollfds_)
           k == index_[c] + 1
           old == pollfds_[k]
           new == [fd |-> c, ignored |-> old.ignored \/ ev = {}, events |-> ev]
<1>0. /\ ByPoll!PPTypeOK /\ ByPoll!IndexPointsBack /\ Sized /\ IdleIgnored /\ UnknownIdle
      /\ fresh \subseteq channels_
  BY PollFacts, Zenon
<1>1. /\ events_ \in [Channels -> EventSets] /\ index_ \in [Channels -> Int]
      /\ channels_ \subseteq Channels /\ pollfds_ \in Seq(ByPoll!Entries) /\ n \in Nat
      /\ \A i \in 1 .. n : pollfds_[i] \in ByPoll!Entries
      /\ ready \in [Channels -> ReadySets] /\ activeChannels \subseteq Channels
      /\ \A d \in Channels : -1 <= index_[d] /\ index_[d] < Cardinality(Channels)
  BY <1>0, PollTypes, Zenon
<1>2. index_[c] >= 0
  BY Zenon DEF ByPoll!UpdateExisting
<1>3. c \in channels_
  BY <1>0, <1>2, PointsBack, Zenon
<1>4. k \in 1 .. n /\ old.fd = c /\ old.events = events_[c]
  BY <1>0, <1>3, PointsBack, Zenon
<1>5. index_[c] \in 0 .. Len(pollfds_) - 1
  BY <1>1, <1>4
<1>6. /\ pollfds_' = [pollfds_ EXCEPT ![k] = new] /\ failed' = FALSE
      /\ index_' = index_ /\ channels_' = channels_
  BY <1>3, <1>4, <1>5, Zenon DEF ByPoll!UpdateExisting, ByPoll!Asserting, ByPoll!InBounds, ByPoll!Entry
<1>7. old \in ByPoll!Entries
  BY <1>1, <1>4, Zenon
<1>8. new \in ByPoll!Entries /\ new.fd = c /\ new.events = ev /\ new.ignored = (old.ignored \/ ev = {})
  <2>1. (old.ignored \/ ev = {}) \in BOOLEAN
    BY <1>7, EntryFields, Zenon
  <2>2. new \in ByPoll!Entries
    BY <2>1, EntryMade, Zenon
  <2>3. new.fd = c /\ new.events = ev /\ new.ignored = (old.ignored \/ ev = {})
    OBVIOUS
  <2> QED
    BY <2>2, <2>3, Zenon
<1>9. new.events = {} => new.ignored
  BY <1>8, Zenon
<1> HIDE DEF new, old, k
<1>10. /\ pollfds_' \in Seq(ByPoll!Entries) /\ Len(pollfds_') = n
       /\ pollfds_'[k] = new /\ \A i \in 1 .. n : i # k => pollfds_'[i] = pollfds_[i]
  BY <1>1, <1>4, <1>6, <1>8
<1>11. /\ events_' \in [Channels -> EventSets] /\ events_'[c] = ev
       /\ \A d \in Channels : d # c => events_'[d] = events_[d]
  BY <1>1
<1>12. ByPoll!PPTypeOK'
  <2>1. failed' \in BOOLEAN
    BY <1>6, Zenon
  <2> QED
    BY <1>1, <1>6, <1>10, <1>11, <2>1, PollTyped, Zenon
<1>13. Sized'
  BY <1>0, <1>6, <1>10, Zenon DEF Sized
<1>14. IdleIgnored' /\ fresh' \subseteq channels_'
  <2>1. /\ fresh' \subseteq channels_' /\ \A d \in fresh : d # c => d \in fresh'
    BY <1>0, <1>3, <1>6, Zenon
  <2>2. \A i \in 1 .. n : i # k => pollfds_[i].fd # c
    BY <1>0, <1>1, PointsBack DEF k
  <2> QED
    BY <1>0, <1>9, <1>10, <2>1, <2>2, Zenon DEF IdleIgnored
<1>15. UnknownIdle'
  BY <1>0, <1>3, <1>6, <1>11, Zenon DEF UnknownIdle
<1>16. ASSUME NEW d \in channels_'
       PROVE  /\ index_'[d] + 1 \in 1 .. Len(pollfds_')
              /\ pollfds_'[index_'[d] + 1].fd = d
              /\ pollfds_'[index_'[d] + 1].events = events_'[d]
  <2>1. CASE d = c
    BY <1>4, <1>6, <1>8, <1>10, <1>11, <2>1, Zenon DEF k
  <2>2. CASE d # c
    <3>1. d \in channels_ /\ d \in Channels
      BY <1>1, <1>6, <1>16, Zenon
    <3>2. /\ index_[d] + 1 \in 1 .. n /\ pollfds_[index_[d] + 1].fd = d
          /\ pollfds_[index_[d] + 1].events = events_[d]
      BY <1>0, <3>1, PointsBack, Zenon
    <3>3. index_[d] + 1 # k
      BY <1>4, <2>2, <3>2, Zenon DEF old
    <3> QED
      BY <1>6, <1>10, <1>11, <2>2, <3>1, <3>2, <3>3, Zenon
  <2> QED
    BY <2>1, <2>2
<1>17. ASSUME NEW d \in Channels \ channels_' PROVE index_'[d] = -1
  BY <1>0, <1>6, <1>17, Zenon DEF ByPoll!IndexPointsBack
<1>18. ASSUME NEW i \in 1 .. Len(pollfds_')
       PROVE  pollfds_'[i].fd \in channels_' /\ index_'[pollfds_'[i].fd] = i - 1
  <2>1. pollfds_[i].fd \in channels_ /\ index_[pollfds_[i].fd] = i - 1
    BY <1>0, <1>10, <1>18, PointsBack, Zenon
  <2>2. pollfds_'[i].fd = pollfds_[i].fd
    BY <1>4, <1>8, <1>10, <1>18, Zenon DEF old
  <2>3. index_'[pollfds_'[i].fd] = index_[pollfds_[i].fd]
    BY <1>6, <2>2
  <2> QED
    BY <1>6, <2>1, <2>2, <2>3
<1>19. ByPoll!IndexPointsBack'
  BY <1>1, <1>6, <1>10, <1>16, <1>17, <1>18, PointedBack, Zenon
<1>20. (Deaf(c)' <=> Deaf(c) \/ ev = {}) /\ \A d \in Channels : d # c => (Deaf(d)' <=> Deaf(d))
  <2>1. Deaf(c)' <=> Deaf(c) \/ ev = {}
    BY <1>3, <1>6, <1>8, <1>10, Zenon DEF Deaf, k, old
  <2>2. ASSUME NEW d \in Channels, d # c PROVE Deaf(d)' <=> Deaf(d)
    <3>1. d \in channels_ => index_[d] + 1 \in 1 .. n /\ pollfds_[index_[d] + 1].fd = d
      BY <1>0, PointsBack, Zenon
    <3>2. d \in channels_ => pollfds_'[index_[d] + 1] = pollfds_[index_[d] + 1]
      BY <1>4, <1>10, <2>2, <3>1, Zenon DEF old
    <3> QED
      BY <1>6, <3>2, Zenon DEF Deaf
  <2> QED
    BY <2>1, <2>2, Zenon
<1> QED
  BY <1>3, <1>6, <1>12, <1>13, <1>14, <1>15, <1>19, <1>20, Zenon DEF PollInv

LEMMA ChopLast ==
  ASSUME NEW S, NEW s \in Seq(S), Len(s) - 1 \in Nat
  PROVE  /\ SubSeq(s, 1, Len(s) - 1) \in Seq(S) /\ Len(SubSeq(s, 1, Len(s) - 1)) = Len(s) - 1
         /\ \A i \in 1 .. Len(s) - 1 : i \in 1 .. Len(s) /\ SubSeq(s, 1, Len(s) - 1)[i] = s[i]
<1>1. Len(s) \in Nat /\ \A i \in 1 .. Len(s) : s[i] \in S
  OBVIOUS
<1>2. SubSeq(s, 1, Len(s) - 1) = [i \in 1 .. Len(s) - 1 |-> s[i]]
  BY <1>1
<1>3. \A i \in 1 .. Len(s) - 1 : i \in 1 .. Len(s)
  BY <1>1
<1> DEFINE t == [i \in 1 .. Len(s) - 1 |-> s[i]]
<1>4. t \in Seq(S) /\ Len(t) = Len(s) - 1
  BY <1>1, <1>3
<1> QED
  BY <1>2, <1>3, <1>4

(* Erasing the entry of c, whether it is the last or the last takes its    *)
(* place.                                                                  *)
LEMMA EntryRemoved ==
  ASSUME PollInv, NEW c \in channels_, ByPoll!RemoveEntry(c)
  PROVE  LET n == Len(pollfds_) IN
         /\ pollfds_' \in Seq(ByPoll!Entries) /\ Len(pollfds_') = n - 1
         /\ \A i \in 1 .. n - 1 :
              pollfds_'[i] = IF i = index_[c] + 1 THEN pollfds_[n] ELSE pollfds_[i]
         /\ index_' \in [Channels -> Int] /\ index_'[c] = -1
         /\ \A d \in Channels : d # c =>
              index_'[d] = IF d = pollfds_[n].fd THEN index_[c] ELSE index_[d]
<1> DEFINE n == Len(pollfds_)
           last == pollfds_[n]
<1>0. ByPoll!PPTypeOK /\ ByPoll!IndexPointsBack
  BY PollFacts, Zenon
<1>1. /\ index_ \in [Channels -> Int] /\ channels_ \subseteq Channels
      /\ pollfds_ \in Seq(ByPoll!Entries) /\ n \in Nat
      /\ \A i \in 1 .. n : pollfds_[i] \in ByPoll!Entries
  BY <1>0, PollTypes, Zenon
<1>2. c \in Channels /\ index_[c] \in Int
  BY <1>1
<1>3. /\ index_[c] + 1 \in 1 .. n /\ pollfds_[index_[c] + 1].fd = c
  BY <1>0, PointsBack, Zenon
<1>4. n \in 1 .. n /\ n - 1 \in Nat
  BY <1>1, <1>2, <1>3
<1>5. last.fd \in Channels /\ index_[last.fd] = n - 1 /\ last \in ByPoll!Entries
  BY <1>0, <1>1, <1>4, PointsBack, Zenon
<1> HIDE DEF last
<1>6. CASE index_[c] = n - 1
  <2>1. pollfds_' = SubSeq(pollfds_, 1, n - 1) /\ index_' = [index_ EXCEPT ![c] = -1]
    BY <1>6, Zenon DEF ByPoll!RemoveEntry, ByPoll!WithoutLast
  <2>2. last.fd = c
    <3>1. index_[c] + 1 = n
      BY <1>1, <1>6
    <3> QED
      BY <1>3, <3>1, Zenon DEF last
  <2>3. /\ pollfds_' \in Seq(ByPoll!Entries) /\ Len(pollfds_') = n - 1
        /\ \A i \in 1 .. n - 1 : pollfds_'[i] = pollfds_[i] /\ i # index_[c] + 1
    <3>1. /\ pollfds_' \in Seq(ByPoll!Entries) /\ Len(pollfds_') = n - 1
          /\ \A i \in 1 .. n - 1 : pollfds_'[i] = pollfds_[i]
      BY <1>1, <1>4, <2>1, ChopLast, Zenon
    <3>2. \A i \in 1 .. n - 1 : i # index_[c] + 1
      BY <1>1, <1>6
    <3> QED
      BY <3>1, <3>2, Zenon
  <2>4. /\ index_' \in [Channels -> Int] /\ index_'[c] = -1
        /\ \A d \in Channels : d # c => index_'[d] = index_[d]
    BY <1>1, <1>2, <2>1
  <2> QED
    BY <2>2, <2>3, <2>4, Zenon DEF last
<1>7. CASE index_[c] # n - 1
  <2> DEFINE moved == [pollfds_ EXCEPT ![index_[c] + 1] = last]
  <2>1. /\ pollfds_' = SubSeq(moved, 1, Len(moved) - 1)
        /\ index_' = [index_ EXCEPT ![last.fd] = index_[c], ![c] = -1]
    BY <1>7, Zenon DEF ByPoll!RemoveEntry, ByPoll!WithoutLast, last
  <2>2. /\ moved \in Seq(ByPoll!Entries) /\ Len(moved) = n
        /\ \A i \in 1 .. n : moved[i] = IF i = index_[c] + 1 THEN last ELSE pollfds_[i]
    BY <1>1, <1>3, <1>5
  <2> HIDE DEF moved
  <2>3. /\ pollfds_' \in Seq(ByPoll!Entries) /\ Len(pollfds_') = n - 1
        /\ \A i \in 1 .. n - 1 : i \in 1 .. n /\ pollfds_'[i] = moved[i]
    BY <1>1, <1>4, <2>1, <2>2, ChopLast, Zenon
  <2>4. last.fd # c
    BY <1>5, <1>7, Zenon
  <2>5. /\ index_' \in [Channels -> Int] /\ index_'[c] = -1
        /\ \A d \in Channels : d # c =>
             index_'[d] = IF d = last.fd THEN index_[c] ELSE index_[d]
    BY <1>1, <1>2, <1>5, <2>1, <2>4
  <2> QED
    BY <2>2, <2>3, <2>5, Zenon DEF last
<1> QED
  BY <1>6, <1>7

(* Channel::remove() of a channel whose entry is ignored: no assert()      *)
(* fails, and the entry that moved and its index still point at each       *)
(* other.                                                                  *)
LEMMA RemoveKeeps ==
  ASSUME PollInv, NEW c \in Channels, ByPoll!ChannelRemove(c), Deaf(c),
         fresh' = fresh \cap channels_'
  PROVE  /\ PollInv' /\ channels_' = channels_ \ {c} /\ failed' = FALSE
         /\ ~Deaf(c)' /\ \A d \in Channels : d # c => (Deaf(d)' <=> Deaf(d))
<1> DEFINE n == Len(pollfds_)
           k == index_[c] + 1
           m == pollfds_[n].fd
<1>0. /\ ByPoll!PPTypeOK /\ ByPoll!IndexPointsBack /\ Sized /\ IdleIgnored /\ UnknownIdle
      /\ fresh \subseteq channels_
  BY PollFacts, Zenon
<1>1. /\ events_ \in [Channels -> EventSets] /\ index_ \in [Channels -> Int]
      /\ channels_ \subseteq Channels /\ n \in Nat
      /\ ready \in [Channels -> ReadySets] /\ activeChannels \subseteq Channels
      /\ \A d \in Channels : -1 <= index_[d] /\ index_[d] < Cardinality(Channels)
  BY <1>0, PollTypes, Zenon
<1>2. c \in channels_ /\ events_[c] = {} /\ events_' = events_
      /\ ready' = ready /\ activeChannels' = activeChannels
  BY Zenon DEF ByPoll!ChannelRemove
<1>3. k \in 1 .. n /\ pollfds_[k].fd = c /\ pollfds_[k].events = {} /\ index_[c] \in Int
  BY <1>0, <1>1, <1>2, PointsBack, Zenon
<1>4. pollfds_[k].ignored
  BY Zenon DEF Deaf
<1>5. index_[c] \in 0 .. n - 1
  BY <1>1, <1>3
<1>6. ByPoll!RemoveEntry(c) /\ channels_' = channels_ \ {c} /\ failed' = FALSE
  BY <1>3, <1>4, <1>5, Zenon DEF ByPoll!ChannelRemove, ByPoll!Asserting, ByPoll!InBounds, ByPoll!Entry
<1>7. /\ pollfds_' \in Seq(ByPoll!Entries) /\ Len(pollfds_') = n - 1
      /\ \A i \in 1 .. n - 1 : pollfds_'[i] = IF i = k THEN pollfds_[n] ELSE pollfds_[i]
      /\ index_' \in [Channels -> Int] /\ index_'[c] = -1
      /\ \A d \in Channels : d # c => index_'[d] = IF d = m THEN index_[c] ELSE index_[d]
  BY <1>2, <1>6, EntryRemoved, Zenon
<1>8. n \in 1 .. n /\ n - 1 \in Nat
  BY <1>1, <1>3
<1>9. m \in channels_ /\ index_[m] = n - 1
  BY <1>0, <1>8, PointsBack, Zenon
<1> HIDE DEF m
<1>10. \A d \in Channels : -1 <= index_'[d] /\ index_'[d] < Cardinality(Channels)
  <2>1. Cardinality(Channels) \in Nat
    BY ChannelsAssumption, FS_CardinalityType
  <2>2. ASSUME NEW d \in Channels PROVE index_'[d] \in {-1, index_[c], index_[d]}
    BY <1>7, Zenon
  <2>3. c \in Channels /\ \A d \in Channels : index_[d] \in Int
    BY <1>1
  <2>4. /\ -1 <= index_[c] /\ index_[c] < Cardinality(Channels) /\ index_[c] \in Int
    BY <1>1, <2>3
  <2> HIDE DEF k, n
  <2>5. ASSUME NEW d \in Channels PROVE -1 <= index_'[d] /\ index_'[d] < Cardinality(Channels)
    <3>1. -1 <= index_[d] /\ index_[d] < Cardinality(Channels) /\ index_[d] \in Int
      BY <1>1, <2>3
    <3> QED
      BY <2>1, <2>2, <2>4, <3>1
  <2> QED
    BY <2>5
<1>11. ByPoll!PPTypeOK'
  <2>1. failed' \in BOOLEAN /\ channels_' \subseteq Channels
    BY <1>1, <1>6, Zenon
  <2> QED
    BY <1>1, <1>2, <1>7, <1>10, <2>1, PollTyped, Zenon
<1>12. Sized'
  <2>1. IsFiniteSet(channels_)
    BY <1>1, ChannelsAssumption, FS_Subset
  <2>2. Cardinality(channels_') = Cardinality(channels_) - 1
    <3>1. Cardinality(channels_ \ {c}) = Cardinality(channels_) - 1
      BY <1>2, <2>1, FS_RemoveElement, Zenon
    <3> QED
      BY <1>6, <3>1, Zenon
  <2>3. Cardinality(channels_) = n
    BY <1>0, Zenon DEF Sized
  <2> QED
    BY <1>6, <1>7, <2>2, <2>3, Zenon DEF Sized
<1>13. \A i \in 1 .. n - 1 : i \in 1 .. n
  BY <1>1
<1>15. UnknownIdle'
  BY <1>0, <1>2, <1>6, Zenon DEF UnknownIdle
<1>16. ASSUME NEW d \in channels_'
       PROVE  /\ index_'[d] + 1 \in 1 .. Len(pollfds_')
              /\ pollfds_'[index_'[d] + 1].fd = d
              /\ pollfds_'[index_'[d] + 1].events = events_'[d]
  <2>1. d \in channels_ /\ d \in Channels /\ d # c
    BY <1>1, <1>6, <1>16, Zenon
  <2>2. /\ index_[d] + 1 \in 1 .. n /\ pollfds_[index_[d] + 1].fd = d
        /\ pollfds_[index_[d] + 1].events = events_[d]
    BY <1>0, <2>1, PointsBack, Zenon
  <2>3. index_[d] \in Int /\ n = (n - 1) + 1
    BY <1>1, <2>1
  <2>4. CASE d = m
    <3>1. index_'[d] = index_[c]
      BY <1>7, <2>1, <2>4, Zenon
    <3>2. index_'[d] + 1 = k
      BY <3>1
    <3>3. index_[d] + 1 = n
      BY <1>9, <2>3, <2>4, Zenon
    <3>4. k # n
      BY <1>3, <2>1, <2>2, <3>3, Zenon
    <3>5. k \in 1 .. n - 1
      BY <1>1, <1>3, <3>4
    <3>6. pollfds_'[k] = pollfds_[n]
      BY <1>7, <3>5, Zenon
    <3> QED
      BY <1>2, <1>7, <2>2, <3>2, <3>3, <3>5, <3>6, Zenon
  <2>5. CASE d # m
    <3>1. index_'[d] = index_[d]
      BY <1>7, <2>1, <2>5, Zenon
    <3>2. index_[d] + 1 # n
      BY <2>2, <2>5, Zenon DEF m
    <3>3. index_[d] + 1 \in 1 .. n - 1
      BY <1>1, <2>2, <2>3, <3>2
    <3>4. index_[d] + 1 # k
      BY <1>3, <2>1, <2>2, Zenon
    <3>5. pollfds_'[index_[d] + 1] = pollfds_[index_[d] + 1]
      BY <1>7, <3>3, <3>4, Zenon
    <3> QED
      BY <1>2, <1>7, <2>2, <3>1, <3>3, <3>5, Zenon
  <2> QED
    BY <2>4, <2>5
<1>17. ASSUME NEW d \in Channels \ channels_' PROVE index_'[d] = -1
  <2>1. CASE d = c
    BY <1>7, <2>1, Zenon
  <2>2. CASE d # c
    <3>1. d \notin channels_ /\ d \in Channels
      BY <1>6, <1>17, <2>2, Zenon
    <3>2. index_[d] = -1
      BY <1>0, <3>1, Zenon DEF ByPoll!IndexPointsBack
    <3> QED
      BY <1>7, <1>9, <2>2, <3>1, <3>2, Zenon
  <2> QED
    BY <2>1, <2>2
<1>18. ASSUME NEW i \in 1 .. Len(pollfds_')
       PROVE  pollfds_'[i].fd \in channels_' /\ index_'[pollfds_'[i].fd] = i - 1
  <2>1. i \in 1 .. n - 1 /\ i \in 1 .. n
    BY <1>7, <1>13, <1>18, Zenon
  <2>2. CASE i = k
    <3>1. pollfds_'[i].fd = m
      BY <1>7, <2>1, <2>2, Zenon DEF m
    <3>2. index_[c] # n - 1 /\ index_[c] = i - 1
      BY <1>1, <1>3, <2>1, <2>2
    <3>3. m # c
      BY <1>9, <3>2, Zenon
    <3>4. index_'[m] = i - 1 /\ m \in channels_'
      BY <1>1, <1>6, <1>7, <1>9, <3>2, <3>3, Zenon
    <3> QED
      BY <3>1, <3>4
  <2>3. CASE i # k
    <3> DEFINE d == pollfds_[i].fd
    <3>1. d \in channels_ /\ index_[d] = i - 1
      BY <1>0, <2>1, PointsBack, Zenon
    <3>2. pollfds_'[i].fd = d
      BY <1>7, <2>1, <2>3, Zenon
    <3> HIDE DEF d
    <3>3. i - 1 # index_[c] /\ i - 1 # n - 1
      BY <1>1, <1>3, <2>1, <2>3
    <3>4. d # c /\ d # m
      BY <1>9, <3>1, <3>3, Zenon
    <3>5. index_'[d] = i - 1 /\ d \in channels_'
      BY <1>1, <1>6, <1>7, <3>1, <3>4, Zenon
    <3> QED
      BY <3>2, <3>5
  <2> QED
    BY <2>2, <2>3
<1>14. IdleIgnored' /\ fresh' \subseteq channels_'
  <2>1. ASSUME NEW i \in 1 .. Len(pollfds_'), pollfds_'[i].events = {}
        PROVE  pollfds_'[i].ignored \/ pollfds_'[i].fd \in fresh'
    <3>1. i \in 1 .. n - 1 /\ i \in 1 .. n
      BY <1>7, <1>13, Zenon
    <3>2. pollfds_'[i].ignored \/ pollfds_'[i].fd \in fresh
      BY <1>0, <1>7, <1>8, <2>1, <3>1, Zenon DEF IdleIgnored
    <3> QED
      BY <1>18, <3>2, Zenon
  <2> QED
    BY <2>1, Zenon DEF IdleIgnored
<1>19. channels_' \subseteq Channels
  BY <1>1, <1>6, Zenon
<1>20. ByPoll!IndexPointsBack'
  BY <1>7, <1>8, <1>16, <1>17, <1>18, <1>19, PointedBack, Zenon
<1>21. ASSUME NEW d \in Channels, d # c PROVE Deaf(d)' <=> Deaf(d)
  <2>1. CASE d \notin channels_
    BY <1>6, <2>1, Zenon DEF Deaf
  <2>2. CASE d \in channels_
    <3>1. /\ index_[d] + 1 \in 1 .. n /\ pollfds_[index_[d] + 1].fd = d
          /\ d \in channels_' /\ index_'[d] = IF d = m THEN index_[c] ELSE index_[d]
      BY <1>0, <1>6, <1>7, <1>21, <2>2, PointsBack, Zenon
    <3>2. index_[d] \in Int /\ n = (n - 1) + 1
      BY <1>1
    <3>3. CASE d = m
      <4>1. index_[d] + 1 = n /\ index_'[d] + 1 = k
        BY <1>9, <3>1, <3>2, <3>3, Zenon
      <4>2. k # n
        BY <1>3, <1>21, <3>1, <4>1, Zenon
      <4>3. k \in 1 .. n - 1
        BY <1>1, <1>3, <4>2
      <4>4. pollfds_'[k] = pollfds_[n]
        BY <1>7, <4>3, Zenon
      <4>5. Deaf(d) <=> pollfds_[n].ignored
        BY <2>2, <4>1, Zenon DEF Deaf
      <4>6. Deaf(d)' <=> pollfds_'[k].ignored
        BY <3>1, <4>1, Zenon DEF Deaf
      <4> QED
        BY <4>4, <4>5, <4>6, Zenon
    <3>4. CASE d # m
      <4>1. index_[d] + 1 # n /\ index_[d] + 1 # k
        BY <1>3, <1>21, <3>1, <3>4, Zenon DEF m
      <4>2. index_[d] + 1 \in 1 .. n - 1
        BY <1>1, <3>1, <3>2, <4>1
      <4> QED
        BY <1>7, <2>2, <3>1, <3>4, <4>1, <4>2, Zenon DEF Deaf
    <3> QED
      BY <3>3, <3>4
  <2> QED
    BY <2>1, <2>2
<1>22. ~Deaf(c)'
  BY <1>6, Zenon DEF Deaf
<1> QED
  BY <1>6, <1>11, <1>12, <1>14, <1>15, <1>20, <1>21, <1>22, Zenon DEF PollInv

(* Channel::remove() of any other channel fails an assert(), and such a    *)
(* channel was only ever disabled.                                         *)
LEMMA RemoveFails ==
  ASSUME PollInv, NEW c \in Channels, ByPoll!ChannelRemove(c), ~Deaf(c)
  PROVE  /\ c \in fresh /\ failed' = TRUE
         /\ UNCHANGED <<events_, index_, channels_, pollfds_, ready, activeChannels>>
<1>0. ByPoll!PPTypeOK /\ ByPoll!IndexPointsBack /\ IdleIgnored
  BY PollFacts, Zenon
<1>1. c \in channels_ /\ events_[c] = {} /\ events_' = events_
      /\ ready' = ready /\ activeChannels' = activeChannels
  BY Zenon DEF ByPoll!ChannelRemove
<1>2. /\ index_[c] + 1 \in 1 .. Len(pollfds_) /\ pollfds_[index_[c] + 1].fd = c
      /\ pollfds_[index_[c] + 1].events = {}
  BY <1>0, <1>1, PointsBack, Zenon
<1>3. ~pollfds_[index_[c] + 1].ignored
  BY <1>1, Zenon DEF Deaf
<1>4. c \in fresh
  BY <1>0, <1>2, <1>3, Zenon DEF IdleIgnored
<1>5. failed' = TRUE /\ UNCHANGED <<index_, channels_, pollfds_>>
  BY <1>3, Zenon DEF ByPoll!ChannelRemove, ByPoll!Asserting, ByPoll!Entry
<1> QED
  BY <1>1, <1>4, <1>5

(* What PollPoller watches: the events a channel asked for unless its      *)
(* entry is ignored.                                                       *)
LEMMA PollWatches ==
  ASSUME usePoll, events_ \in [Channels -> EventSets]
  PROVE  /\ Watched = [c \in Channels |-> IF Deaf(c) THEN {} ELSE events_[c]]
         /\ \A c \in Channels : Watched[c] = IF Deaf(c) THEN {} ELSE events_[c]
BY Zenon DEF Watched, Deaf, ByPoll!Entry

(* EPollPoller watches what the channels asked for. *)
LEMMA EPollWatches ==
  ASSUME ~usePoll, events_ \in [Channels -> EventSets]
  PROVE  Watched = events_
<1>1. Watched = [c \in Channels |-> events_[c]]
  BY Zenon DEF Watched
<1> QED
  BY <1>1

(* poll() reports the channels whose entries are not ignored and that have *)
(* an event: those that are due, and hang-ups of channels that watch       *)
(* nothing but were never disabled.                                        *)
LEMMA PollReports ==
  ASSUME usePoll, PollInv
  PROVE  /\ ByPoll!Reported \subseteq channels_
         /\ \A c \in ByPoll!Reported : Promised!Reportable(c)
         /\ \A c \in Channels : Promised!Due(c) => c \in ByPoll!Reported
<1>0. ByPoll!PPTypeOK /\ ByPoll!IndexPointsBack /\ UnknownIdle
  BY PollFacts, Zenon
<1>w. /\ channels_ \subseteq Channels
      /\ \A c \in Channels : Watched[c] = IF Deaf(c) THEN {} ELSE events_[c]
  BY <1>0, PollTypes, PollWatches, Zenon
<1> DEFINE Told(i) == /\ ~pollfds_[i].ignored
                      /\ ready[pollfds_[i].fd] \cap (pollfds_[i].events \cup {"hup"}) # {}
<1>1. \A c : c \in ByPoll!Reported <=> \E i \in 1 .. Len(pollfds_) : Told(i) /\ pollfds_[i].fd = c
  <2> DEFINE Places == {j \in 1 .. Len(pollfds_) : Told(j)}
             Lit == {pollfds_[i] : i \in Places}
  <2>1. ByPoll!Reported = {e.fd : e \in Lit}
    BY DEF ByPoll!Reported
  <2>2. \A e : e \in Lit <=> \E i \in Places : e = pollfds_[i]
    BY Zenon
  <2>3. \A i : i \in Places <=> i \in 1 .. Len(pollfds_) /\ Told(i)
    BY Zenon
  <2> HIDE DEF Lit, Places, Told
  <2>4. \A c : c \in ByPoll!Reported <=> \E e \in Lit : c = e.fd
    BY <2>1, Zenon
  <2>5. ASSUME NEW c, c \in ByPoll!Reported
        PROVE  \E i \in 1 .. Len(pollfds_) : Told(i) /\ pollfds_[i].fd = c
    <3>1. PICK e \in Lit : c = e.fd
      BY <2>4, <2>5, Zenon
    <3>2. PICK i \in Places : e = pollfds_[i]
      BY <2>2, Zenon
    <3>3. pollfds_[i].fd = c
      BY <3>1, <3>2
    <3> QED
      BY <2>3, <3>3, Zenon
  <2>6. ASSUME NEW i \in 1 .. Len(pollfds_), Told(i) PROVE pollfds_[i].fd \in ByPoll!Reported
    BY <2>2, <2>3, <2>4, <2>6, Zenon
  <2> QED
    BY <2>5, <2>6
<1>2. ASSUME NEW i \in 1 .. Len(pollfds_), Told(i)
      PROVE  pollfds_[i].fd \in channels_ /\ Promised!Reportable(pollfds_[i].fd)
  <2> DEFINE c == pollfds_[i].fd
  <2>1. c \in channels_ /\ index_[c] = i - 1
    BY <1>0, PointsBack, Zenon
  <2>2. i = index_[c] + 1
    BY <2>1
  <2>3. pollfds_[i].events = events_[c]
    BY <1>0, <2>1, <2>2, PointsBack, Zenon
  <2>4. Watched[c] = events_[c]
    BY <1>2, <1>w, <2>1, <2>2, Zenon DEF Deaf
  <2>5. CASE events_[c] # {}
    <3>1. ready[c] \cap (Watched[c] \cup {"hup"}) # {}
      BY <1>2, <2>3, <2>4, Zenon
    <3> QED
      BY <2>1, <2>4, <2>5, <3>1, Zenon DEF Promised!Due, Promised!Reportable
  <2>6. CASE events_[c] = {}
    <3>1. ready[c] \cap {"hup"} # {}
      BY <1>2, <2>3, <2>6
    <3> QED
      BY <2>1, <3>1, Zenon DEF Promised!Reportable
  <2> QED
    BY <2>1, <2>5, <2>6
<1>3. ASSUME NEW c \in Channels, Promised!Due(c) PROVE c \in ByPoll!Reported
  <2>1. Watched[c] # {} /\ ready[c] \cap (Watched[c] \cup {"hup"}) # {}
    BY <1>3, Zenon DEF Promised!Due
  <2>2. ~Deaf(c) /\ Watched[c] = events_[c]
    BY <1>w, <2>1, Zenon
  <2>3. c \in channels_
    BY <1>0, <2>1, <2>2, Zenon DEF UnknownIdle
  <2>4. /\ index_[c] + 1 \in 1 .. Len(pollfds_) /\ pollfds_[index_[c] + 1].fd = c
        /\ pollfds_[index_[c] + 1].events = events_[c]
    BY <1>0, <2>3, PointsBack, Zenon
  <2>5. Told(index_[c] + 1)
    BY <2>1, <2>2, <2>3, <2>4, Zenon DEF Deaf
  <2> QED
    BY <1>1, <2>4, <2>5, Zenon
<1> HIDE DEF Told
<1>4. ASSUME NEW c \in ByPoll!Reported PROVE c \in channels_ /\ Promised!Reportable(c)
  <2>1. PICK i \in 1 .. Len(pollfds_) : Told(i) /\ pollfds_[i].fd = c
    BY <1>1
  <2> QED
    BY <1>2, <2>1
<1> QED
  BY <1>3, <1>4, Zenon

(* Channel::enableReading() and its siblings: no assert() fails, and       *)
(* PollPoller watches what was asked for unless the entry is ignored.      *)
LEMMA PollUpdates ==
  ASSUME usePoll, usePoll' = usePoll, PollInv, NEW c \in Channels, PollUpdate(c)
  PROVE  PollInv' /\ failed' = FALSE /\ Promised!PUpdate(c)
<1>0. ByPoll!PPTypeOK
  BY PollFacts, Zenon
<1>1. events_ \in [Channels -> EventSets]
  BY <1>0, PollTypes, Zenon
<1>2. PICK ev \in ByPoll!Promise!Requests(c, events_[c]) :
         /\ events_' = [events_ EXCEPT ![c] = ev]
         /\ ByPoll!UpdateNew(c, ev) \/ ByPoll!UpdateExisting(c, ev)
  BY Zenon DEF PollUpdate, ByPoll!ChannelUpdate
<1>3. events_[c] \in EventSets
  BY <1>1
<1>4. ev \in Promise!Requests(c, events_[c]) /\ ev \in EventSets
  <2>1. ev \in Promise!Requests(c, events_[c])
    BY <1>3, PollRequests, Zenon
  <2> QED
    BY <1>3, <2>1, RequestsAreEvents, Zenon
<1>5. UNCHANGED <<ready, activeChannels>>
  BY DEF PollUpdate, ByPoll!ChannelUpdate
<1>6. /\ events_' \in [Channels -> EventSets] /\ events_'[c] = ev
      /\ \A d \in Channels : d # c => events_'[d] = events_[d]
  BY <1>1, <1>2, <1>4
<1>7. fresh' = IF c \notin channels_ /\ ev = {} THEN fresh \cup {c} ELSE fresh \ {c}
  BY <1>6, Zenon DEF PollUpdate
<1>8. /\ \A d \in Channels : Watched[d] = IF Deaf(d) THEN {} ELSE events_[d]
      /\ \A d \in Channels : Watched'[d] = IF Deaf(d)' THEN {} ELSE events_'[d]
      /\ Watched \in [Channels -> EventSets] /\ Watched' \in [Channels -> EventSets]
  <2>1. /\ Watched = [d \in Channels |-> IF Deaf(d) THEN {} ELSE events_[d]]
        /\ Watched' = [d \in Channels |-> IF Deaf(d)' THEN {} ELSE events_'[d]]
    BY <1>1, <1>6, Zenon DEF Watched, Deaf, ByPoll!Entry
  <2>2. {} \in EventSets
    BY DEF EventSets
  <2> QED
    BY <1>1, <1>6, <2>1, <2>2
<1>9. Promised!Requests(c, Watched[c]) = Promise!Requests(c, Watched[c])
  BY DEF Promised!Requests, Promised!EnableReading, Promised!EnableWriting,
         Promised!DisableWriting, Promised!DisableAll,
         Promise!Requests, Promise!EnableReading, Promise!EnableWriting,
         Promise!DisableWriting, Promise!DisableAll
<1>10. ASSUME NEW w \in Promise!Requests(c, Watched[c]), Watched'[c] = w,
              \A d \in Channels : d # c => (Deaf(d)' <=> Deaf(d)),
              channels_' = channels_ \cup {c}
       PROVE  Promised!PUpdate(c)
  <2>1. \A d \in Channels : d # c => Watched'[d] = Watched[d]
    BY <1>6, <1>8, <1>10, Zenon
  <2>2. Watched' = [Watched EXCEPT ![c] = w]
    BY <1>8, <1>10, <2>1
  <2> QED
    BY <1>5, <1>9, <1>10, <2>2, Zenon DEF Promised!PUpdate
<1>11. CASE ByPoll!UpdateNew(c, ev)
  <2>1. /\ PollInv' /\ c \notin channels_ /\ channels_' = channels_ \cup {c} /\ failed' = FALSE
        /\ ~Deaf(c)' /\ \A d \in Channels : d # c => (Deaf(d)' <=> Deaf(d))
    BY <1>2, <1>4, <1>5, <1>7, <1>11, UpdateNewKeeps, Zenon
  <2>2. Watched[c] = events_[c] /\ Watched'[c] = ev
    BY <1>6, <1>8, <2>1, Zenon DEF Deaf
  <2> QED
    BY <1>4, <1>10, <2>1, <2>2, Zenon
<1>12. CASE ByPoll!UpdateExisting(c, ev)
  <2>1. /\ PollInv' /\ c \in channels_ /\ channels_' = channels_ /\ failed' = FALSE
        /\ Deaf(c)' <=> Deaf(c) \/ ev = {}
        /\ \A d \in Channels : d # c => (Deaf(d)' <=> Deaf(d))
    BY <1>2, <1>4, <1>5, <1>7, <1>12, UpdateExistingKeeps, Zenon
  <2>2. channels_' = channels_ \cup {c}
    BY <2>1
  <2>3. CASE Deaf(c)
    <3>1. Watched'[c] = {}
      BY <1>8, <2>1, <2>3, Zenon
    <3>2. {} \in Promise!Requests(c, Watched[c])
      BY DEF Promise!Requests, Promise!DisableAll
    <3> QED
      BY <1>10, <2>1, <2>2, <3>1, <3>2, Zenon
  <2>4. CASE ~Deaf(c)
    <3>1. Watched[c] = events_[c] /\ Watched'[c] = ev
      BY <1>6, <1>8, <2>1, <2>4, Zenon
    <3> QED
      BY <1>4, <1>10, <2>1, <2>2, <3>1, Zenon
  <2> QED
    BY <2>3, <2>4, Zenon
<1> QED
  BY <1>2, <1>11, <1>12, Zenon

(* A step that changes only ready, activeChannels and failed. *)
LEMMA KernelKeeps ==
  ASSUME PollInv, UNCHANGED <<events_, index_, channels_, pollfds_, fresh>>, failed' \in BOOLEAN,
         ready' \in [Channels -> ReadySets], activeChannels' \subseteq Channels
  PROVE  PollInv' /\ (usePoll' = usePoll => Watched' = Watched)
<1>0. /\ ByPoll!PPTypeOK /\ ByPoll!IndexPointsBack /\ Sized /\ IdleIgnored /\ UnknownIdle
      /\ fresh \subseteq channels_
  BY PollFacts, Zenon
<1>1. /\ events_' = events_ /\ index_' = index_ /\ channels_' = channels_ /\ pollfds_' = pollfds_
      /\ fresh' = fresh
  OBVIOUS
<1>2. ByPoll!PPTypeOK'
  <2>1. /\ events_ \in [Channels -> EventSets] /\ index_ \in [Channels -> Int]
        /\ \A c \in Channels : -1 <= index_[c] /\ index_[c] < Cardinality(Channels)
        /\ channels_ \subseteq Channels /\ pollfds_ \in Seq(ByPoll!Entries)
    BY <1>0, PollTypes, Zenon
  <2> QED
    BY <1>1, <2>1, PollTyped, Zenon
<1>3. ByPoll!IndexPointsBack'
  BY <1>0, <1>1 DEF ByPoll!IndexPointsBack, ByPoll!InBounds, ByPoll!Entry
<1>4. Sized' /\ IdleIgnored' /\ UnknownIdle' /\ fresh' \subseteq channels_'
  BY <1>0, <1>1, Zenon DEF Sized, IdleIgnored, UnknownIdle
<1>5. usePoll' = usePoll => Watched' = Watched
  BY <1>1 DEF Watched, ByPoll!Entry
<1> QED
  BY <1>2, <1>3, <1>4, <1>5, Zenon DEF PollInv

(* Only the removal of a channel that was never watched fails an assert(). *)
FailsFresh == ~failed /\ failed' => \E c \in fresh : ByPoll!ChannelRemove(c)

(* Every step of PollPoller keeps its invariant, is a step of Poller or    *)
(* leaves it unchanged, and fails an assert() in one case only.            *)
LEMMA PollInvStep ==
  ASSUME PollInv, PollStep
  PROVE  PollInv' /\ [Promised!PNext]_(Promised!pvars) /\ FailsFresh
<1>0. ByPoll!PPTypeOK /\ usePoll /\ usePoll' = usePoll
  BY PollFacts DEF PollStep
<1>1. /\ channels_ \subseteq Channels /\ activeChannels \subseteq Channels
      /\ ready \in [Channels -> ReadySets] /\ failed \in BOOLEAN
      /\ events_ \in [Channels -> EventSets]
  BY <1>0, PollTypes, Zenon
<1>2. ASSUME NEW c \in Channels, PollUpdate(c)
      PROVE  PollInv' /\ Promised!PNext /\ FailsFresh
  BY <1>0, <1>2, PollUpdates, Zenon DEF Promised!PNext, FailsFresh
<1>3. ASSUME NEW c \in Channels, PollRemove(c)
      PROVE  PollInv' /\ [Promised!PNext]_(Promised!pvars) /\ FailsFresh
  <2>1. ByPoll!ChannelRemove(c) /\ fresh' = fresh \cap channels_'
    BY <1>3, Zenon DEF PollRemove
  <2>2. /\ c \in channels_ /\ events_[c] = {} /\ events_' = events_
        /\ ready' = ready /\ activeChannels' = activeChannels
    BY <2>1, Zenon DEF ByPoll!ChannelRemove
  <2>3. CASE Deaf(c)
    <3>1. /\ PollInv' /\ channels_' = channels_ \ {c} /\ failed' = FALSE
          /\ ~Deaf(c)' /\ \A d \in Channels : d # c => (Deaf(d)' <=> Deaf(d))
      BY <2>1, <2>3, RemoveKeeps, Zenon
    <3>2. /\ Watched = [d \in Channels |-> IF Deaf(d) THEN {} ELSE events_[d]]
          /\ Watched' = [d \in Channels |-> IF Deaf(d)' THEN {} ELSE events_[d]]
      BY <1>0, <2>2, Zenon DEF Watched, Deaf, ByPoll!Entry
    <3>3. \A d \in Channels : (IF Deaf(d) THEN {} ELSE events_[d]) = IF Deaf(d)' THEN {} ELSE events_[d]
      BY <2>2, <2>3, <3>1, Zenon
    <3>4. Watched' = Watched
      BY <3>2, <3>3, Zenon
    <3>5. Watched[c] = {}
      BY <2>3, <3>2, Zenon
    <3>6. Promised!PRemove(c)
      BY <2>2, <3>1, <3>4, <3>5, Zenon DEF Promised!PRemove
    <3> QED
      BY <3>1, <3>6, Zenon DEF Promised!PNext, FailsFresh
  <2>4. CASE ~Deaf(c)
    <3>1. /\ c \in fresh /\ failed' = TRUE
          /\ UNCHANGED <<events_, index_, channels_, pollfds_, ready, activeChannels>>
      BY <2>1, <2>4, RemoveFails, Zenon
    <3>2. fresh' = fresh
      BY <2>1, <3>1, PollFacts
    <3>3. PollInv' /\ Watched' = Watched
      BY <1>0, <1>1, <3>1, <3>2, KernelKeeps
    <3>4. UNCHANGED Promised!pvars
      BY <3>1, <3>3 DEF Promised!pvars
    <3>5. FailsFresh
      BY <2>1, <3>1, Zenon DEF FailsFresh
    <3> QED
      BY <3>3, <3>4, <3>5
  <2> QED
    BY <2>3, <2>4
<1>4. ASSUME ByPoll!Poll, fresh' = fresh PROVE PollInv' /\ Promised!PNext /\ FailsFresh
  <2>1. /\ activeChannels' = ByPoll!Reported /\ failed' = ~(ByPoll!Reported \subseteq channels_)
        /\ UNCHANGED <<events_, index_, channels_, pollfds_, ready>>
    BY <1>4, Zenon DEF ByPoll!Poll
  <2>2. /\ ByPoll!Reported \subseteq channels_ /\ \A c \in ByPoll!Reported : Promised!Reportable(c)
        /\ \A c \in Channels : Promised!Due(c) => c \in ByPoll!Reported
    BY <1>0, PollReports, Zenon
  <2>3. failed' = FALSE
    BY <2>1, <2>2, Zenon
  <2>4. activeChannels' \subseteq Channels
    BY <1>1, <2>1, <2>2, Zenon
  <2>5. PollInv' /\ Watched' = Watched
    BY <1>0, <1>1, <1>4, <2>1, <2>3, <2>4, KernelKeeps
  <2>6. Promised!PPoll
    <3>1. activeChannels' \in SUBSET {c \in Channels : Promised!Reportable(c)}
      BY <2>1, <2>2, <2>4, Zenon
    <3>2. (\E c \in Channels : Promised!Due(c)) => activeChannels' # {}
      BY <2>1, <2>2, Zenon
    <3> QED
      BY <2>1, <2>5, <3>1, <3>2, Zenon DEF Promised!PPoll
  <2> QED
    BY <2>3, <2>5, <2>6, Zenon DEF Promised!PNext, FailsFresh
<1>5. ASSUME NEW c \in Channels, ByPoll!FdChange(c), fresh' = fresh
      PROVE  PollInv' /\ Promised!PNext /\ FailsFresh
  <2>1. PICK r \in ByPoll!Promise!Kinds(c) : ready' = [ready EXCEPT ![c] = r]
    BY <1>5, Zenon DEF ByPoll!FdChange
  <2>2. /\ UNCHANGED <<events_, index_, channels_, pollfds_, activeChannels, failed>>
    BY <1>5 DEF ByPoll!FdChange
  <2>3. r \in ReadySets /\ r \in Promised!Kinds(c)
    BY DEF ByPoll!Promise!Kinds, Promised!Kinds, ReadySets
  <2>4. ready' \in [Channels -> ReadySets]
    BY <1>1, <2>1, <2>3
  <2>5. PollInv' /\ Watched' = Watched
    BY <1>0, <1>1, <1>5, <2>2, <2>4, KernelKeeps
  <2>6. Promised!PReady(c)
    BY <2>1, <2>2, <2>3, <2>5, Zenon DEF Promised!PReady
  <2>7. FailsFresh
    BY <2>2, Zenon DEF FailsFresh
  <2> QED
    BY <2>5, <2>6, <2>7, Zenon DEF Promised!PNext
<1> QED
  BY <1>2, <1>3, <1>4, <1>5 DEF PollStep, PollKernel

-----------------------------------------------------------------------------
(* Whichever poller Poller::newDefaultPoller() chose, its own invariant    *)
(* holds.                                                                  *)
DPInv == usePoll \in BOOLEAN /\ (usePoll => PollInv) /\ (~usePoll => EPInv /\ fresh = {})

(* AssertsHold, of one step. *)
FailsOnlyFresh == ~failed /\ failed' => usePoll /\ \E c \in fresh : ByPoll!ChannelRemove(c)

LEMMA DPInvInit == NewDefaultPoller => DPInv /\ Promised!PInit
<1> SUFFICES ASSUME NewDefaultPoller PROVE DPInv /\ Promised!PInit
  OBVIOUS
<1>1. /\ events_ = [c \in Channels |-> {}] /\ channels_ = {} /\ fresh = {}
      /\ ready = [c \in Channels |-> {}] /\ activeChannels = {}
  BY Zenon DEF NewDefaultPoller, EPInit, ByPoll!PPInit
<1>2. Watched = [c \in Channels |-> {}]
  BY <1>1 DEF Watched
<1>3. DPInv
  BY <1>1, PollInvInit, EPInvInit, Zenon DEF DPInv, NewDefaultPoller
<1> QED
  BY <1>1, <1>2, <1>3, Zenon DEF Promised!PInit

(* A step of Poller over events_ is one over Watched if the two agree. *)
LEMMA SamePromise ==
  ASSUME Watched = events_, Watched' = events_', [Promise!PNext]_(Promise!pvars)
  PROVE  [Promised!PNext]_(Promised!pvars)
<1>1. CASE UNCHANGED Promise!pvars
  BY <1>1 DEF Promise!pvars, Promised!pvars
<1>2. \A c : Promise!Due(c) <=> Promised!Due(c)
  BY DEF Promise!Due, Promised!Due
<1>3. CASE Promise!PPoll
  <2>1. \A c : Promise!Reportable(c) <=> Promised!Reportable(c)
    BY <1>2, Zenon DEF Promise!Reportable, Promised!Reportable
  <2>2. UNCHANGED <<Watched, channels_, ready>>
    BY <1>3 DEF Promise!PPoll
  <2>3. Promised!PPoll
    BY <1>2, <1>3, <2>1, <2>2, Zenon DEF Promise!PPoll, Promised!PPoll
  <2> QED
    BY <2>3, Zenon DEF Promised!PNext
<1>4. ASSUME NEW c \in Channels, Promise!PUpdate(c) \/ Promise!PRemove(c) \/ Promise!PReady(c)
      PROVE  Promised!PUpdate(c) \/ Promised!PRemove(c) \/ Promised!PReady(c)
  <2>1. Promised!Requests(c, events_[c]) = Promise!Requests(c, events_[c])
    BY DEF Promised!Requests, Promised!EnableReading, Promised!EnableWriting,
           Promised!DisableWriting, Promised!DisableAll,
           Promise!Requests, Promise!EnableReading, Promise!EnableWriting,
           Promise!DisableWriting, Promise!DisableAll
  <2>2. Promised!Kinds(c) = Promise!Kinds(c)
    BY DEF Promised!Kinds, Promise!Kinds
  <2>3. CASE Promise!PUpdate(c)
    BY <2>1, <2>3 DEF Promise!PUpdate, Promised!PUpdate
  <2>4. CASE Promise!PRemove(c)
    BY <2>4 DEF Promise!PRemove, Promised!PRemove
  <2>5. CASE Promise!PReady(c)
    BY <2>2, <2>5 DEF Promise!PReady, Promised!PReady
  <2> QED
    BY <1>4, <2>3, <2>4, <2>5
<1> QED
  BY <1>1, <1>3, <1>4 DEF Promise!PNext, Promised!PNext

LEMMA DPInvStep ==
  DPInv /\ [EPollStep \/ PollStep]_dpvars
    => DPInv' /\ [Promised!PNext]_(Promised!pvars) /\ (FailsOnlyFresh \/ UNCHANGED dpvars)
<1> SUFFICES ASSUME DPInv, [EPollStep \/ PollStep]_dpvars
             PROVE  /\ DPInv' /\ [Promised!PNext]_(Promised!pvars)
                    /\ FailsOnlyFresh \/ UNCHANGED dpvars
  OBVIOUS
<1>1. CASE EPollStep
  <2>1. ~usePoll /\ EPNext /\ usePoll' = usePoll /\ fresh' = fresh /\ EPInv /\ fresh = {}
    BY <1>1, Zenon DEF EPollStep, DPInv
  <2>2. EPInv' /\ [Promise!PNext]_(Promise!pvars)
    BY <2>1, EPInvStep, EPStepRefined
  <2>3. Watched = events_ /\ Watched' = events_'
    <3>1. Watched = [c \in Channels |-> events_[c]] /\ Watched' = [c \in Channels |-> events_'[c]]
      BY <2>1, Zenon DEF Watched
    <3>2. events_ \in [Channels -> EventSets] /\ events_' \in [Channels -> EventSets]
      BY <2>1, <2>2 DEF EPInv, EPTypeOK
    <3> QED
      BY <3>1, <3>2
  <2>4. [Promised!PNext]_(Promised!pvars)
    BY <2>2, <2>3, SamePromise
  <2>5. FailsOnlyFresh
    BY <2>2, Zenon DEF EPInv, NeverFails, FailsOnlyFresh
  <2> QED
    BY <2>1, <2>2, <2>4, <2>5, Zenon DEF DPInv
<1>2. CASE PollStep
  <2>1. usePoll /\ usePoll' = usePoll /\ PollInv
    BY <1>2, Zenon DEF PollStep, DPInv
  <2>2. PollInv' /\ [Promised!PNext]_(Promised!pvars) /\ FailsFresh
    BY <1>2, <2>1, PollInvStep
  <2>3. FailsOnlyFresh
    BY <2>1, <2>2, Zenon DEF FailsFresh, FailsOnlyFresh
  <2>4. DPInv'
    BY <2>1, <2>2, Zenon DEF DPInv
  <2> QED
    BY <2>2, <2>3, <2>4
<1>3. CASE UNCHANGED dpvars
  <2>1. UNCHANGED epvars /\ usePoll' = usePoll /\ pollfds_' = pollfds_ /\ fresh' = fresh
    BY <1>3 DEF dpvars
  <2>2. /\ UNCHANGED <<events_, index_, channels_, pollfds_, fresh>>
        /\ ready' = ready /\ activeChannels' = activeChannels /\ failed' = failed
    BY <2>1 DEF epvars
  <2>3. ASSUME PollInv PROVE PollInv'
    <3>1. /\ ready \in [Channels -> ReadySets] /\ activeChannels \subseteq Channels
          /\ failed \in BOOLEAN
      BY <2>3, PollTypes, PollFacts, Zenon
    <3> QED
      BY <2>2, <2>3, <3>1, KernelKeeps
  <2>4. ASSUME EPInv PROVE EPInv'
    BY <2>1, <2>4, EPInvStep
  <2>5. Watched' = Watched
    BY <2>1, <2>2 DEF Watched, ByPoll!Entry
  <2>6. UNCHANGED Promised!pvars
    BY <2>2, <2>5 DEF Promised!pvars
  <2>7. DPInv'
    BY <2>1, <2>3, <2>4, Zenon DEF DPInv
  <2> QED
    BY <1>3, <2>6, <2>7
<1> QED
  BY <1>1, <1>2, <1>3

LEMMA DPInvariant == DPSpec => []DPInv
<1>1. NewDefaultPoller => DPInv
  BY DPInvInit
<1>2. DPInv /\ [EPollStep \/ PollStep]_dpvars => DPInv'
  BY DPInvStep
<1> QED
  BY <1>1, <1>2, PTL DEF DPSpec

(* index_ always leads updateChannel() and removeChannel() to the place of *)
(* the channel, in the epoll tree or in pollfds_, for any number of        *)
(* channels: also after PollPoller::removeChannel() moved the last entry.  *)
THEOREM IndexLeadsBack == DPSpec => []IndexFollows
<1>1. DPInv => IndexFollows
  BY Zenon DEF DPInv, IndexFollows, DPTypeOK, EPollIndex, PollIndex, PollInv, EPInv
<1> QED
  BY <1>1, DPInvariant, PTL

(* Of either poller, driven in any order, only one assert() can fail: that *)
(* on the negated descriptor in PollPoller::removeChannel(), of a channel  *)
(* that was disabled before it ever watched anything.                      *)
THEOREM PollersFailOnlyFresh == DPSpec => AssertsHold
<1>1. /\ DPInv /\ [EPollStep \/ PollStep]_dpvars
         => [~failed /\ failed' => usePoll /\ \E c \in fresh : ByPoll!ChannelRemove(c)]_dpvars
  BY DPInvStep DEF FailsOnlyFresh
<1> QED
  BY <1>1, DPInvariant, PTL DEF DPSpec, AssertsHold

(* Both pollers, driven in any order, implement Poller over what they      *)
(* watch: only registered channels are reported, and a poll() that reports *)
(* nothing overlooked no channel that was due.                             *)
THEOREM PollersImplementPoller == DPSpec => ImplementsPoller
<1>1. NewDefaultPoller => Promised!PInit
  BY DPInvInit
<1>2. DPInv /\ [EPollStep \/ PollStep]_dpvars => [Promised!PNext]_(Promised!pvars)
  BY DPInvStep
<1> QED
  BY <1>1, <1>2, DPInvariant, PTL DEF DPSpec, ImplementsPoller, Promised!PSpec
=============================================================================
