---------------------------- MODULE EPollPoller -----------------------------
(***************************************************************************)
(* muduo/net/poller/EPollPoller.cc with the part of Channel it works on.   *)
(* The interest list of the kernel is epollfd_: what epoll_ctl() did to    *)
(* each fd.                                                                *)
(***************************************************************************)
EXTENDS PollerBase

kNew == -1
kAdded == 1
kDeleted == 2

VARIABLES events_, index_,   \* of each Channel
          channels_,         \* fd -> Channel, or NULL
          epollfd_,          \* fd -> what is registered, or NULL
          listSize,          \* events_.size() of the poller
          ready, activeChannels

vars == <<events_, index_, channels_, epollfd_, listSize, ready, activeChannels>>

Init ==
  /\ events_ = [c \in Channel |-> {}] /\ index_ = [c \in Channel |-> kNew]
  /\ channels_ = [f \in Fd |-> NULL] /\ epollfd_ = [f \in Fd |-> NULL]
  /\ listSize = kInitEventListSize
  /\ ready = [f \in Fd |-> {}] /\ activeChannels = [c \in {} |-> {}]

\* EPOLL_CTL_ADD and EPOLL_CTL_MOD, of a channel with these events.
ctlSet(c, ev) == epollfd_' = [epollfd_ EXCEPT ![fd(c)] = [ptr |-> c, events |-> ev]]
ctlDel(c) == epollfd_' = [epollfd_ EXCEPT ![fd(c)] = NULL]

\* A channel that is new, or that was deleted, is added.
UpdateAdd(c, ev) ==
  /\ index_[c] \in {kNew, kDeleted}
  /\ channels_' = [channels_ EXCEPT ![fd(c)] = c]
  /\ index_' = [index_ EXCEPT ![c] = kAdded]
  /\ ctlSet(c, ev)

UpdateDel(c, ev) ==
  /\ index_[c] = kAdded /\ ev = {}
  /\ ctlDel(c)
  /\ index_' = [index_ EXCEPT ![c] = kDeleted]
  /\ UNCHANGED channels_

UpdateMod(c, ev) ==
  /\ index_[c] = kAdded /\ ev # {}
  /\ ctlSet(c, ev)
  /\ UNCHANGED <<index_, channels_>>

\* Channel::enableReading() and the like, update(), updateChannel().  The
\* system gives an fd to one channel at a time.
updateChannel(c, ev) ==
  /\ channels_[fd(c)] \in {NULL, c}
  /\ events_' = [events_ EXCEPT ![c] = ev]
  /\ UpdateAdd(c, ev) \/ UpdateDel(c, ev) \/ UpdateMod(c, ev)
  /\ UNCHANGED <<listSize, ready, activeChannels>>

RemovedFromKernel(c) == IF index_[c] = kAdded THEN ctlDel(c) ELSE UNCHANGED epollfd_

\* Channel::remove() and removeChannel(), whose asserts are the guard.
removeChannel(c) ==
  /\ channels_[fd(c)] = c /\ events_[c] = {}
  /\ channels_' = [channels_ EXCEPT ![fd(c)] = NULL]
  /\ RemovedFromKernel(c)
  /\ index_' = [index_ EXCEPT ![c] = kNew]
  /\ UNCHANGED <<events_, listSize, ready, activeChannels>>

\* What epoll_wait() finds of an fd.
Found(f) ==
  IF epollfd_[f] = NULL THEN {} ELSE ready[f] \cap (epollfd_[f].events \cup Unasked)

\* Slip: the list stays as it is.
GrownNever(numEvents) == listSize

\* events_.resize(events_.size()*2), when the list was full.
Grown(numEvents) == IF numEvents = listSize THEN listSize * 2 ELSE listSize

\* poll() and fillActiveChannels(): as many of the ready fds as the list has
\* room for.
poll ==
  LET found == {f \in Fd : Found(f) # {}} IN
  \E reported \in SUBSET found :
    /\ reported = found \/ Cardinality(reported) = listSize
    /\ Cardinality(reported) <= listSize
    /\ activeChannels' = [c \in {epollfd_[f].ptr : f \in reported} |-> Found(fd(c))]
    /\ listSize' = IF reported = {} THEN listSize ELSE Grown(Cardinality(reported))
  /\ UNCHANGED <<events_, index_, channels_, epollfd_, ready>>

\* The condition of an fd changes.
IoChange(f, conditions) ==
  /\ ready' = [ready EXCEPT ![f] = conditions]
  /\ UNCHANGED <<events_, index_, channels_, epollfd_, listSize, activeChannels>>

Next ==
  \/ \E c \in Channel : removeChannel(c) \/ \E ev \in SUBSET Interest : updateChannel(c, ev)
  \/ poll
  \/ \E f \in Fd, conditions \in SUBSET Conditions : IoChange(f, conditions)

\* EventLoop::loop() calls poll() again and again.
Spec == Init /\ [][Next]_vars /\ WF_vars(poll)
-----------------------------------------------------------------------------
(* Properties *)

Registered == {c \in Channel : channels_[fd(c)] = c}

\* The types of the members.
TypeOK ==
  /\ events_ \in [Channel -> SUBSET Interest]
  /\ index_ \in [Channel -> {kNew, kAdded, kDeleted}]
  /\ channels_ \in [Fd -> Channel \cup {NULL}]
  /\ epollfd_ \in [Fd -> [ptr : Channel, events : SUBSET Interest] \cup {NULL}]
  /\ listSize \in Nat \ {0}
  /\ ready \in [Fd -> SUBSET Conditions]

\* The state that the poller keeps in the channel, its own map and the list of
\* the kernel agree, with an fd passing from one channel to another: no
\* epoll_ctl() fails (EPollPoller.cc:181) and no channel is reported that is
\* not the one registered for its fd (EPollPoller.cc:99-100).
KernelAgrees ==
  \A c \in Channel :
    /\ index_[c] # kNew <=> c \in Registered
    /\ index_[c] = kAdded <=>
         /\ epollfd_[fd(c)] # NULL
         /\ epollfd_[fd(c)] = [ptr |-> c, events |-> events_[c]]

\* A channel that stays interested and ready is reported, whatever the kernel
\* picks when the list is too short for all: the list grows (EPollPoller.cc:68).
EveryReadyReported ==
  \A c \in Channel :
    <>[](c \in Registered /\ ready[fd(c)] \cap events_[c] # {})
      => []<>(c \in DOMAIN activeChannels)
=============================================================================
