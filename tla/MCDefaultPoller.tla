-------------------------- MODULE MCDefaultPoller --------------------------
(* The poller of an EventLoop is the one that newDefaultPoller() gives it.   *)
(* Three channels over two fds: c1 and c3 have the same one in turn.         *)
EXTENDS PollerBase, Sequences

CONSTANTS c1, c2, c3

fdOf(c) == IF c = c2 THEN 2 ELSE 1

VARIABLES events_, index_, channels_, ready, activeChannels,   \* of both pollers
          epollfd_, listSize,                                  \* of EPollPoller
          pollfds_,                                            \* of PollPoller
          poller                                               \* which one it is

vars == <<events_, index_, channels_, ready, activeChannels, epollfd_, listSize, pollfds_, poller>>

EPoll == INSTANCE EPollPoller
Poll == INSTANCE PollPoller
Promised == INSTANCE Poller WITH events <- events_, channels <- EPoll!Registered, active <- activeChannels

\* Poller::newDefaultPoller()
Init == EPoll!Init /\ Poll!Init /\ poller \in {"EPollPoller", "PollPoller"}

Next ==
  \/ poller = "EPollPoller" /\ EPoll!Next /\ UNCHANGED <<pollfds_, poller>>
  \/ poller = "PollPoller" /\ Poll!Next /\ UNCHANGED <<epollfd_, listSize, poller>>

\* EventLoop::loop() calls poll() again and again.
Fairness ==
  /\ WF_vars(poller = "EPollPoller" /\ EPoll!poll /\ UNCHANGED <<pollfds_, poller>>)
  /\ WF_vars(poller = "PollPoller" /\ Poll!poll /\ UNCHANGED <<epollfd_, listSize, poller>>)

Spec == Init /\ [][Next]_vars /\ Fairness
-----------------------------------------------------------------------------
(* Properties *)

\* The types of the members of the pollers and of their channels.
TypeOK == IF poller = "EPollPoller" THEN EPoll!TypeOK ELSE Poll!TypeOK

\* The books of the poller agree.  The state that EPollPoller keeps in the channel,
\* its map and the list of the kernel, with an fd passing from one channel to
\* another: no epoll_ctl() fails and no channel is reported that is not the one
\* registered for its fd (EPollPoller.cc:99-100, 181).  The index that PollPoller
\* keeps leads to the channel's own entry, though entries move when others are
\* removed (PollPoller.cc:97-100, 119-139).
BooksAgree == TypeOK /\ IF poller = "EPollPoller" THEN EPoll!KernelAgrees ELSE Poll!IndexesAgree

\* A channel that stays interested and ready is reported, whatever the kernel
\* picks when the list is too short for all: the list grows (EPollPoller.cc:68).
EveryReadyReported == EPoll!EveryReadyReported

\* Whichever poller it is, it keeps the promises of Poller.
ImplementsPoller == Promised!Spec
=============================================================================
