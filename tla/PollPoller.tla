----------------------------- MODULE PollPoller -----------------------------
(***************************************************************************)
(* muduo/net/poller/PollPoller.cc with the part of Channel it works on.    *)
(* pollfds_ is the array given to poll(2); an entry whose fd is negative   *)
(* (-fd-1) is ignored by it.  index_ counts from 0, as in the code.        *)
(***************************************************************************)
EXTENDS PollerBase, Sequences

VARIABLES events_, index_,   \* of each Channel
          channels_,         \* fd -> Channel, or NULL
          pollfds_,
          ready, activeChannels

vars == <<events_, index_, channels_, pollfds_, ready, activeChannels>>

Init ==
  /\ events_ = [c \in Channel |-> {}] /\ index_ = [c \in Channel |-> -1]
  /\ channels_ = [f \in Fd |-> NULL] /\ pollfds_ = <<>>
  /\ ready = [f \in Fd |-> {}] /\ activeChannels = [c \in {} |-> {}]

Ignored(f) == -f - 1
pfd(c) == pollfds_[index_[c] + 1]

\* updateChannel() of a new channel, whatever its events.
UpdateAdd(c, ev) ==
  /\ index_[c] < 0
  /\ pollfds_' = Append(pollfds_, [fd |-> fd(c), events |-> ev])
  /\ index_' = [index_ EXCEPT ![c] = Len(pollfds_)]
  /\ channels_' = [channels_ EXCEPT ![fd(c)] = c]

\* updateChannel() of a known channel: one that was removed keeps its index and
\* fails the assert, which is a guard here.
UpdateExisting(c, ev) ==
  /\ index_[c] >= 0 /\ channels_[fd(c)] = c
  /\ pollfds_' = [pollfds_ EXCEPT ![index_[c] + 1] =
       [fd |-> IF ev = {} THEN Ignored(fd(c)) ELSE fd(c), events |-> ev]]
  /\ UNCHANGED <<index_, channels_>>

\* Channel::enableReading() and the like, update(), updateChannel().
updateChannel(c, ev) ==
  /\ channels_[fd(c)] \in {NULL, c}
  /\ events_' = [events_ EXCEPT ![c] = ev]
  /\ UpdateAdd(c, ev) \/ UpdateExisting(c, ev)
  /\ UNCHANGED <<ready, activeChannels>>

\* The channel of the last entry, which an ignored one also names.
ChannelAtEnd ==
  LET f == pollfds_[Len(pollfds_)].fd IN channels_[IF f < 0 THEN Ignored(f) ELSE f]

\* Slip: the channel of the entry that moves is not told.
MovedUntold(c) == index_

\* index_ after the removal of c: the last entry takes the place of c's.  The
\* index of c itself is left as it is.
Moved(c) == [index_ EXCEPT ![ChannelAtEnd] = index_[c]]

\* Channel::remove() and removeChannel(), whose asserts are the guard.
removeChannel(c) ==
  /\ channels_[fd(c)] = c /\ events_[c] = {}
  /\ pfd(c) = [fd |-> Ignored(fd(c)), events |-> {}]
  /\ index_' = Moved(c)
  /\ pollfds_' = SubSeq([pollfds_ EXCEPT ![index_[c] + 1] = pollfds_[Len(pollfds_)]],
                        1, Len(pollfds_) - 1)
  /\ channels_' = [channels_ EXCEPT ![fd(c)] = NULL]
  /\ UNCHANGED <<events_, ready, activeChannels>>

\* Slip: only what was asked for.
FoundAsked(p) == IF p.fd < 0 THEN {} ELSE ready[p.fd] \cap p.events

\* What poll(2) reports of an entry.
Found(p) == IF p.fd < 0 THEN {} ELSE ready[p.fd] \cap (p.events \cup Unasked)

\* poll() and fillActiveChannels(): the channels of all entries with revents.
poll ==
  /\ activeChannels' =
       [c \in {channels_[pollfds_[i].fd] : i \in {j \in 1..Len(pollfds_) : Found(pollfds_[j]) # {}}}
          |-> Found(pfd(c))]
  /\ UNCHANGED <<events_, index_, channels_, pollfds_, ready>>

\* The condition of an fd changes.
IoChange(f, conditions) ==
  /\ ready' = [ready EXCEPT ![f] = conditions]
  /\ UNCHANGED <<events_, index_, channels_, pollfds_, activeChannels>>

Next ==
  \/ \E c \in Channel : removeChannel(c) \/ \E ev \in SUBSET Interest : updateChannel(c, ev)
  \/ poll
  \/ \E f \in Fd, conditions \in SUBSET Conditions : IoChange(f, conditions)

Spec == Init /\ [][Next]_vars
-----------------------------------------------------------------------------
(* Properties *)

Registered == {c \in Channel : channels_[fd(c)] = c}

\* The types of the members.
TypeOK ==
  /\ events_ \in [Channel -> SUBSET Interest]
  /\ index_ \in [Channel -> -1..Cardinality(Fd) - 1]
  /\ channels_ \in [Fd -> Channel \cup {NULL}]
  /\ pollfds_ \in Seq([fd : Fd \cup {Ignored(f) : f \in Fd}, events : SUBSET Interest])
  /\ ready \in [Fd -> SUBSET Conditions]

\* Through additions and removals in any order, which move the last entry to
\* the place of the removed one, every registered channel finds its own entry
\* at its index, with its interest, and there is no other entry: the asserts of
\* updateChannel() and fillActiveChannels() (PollPoller.cc:65-67, 95-100).
IndexesAgree ==
  /\ \A c \in Registered :
       /\ index_[c] \in 0..Len(pollfds_) - 1
       /\ pfd(c).fd \in {fd(c), Ignored(fd(c))}
       /\ pfd(c).events = events_[c]
  /\ Len(pollfds_) = Cardinality(Registered)
=============================================================================
