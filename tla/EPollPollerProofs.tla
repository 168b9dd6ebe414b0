-------------------------- MODULE EPollPollerProofs --------------------------
(***************************************************************************)
(* EPollPoller implements Poller, for any channels and fds and whatever    *)
(* the size of the event list: the initial states and the steps, without   *)
(* fairness.                                                               *)
(***************************************************************************)
EXTENDS EPollPoller, FiniteSetTheorems, TLAPS

Promised == INSTANCE Poller WITH events <- events_, channels <- Registered, active <- activeChannels

\* The books in a form that every step keeps.  The kernel's entry of an fd is that of
\* a channel which knows it; a channel that was taken out of the kernel's list has no
\* interest, which is why poll() need not look at it.
Books ==
  /\ \A c \in Channel :
       /\ index_[c] = kNew <=> channels_[fd(c)] # c
       /\ index_[c] = kAdded => epollfd_[fd(c)] = [ptr |-> c, events |-> events_[c]]
       /\ index_[c] = kDeleted => events_[c] = {}
  /\ \A f \in Fd : epollfd_[f] # NULL =>
       /\ fd(epollfd_[f].ptr) = f
       /\ index_[epollfd_[f].ptr] = kAdded

Inv == TypeOK /\ Books

LEMMA Indexes == kNew # kAdded /\ kNew # kDeleted /\ kAdded # kDeleted
  BY DEF kNew, kAdded, kDeleted
USE Indexes

LEMMA InitInv == Init => Inv
<1>1. Init => TypeOK
  BY PollerAssumption DEF Init, TypeOK, Interest
<1>2. Init => Books
  BY PollerAssumption DEF Init, Books, Fd
<1> QED BY <1>1, <1>2 DEF Inv

LEMMA FdOf == \A c \in Channel : fd(c) \in Fd
  BY DEF Fd

\* A channel that is not new is the one its fd is registered for.
LEMMA KnownHasFd ==
  ASSUME Books, NEW c \in Channel, index_[c] # kNew
  PROVE  /\ channels_[fd(c)] = c
         /\ \A d \in Channel : d # c /\ fd(d) = fd(c) => index_[d] = kNew
<1>1. channels_[fd(c)] = c
  BY Zenon DEF Books
<1> QED BY <1>1, Zenon DEF Books

LEMMA UpdateInv ==
  ASSUME Inv, NEW c \in Channel, NEW ev \in SUBSET Interest, updateChannel(c, ev)
  PROVE  Inv'
<1> USE FdOf, PollerAssumption
<1>1. TypeOK'
  BY DEF Inv, TypeOK, updateChannel, UpdateAdd, UpdateDel, UpdateMod, ctlSet, ctlDel
<1>2. CASE UpdateAdd(c, ev)
  <2>1. Books'
    BY <1>2 DEF Inv, TypeOK, Books, updateChannel, UpdateAdd, ctlSet
  <2> QED BY <1>1, <2>1 DEF Inv
<1>3. CASE UpdateDel(c, ev)
  <2>1. index_[c] # kNew
    BY <1>3 DEF UpdateDel
  <2>2. Books'
    BY <1>3, <2>1, KnownHasFd DEF Inv, TypeOK, Books, updateChannel, UpdateDel, ctlDel
  <2> QED BY <1>1, <2>2 DEF Inv
<1>4. CASE UpdateMod(c, ev)
  <2>1. index_[c] # kNew
    BY <1>4 DEF UpdateMod
  <2>2. Books'
    BY <1>4, <2>1, KnownHasFd DEF Inv, TypeOK, Books, updateChannel, UpdateMod, ctlSet
  <2> QED BY <1>1, <2>2 DEF Inv
<1> QED BY <1>2, <1>3, <1>4 DEF updateChannel

LEMMA RemoveInv ==
  ASSUME Inv, NEW c \in Channel, removeChannel(c)
  PROVE  Inv'
<1> USE FdOf, PollerAssumption
<1>1. TypeOK'
  BY DEF Inv, TypeOK, removeChannel, RemovedFromKernel, ctlDel
<1>2. Books'
  BY DEF Inv, TypeOK, Books, removeChannel, RemovedFromKernel, ctlDel
<1> QED BY <1>1, <1>2 DEF Inv

LEMMA PollInv ==
  ASSUME Inv, poll
  PROVE  Inv'
<1>1. listSize' \in Nat \ {0}
  BY DEF Inv, TypeOK, poll, Grown
<1>2. TypeOK'
  BY <1>1 DEF Inv, TypeOK, poll
<1>3. Books'
  BY DEF Inv, Books, poll
<1> QED BY <1>2, <1>3 DEF Inv

LEMMA NextInv ==
  ASSUME Inv, [Next]_vars
  PROVE  Inv'
<1>1. ASSUME NEW f \in Fd, NEW conditions \in SUBSET Conditions, IoChange(f, conditions)
      PROVE  Inv'
  BY <1>1, SMTT(30) DEF Inv, TypeOK, Books, IoChange
<1>2. CASE UNCHANGED vars
  BY <1>2 DEF Inv, TypeOK, Books, vars
<1> QED BY <1>1, <1>2, UpdateInv, RemoveInv, PollInv, SMTT(30) DEF Next

-----------------------------------------------------------------------------
(* What the books say of a report. *)

\* A channel of the kernel's list is registered, and its fd is found by its interest.
LEMMA FoundOfChannel ==
  ASSUME Inv, NEW f \in Fd, epollfd_[f] # NULL
  PROVE  LET c == epollfd_[f].ptr
         IN  /\ c \in Registered /\ fd(c) = f
             /\ Found(f) = Promised!Reportable(c)
<1> DEFINE c == epollfd_[f].ptr
<1>1. c \in Channel /\ fd(c) = f /\ index_[c] = kAdded
  BY DEF Inv, TypeOK, Books
<1>2. epollfd_[f] = [ptr |-> c, events |-> events_[c]]
  BY <1>1 DEF Inv, Books
<1>3. c \in Registered
  BY <1>1, Zenon DEF Inv, Books, Registered
<1>4. Found(f) = ready[f] \cap (events_[c] \cup Unasked)
  BY <1>2 DEF Found
<1> QED BY <1>1, <1>3, <1>4, SMTT(30) DEF Promised!Reportable, Promised!Unasked, Unasked

\* A registered channel with interest is in the kernel's list.
LEMMA InterestedFound ==
  ASSUME Inv, NEW c \in Registered, events_[c] # {}
  PROVE  epollfd_[fd(c)] # NULL /\ epollfd_[fd(c)].ptr = c
<1>0. c \in Channel /\ channels_[fd(c)] = c
  BY DEF Registered
<1>1. c \in Channel /\ index_[c] = kAdded
  <2>1. index_[c] # kNew /\ index_[c] # kDeleted
    BY <1>0, Zenon DEF Inv, Books
  <2> QED BY <1>0, <2>1 DEF Inv, TypeOK
<1>2. events_[c] \in SUBSET Interest
  BY <1>1 DEF Inv, TypeOK
<1>3. epollfd_[fd(c)] = [ptr |-> c, events |-> events_[c]]
  BY <1>1 DEF Inv, Books
<1> QED BY <1>1, <1>2, <1>3, PollerAssumption

LEMMA PollPromised ==
  ASSUME Inv, poll
  PROVE  Promised!poll
<1> DEFINE found == {f \in Fd : Found(f) # {}}
<1>1. PICK reported \in SUBSET found :
        /\ reported = found \/ Cardinality(reported) = listSize
        /\ activeChannels' = [c \in {epollfd_[f].ptr : f \in reported} |-> Found(fd(c))]
  BY DEF poll
<1> DEFINE channels == {epollfd_[f].ptr : f \in reported}
<1>2. \A f \in found : epollfd_[f] # NULL
  BY DEF Found
<1>3. \A f \in reported : /\ epollfd_[f].ptr \in Registered /\ fd(epollfd_[f].ptr) = f
                          /\ Promised!Reportable(epollfd_[f].ptr) = Found(f)
  BY <1>2, FoundOfChannel
<1>4. channels \in SUBSET {c \in Registered : Promised!Reportable(c) # {}}
  BY <1>3
<1>5. activeChannels' = [c \in channels |-> Promised!Reportable(c)]
  BY <1>1, <1>3
<1>6. ASSUME NEW c \in Registered, events_[c] # {}, Promised!Reportable(c) # {}
      PROVE  channels # {}
  <2>1. fd(c) \in Fd /\ epollfd_[fd(c)] # NULL /\ epollfd_[fd(c)].ptr = c
    BY <1>6, InterestedFound DEF Registered, Fd
  <2>2. fd(c) \in found
    BY <1>6, <2>1, FoundOfChannel
  <2>3. reported # {}
    BY <1>1, <2>2, FS_EmptySet, Zenon DEF Inv, TypeOK
  <2> QED BY <2>3, SMTT(30)
<1>7. UNCHANGED <<events_, Registered, ready>>
  BY DEF poll, Registered
<1> QED BY <1>4, <1>5, <1>6, <1>7, Zenon DEF Promised!poll

-----------------------------------------------------------------------------
(* The steps are steps of Poller. *)

LEMMA UpdatePromised ==
  ASSUME Inv, NEW c \in Channel, NEW ev \in SUBSET Interest, updateChannel(c, ev)
  PROVE  Promised!UpdateChannel(c, ev)
<1> USE FdOf, PollerAssumption
<1>1. Promised!Owns(c)
  BY DEF Promised!Owns, Registered, updateChannel
<1>2. channels_' = [channels_ EXCEPT ![fd(c)] = c]
  <2>1. CASE UpdateAdd(c, ev)
    BY <2>1 DEF UpdateAdd
  <2>2. CASE UpdateDel(c, ev) \/ UpdateMod(c, ev)
    <3>1. index_[c] # kNew /\ channels_' = channels_
      BY <2>2 DEF UpdateDel, UpdateMod
    <3>2. channels_[fd(c)] = c
      BY <3>1, KnownHasFd DEF Inv
    <3> QED BY <3>1, <3>2 DEF Inv, TypeOK
  <2> QED BY <2>1, <2>2 DEF updateChannel
<1>3. Registered' = Registered \cup {c}
  BY <1>2, SMTT(30) DEF Inv, TypeOK, Registered, updateChannel
<1> QED BY <1>1, <1>3 DEF Promised!UpdateChannel, updateChannel

LEMMA RemovePromised ==
  ASSUME Inv, NEW c \in Channel, removeChannel(c)
  PROVE  Promised!RemoveChannel(c)
<1>1. Registered' = Registered \ {c}
  BY FdOf, PollerAssumption, SMTT(30) DEF Inv, TypeOK, Registered, removeChannel
<1> QED BY <1>1, SMTT(30) DEF Promised!RemoveChannel, Registered, removeChannel

LEMMA NextPromised ==
  ASSUME Inv, [Next]_vars
  PROVE  [Promised!Next]_(Promised!vars)
<1> USE DEF Promised!Next, Promised!Interest, Interest
<1>1. ASSUME NEW c \in Channel, NEW ev \in SUBSET Interest, updateChannel(c, ev)
      PROVE  Promised!Next
  BY <1>1, UpdatePromised
<1>2. ASSUME NEW c \in Channel, removeChannel(c)
      PROVE  Promised!Next
  BY <1>2, RemovePromised
<1>3. CASE poll
  BY <1>3, PollPromised
<1>4. ASSUME NEW f \in Fd, NEW conditions \in SUBSET Conditions, IoChange(f, conditions)
      PROVE  Promised!Next
  BY <1>4, Zenon DEF IoChange, Promised!IoChange, Registered, Promised!Fd, Fd
<1>5. CASE UNCHANGED vars
  BY <1>5 DEF vars, Promised!vars, Registered
<1> QED BY <1>1, <1>2, <1>3, <1>4, <1>5 DEF Next

-----------------------------------------------------------------------------
\* The state that the poller keeps in the channel, its map and the list of the
\* kernel always agree, for any number of channels that pass fds to one another
\* (EPollPoller.cc:109-168).
THEOREM KernelAlwaysAgrees == Spec => []KernelAgrees
<1>1. Inv => KernelAgrees
  BY PollerAssumption, FdOf DEF Inv, TypeOK, Books, KernelAgrees, Registered
<1> QED BY <1>1, InitInv, NextInv, PTL DEF Spec

\* EPollPoller does what Poller promises to the EventLoop: it reports channels that
\* are registered, with what they asked for and is ready, and at least one if there
\* is one, however short its list of events (EPollPoller.cc:52-107).
THEOREM Implements == Spec => Promised!Spec
<1>1. Init => Promised!Init
  BY PollerAssumption DEF Init, Promised!Init, Registered, Fd, Promised!Fd, Promised!Nothing
<1> QED BY <1>1, InitInv, NextInv, NextPromised, PTL DEF Spec, Promised!Spec
=============================================================================
