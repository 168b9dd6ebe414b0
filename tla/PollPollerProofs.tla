-------------------------- MODULE PollPollerProofs --------------------------
(***************************************************************************)
(* PollPoller implements Poller, for any channels and fds: the initial     *)
(* states and the steps, without fairness.                                 *)
(***************************************************************************)
EXTENDS PollPoller, FiniteSetTheorems, TLAPS

Promised == INSTANCE Poller WITH events <- events_, channels <- Registered, active <- activeChannels

Entry == [fd : Int, events : SUBSET Interest]

Types ==
  /\ events_ \in [Channel -> SUBSET Interest] /\ index_ \in [Channel -> Int]
  /\ channels_ \in [Fd -> Channel \cup {NULL}] /\ pollfds_ \in Seq(Entry)
  /\ ready \in [Fd -> SUBSET Conditions]

\* The entry p is that of c.  One that is ignored has no events, which is why poll()
\* need not look at it.
EntryOf(p, c) ==
  /\ p.fd = fd(c) \/ (p.fd = Ignored(fd(c)) /\ events_[c] = {})
  /\ p.events = events_[c]

\* The books in a form that every step keeps: every registered channel finds its
\* entry at its index, and every entry is that of a registered channel.
Books ==
  /\ \A c \in Registered : index_[c] + 1 \in 1..Len(pollfds_) /\ EntryOf(pfd(c), c)
  /\ \A k \in 1..Len(pollfds_) : \E c \in Registered : index_[c] + 1 = k

Counted == IsFiniteSet(Registered) /\ Len(pollfds_) = Cardinality(Registered)

Inv == Types /\ Books /\ Counted

LEMMA FdOf == \A c \in Channel : fd(c) \in Fd /\ fd(c) \in Nat
  BY PollerAssumption DEF Fd

LEMMA InitInv == Init => Inv
<1> SUFFICES ASSUME Init PROVE Inv
  OBVIOUS
<1>1. Registered = {}
  BY FdOf, PollerAssumption DEF Init, Registered
<1>2. Types
  BY DEF Init, Types
<1>3. Books
  BY <1>1 DEF Init, Books
<1>4. Counted
  BY <1>1, FS_EmptySet DEF Init, Counted
<1> QED BY <1>2, <1>3, <1>4 DEF Inv

\* The fd of an entry tells whose it is.
LEMMA OneOwner ==
  ASSUME NEW c \in Registered, NEW d \in Registered, NEW p, EntryOf(p, c), EntryOf(p, d)
  PROVE  c = d
<1>1. c \in Channel /\ d \in Channel
  BY DEF Registered
<1>2. fd(c) = fd(d)
  BY <1>1, FdOf DEF EntryOf, Ignored
<1> QED BY <1>2 DEF Registered

\* So no two channels have one index.
LEMMA OneIndex ==
  ASSUME Books, NEW c \in Registered, NEW d \in Registered, index_[c] = index_[d]
  PROVE  c = d
  BY OneOwner DEF Books, pfd

-----------------------------------------------------------------------------
(* updateChannel() *)

LEMMA AddInv ==
  ASSUME Inv, NEW c \in Channel, NEW ev \in SUBSET Interest,
         updateChannel(c, ev), UpdateAdd(c, ev)
  PROVE  Inv' /\ Registered' = Registered \cup {c}
<1> USE FdOf, PollerAssumption
<1> DEFINE p == [fd |-> fd(c), events |-> ev]
<1>1. c \notin Registered
  BY DEF Inv, Types, Books, UpdateAdd
<1>2. channels_[fd(c)] = NULL
  BY <1>1 DEF updateChannel, Registered
<1>3. Registered' = Registered \cup {c}
  BY <1>2 DEF Inv, Types, UpdateAdd, Registered
<1>4. p \in Entry
  BY DEF Entry
<1>5. Types'
  BY <1>4 DEF Inv, Types, updateChannel, UpdateAdd
<1>6. /\ Len(pollfds_') = Len(pollfds_) + 1
      /\ pollfds_'[Len(pollfds_) + 1] = p
      /\ \A k \in 1..Len(pollfds_) : pollfds_'[k] = pollfds_[k]
  BY <1>4 DEF Inv, Types, UpdateAdd
<1>7. index_'[c] + 1 = Len(pollfds_) + 1 /\ pfd(c)' = p
  BY <1>6 DEF Inv, Types, UpdateAdd, pfd
<1>8. \A d \in Registered : index_'[d] = index_[d] /\ events_'[d] = events_[d] /\ d # c
  BY <1>1 DEF Inv, Types, updateChannel, UpdateAdd, Registered
<1>9. \A d \in Registered : pfd(d)' = pfd(d)
  BY <1>6, <1>8 DEF Inv, Books, pfd
<1>10. Books'
  <2>1. ASSUME NEW d \in Registered'
        PROVE  index_'[d] + 1 \in 1..Len(pollfds_') /\ EntryOf(pfd(d), d)'
    <3>1. CASE d = c
      BY <1>6, <1>7, <3>1 DEF Inv, Types, updateChannel, EntryOf
    <3>2. CASE d \in Registered
      BY <1>6, <1>8, <1>9, <3>2, SMTT(30) DEF Inv, Types, Books, EntryOf
    <3> QED BY <1>3, <2>1, <3>1, <3>2
  <2>2. ASSUME NEW k \in 1..Len(pollfds_')
        PROVE  \E d \in Registered' : index_'[d] + 1 = k
    <3>1. CASE k = Len(pollfds_) + 1
      BY <1>3, <1>7, <3>1
    <3>2. CASE k \in 1..Len(pollfds_)
      BY <1>3, <1>8, <3>2 DEF Inv, Books
    <3> QED BY <1>6, <2>2, <3>1, <3>2 DEF Inv, Types
  <2> QED BY <2>1, <2>2 DEF Books
<1>11. Counted'
  BY <1>1, <1>3, <1>6, FS_AddElement DEF Inv, Counted
<1> QED BY <1>3, <1>5, <1>10, <1>11 DEF Inv

LEMMA ExistingInv ==
  ASSUME Inv, NEW c \in Channel, NEW ev \in SUBSET Interest,
         updateChannel(c, ev), UpdateExisting(c, ev)
  PROVE  Inv' /\ Registered' = Registered \cup {c}
<1> USE FdOf
<1> DEFINE p == [fd |-> IF ev = {} THEN Ignored(fd(c)) ELSE fd(c), events |-> ev]
<1>1. c \in Registered /\ index_[c] + 1 \in 1..Len(pollfds_)
  BY DEF Inv, Books, UpdateExisting, Registered
<1>2. Registered' = Registered
  BY DEF UpdateExisting, Registered
<1>3. p \in Entry
  BY DEF Entry, Ignored
<1>4. /\ pollfds_' \in Seq(Entry) /\ Len(pollfds_') = Len(pollfds_)
      /\ pollfds_'[index_[c] + 1] = p
      /\ \A k \in 1..Len(pollfds_) : k # index_[c] + 1 => pollfds_'[k] = pollfds_[k]
  BY <1>1, <1>3 DEF Inv, Types, UpdateExisting
<1>5. Types'
  BY <1>4 DEF Inv, Types, updateChannel, UpdateExisting
<1>6. index_' = index_ /\ events_'[c] = ev /\ \A d \in Registered : d # c => events_'[d] = events_[d]
  BY DEF Inv, Types, updateChannel, UpdateExisting, Registered
<1>7. ASSUME NEW d \in Registered
      PROVE  EntryOf(pfd(d), d)'
  <2>1. CASE d = c
    BY <1>4, <1>6, <2>1 DEF pfd, EntryOf
  <2>2. CASE d # c
    <3>1. index_[d] # index_[c]
      BY <1>1, <2>2, OneIndex DEF Inv
    <3>2. index_[c] \in Int /\ index_[d] \in Int
      BY DEF Inv, Types, Registered
    <3>3. index_[d] + 1 \in 1..Len(pollfds_) /\ index_[d] + 1 # index_[c] + 1
      BY <3>1, <3>2 DEF Inv, Books
    <3>4. pfd(d)' = pfd(d)
      BY <1>4, <1>6, <3>3 DEF pfd
    <3> QED BY <1>6, <2>2, <3>4 DEF Inv, Books, EntryOf
  <2> QED BY <2>1, <2>2
<1>8. Books'
  BY <1>2, <1>4, <1>6, <1>7 DEF Inv, Books
<1>9. Counted'
  BY <1>2, <1>4 DEF Inv, Counted
<1> QED BY <1>1, <1>2, <1>5, <1>8, <1>9, SMTT(30) DEF Inv

-----------------------------------------------------------------------------
(* removeChannel() *)

\* The channel that ChannelAtEnd finds is the one of the last entry.
LEMMA AtEnd ==
  ASSUME Inv, NEW c \in Registered
  PROVE  ChannelAtEnd \in Registered /\ index_[ChannelAtEnd] + 1 = Len(pollfds_)
<1>1. Len(pollfds_) \in 1..Len(pollfds_)
  BY DEF Inv, Types, Books
<1>2. PICK d \in Registered : index_[d] + 1 = Len(pollfds_)
  BY <1>1 DEF Inv, Books
<1>3. EntryOf(pollfds_[Len(pollfds_)], d)
  BY <1>2 DEF Inv, Books, pfd
<1>4. d \in Channel /\ fd(d) \in Nat /\ channels_[fd(d)] = d
  BY FdOf DEF Registered
<1>5. ChannelAtEnd = d
  BY <1>3, <1>4 DEF ChannelAtEnd, EntryOf, Ignored
<1> QED BY <1>2, <1>5

LEMMA RemoveInv ==
  ASSUME Inv, NEW c \in Channel, removeChannel(c)
  PROVE  Inv' /\ Registered' = Registered \ {c}
<1> USE FdOf, PollerAssumption
<1> DEFINE last == ChannelAtEnd
           n == Len(pollfds_)
<1>1. c \in Registered
  BY DEF removeChannel, Registered
<1>2. Registered' = Registered \ {c}
  BY DEF Inv, Types, removeChannel, Registered
<1>3. last \in Registered /\ index_[last] + 1 = n
  BY <1>1, AtEnd
<1>4. index_[c] + 1 \in 1..n /\ n \in 1..n /\ n \in Nat
  BY <1>1 DEF Inv, Types, Books
<1>5. \A d \in Registered : d \in Channel /\ index_[d] \in Int
  BY DEF Inv, Types, Registered
<1>6. /\ pollfds_' \in Seq(Entry) /\ Len(pollfds_') = n - 1
      /\ \A k \in 1..n - 1 :
           pollfds_'[k] = IF k = index_[c] + 1 THEN pollfds_[n] ELSE pollfds_[k]
  <2> DEFINE s == [pollfds_ EXCEPT ![index_[c] + 1] = pollfds_[n]]
  <2>1. pollfds_[n] \in Entry
    BY <1>4 DEF Inv, Types
  <2>2. s \in Seq(Entry) /\ Len(s) = n
        /\ \A k \in 1..n : s[k] = IF k = index_[c] + 1 THEN pollfds_[n] ELSE pollfds_[k]
    BY <1>4, <2>1 DEF Inv, Types
  <2>3. pollfds_' = SubSeq(s, 1, n - 1)
    BY DEF removeChannel
  <2> HIDE DEF s
  <2> QED BY <1>4, <2>2, <2>3, SMTT(30)
<1>7. /\ index_' \in [Channel -> Int]
      /\ \A d \in Registered : index_'[d] = IF d = last THEN index_[c] ELSE index_[d]
  BY <1>1, <1>3, <1>5, SMTT(30) DEF Inv, Types, removeChannel, Moved
<1>8. Types'
  BY <1>6, <1>7, SMTT(30) DEF Inv, Types, removeChannel
<1>9. ASSUME NEW d \in Registered, d # c
      PROVE  index_'[d] + 1 \in 1..n - 1 /\ pfd(d)' = pfd(d)
  <2>1. index_[d] # index_[c] /\ index_[d] + 1 \in 1..n
    BY <1>1, <1>9, OneIndex DEF Inv, Books
  <2>2. CASE d = last
    <3>1. index_[c] + 1 \in 1..n - 1
      BY <1>1, <1>3, <1>4, <1>5, <2>1, <2>2
    <3> QED BY <1>3, <1>6, <1>7, <2>2, <3>1, SMTT(30) DEF pfd
  <2>3. CASE d # last
    <3>1. index_[d] # index_[last]
      BY <1>3, <2>3, OneIndex DEF Inv
    <3>2. index_[d] \in Int /\ index_[c] \in Int /\ index_[last] \in Int
      BY <1>1, <1>3, <1>5
    <3>3. index_[d] + 1 # n
      BY <1>3, <3>1, <3>2
    <3>4. index_[d] + 1 \in 1..n - 1 /\ index_[d] + 1 # index_[c] + 1
      BY <1>4, <2>1, <3>2, <3>3, SMTT(30)
    <3> QED BY <1>6, <1>7, <2>3, <3>4 DEF pfd
  <2> QED BY <2>2, <2>3
<1>10. ASSUME NEW k \in 1..n - 1
       PROVE  \E d \in Registered' : index_'[d] + 1 = k
  <2>1. CASE k = index_[c] + 1
    <3>1. last # c
      BY <1>3, <1>4, <2>1
    <3> QED BY <1>2, <1>3, <1>7, <2>1, <3>1
  <2>2. CASE k # index_[c] + 1
    <3>1. PICK d \in Registered : index_[d] + 1 = k
      BY <1>4 DEF Inv, Books
    <3>2. d # c /\ d # last
      BY <1>3, <1>4, <2>2, <3>1
    <3> QED BY <1>2, <1>7, <3>1, <3>2
  <2> QED BY <2>1, <2>2
<1>11. Books'
  <2>1. ASSUME NEW d \in Registered'
        PROVE  index_'[d] + 1 \in 1..Len(pollfds_') /\ EntryOf(pfd(d), d)'
    BY <1>2, <1>6, <1>9, <2>1, SMTT(30) DEF Inv, Books, EntryOf, removeChannel
  <2> QED BY <1>6, <1>10, <2>1, SMTT(30) DEF Books
<1>12. Counted'
  <2>1. IsFiniteSet(Registered \ {c}) /\ Cardinality(Registered \ {c}) = Cardinality(Registered) - 1
    BY <1>1, FS_RemoveElement DEF Inv, Counted
  <2> QED BY <1>2, <1>6, <2>1 DEF Inv, Counted
<1> QED BY <1>2, <1>8, <1>11, <1>12 DEF Inv

LEMMA NextInv ==
  ASSUME Inv, [Next]_vars
  PROVE  Inv'
<1>1. CASE poll
  BY <1>1, SMTT(30) DEF Inv, Types, Books, EntryOf, pfd, Counted, Registered, poll
<1>2. ASSUME NEW f \in Fd, NEW conditions \in SUBSET Conditions, IoChange(f, conditions)
      PROVE  Inv'
  BY <1>2, SMTT(30) DEF Inv, Types, Books, EntryOf, pfd, Counted, Registered, IoChange
<1>3. CASE UNCHANGED vars
  BY <1>3, Zenon DEF Inv, Types, Books, EntryOf, pfd, Counted, Registered, vars
<1>4. ASSUME NEW c \in Channel, NEW ev \in SUBSET Interest, updateChannel(c, ev)
      PROVE  Inv'
  BY <1>4, AddInv, ExistingInv, Zenon DEF updateChannel
<1> QED BY <1>1, <1>2, <1>3, <1>4, RemoveInv, SMTT(30) DEF Next

-----------------------------------------------------------------------------
(* poll() *)

LEMMA PollPromised ==
  ASSUME Inv, poll
  PROVE  Promised!poll
<1> DEFINE found == {j \in 1..Len(pollfds_) : Found(pollfds_[j]) # {}}
           reported == {channels_[pollfds_[i].fd] : i \in found}
<1>1. ASSUME NEW i \in found
      PROVE  LET c == channels_[pollfds_[i].fd]
             IN  c \in Registered /\ index_[c] + 1 = i /\ Found(pollfds_[i]) = Promised!Reportable(c)
  <2>1. PICK c \in Registered : index_[c] + 1 = i
    BY DEF Inv, Books
  <2>2. c \in Channel /\ fd(c) \in Nat /\ channels_[fd(c)] = c
    BY FdOf DEF Registered
  <2>3. EntryOf(pollfds_[i], c)
    BY <2>1 DEF Inv, Books, pfd
  <2>4. pollfds_[i].fd = fd(c) /\ pollfds_[i].events = events_[c]
    BY <2>2, <2>3 DEF EntryOf, Ignored, Found
  <2>5. Found(pollfds_[i]) = ready[fd(c)] \cap (events_[c] \cup Unasked)
    BY <2>2, <2>4 DEF Found
  <2> QED BY <2>1, <2>2, <2>4, <2>5 DEF Promised!Reportable, Promised!Unasked, Unasked
<1>2. reported \in SUBSET {c \in Registered : Promised!Reportable(c) # {}}
  BY <1>1
<1>3. activeChannels' = [c \in reported |-> Promised!Reportable(c)]
  <2>1. \A c \in reported : Found(pfd(c)) = Promised!Reportable(c)
    BY <1>1, Zenon DEF pfd
  <2> QED BY <2>1, SMTT(30) DEF poll
<1>4. ASSUME NEW c \in Registered, events_[c] # {}, Promised!Reportable(c) # {}
      PROVE  reported # {}
  <2> DEFINE i == index_[c] + 1
  <2>1. c \in Channel /\ fd(c) \in Nat
    BY FdOf DEF Registered
  <2>2. i \in 1..Len(pollfds_) /\ pollfds_[i].fd = fd(c) /\ pollfds_[i].events = events_[c]
    BY <1>4 DEF Inv, Books, EntryOf, pfd
  <2>3. Found(pollfds_[i]) = ready[fd(c)] \cap (events_[c] \cup Unasked)
    BY <2>1, <2>2 DEF Found
  <2>4. i \in found
    BY <1>4, <2>2, <2>3, SMTT(30) DEF Promised!Reportable, Promised!Unasked, Unasked
  <2> QED BY <2>4, Zenon
<1>5. UNCHANGED <<events_, Registered, ready>>
  BY DEF poll, Registered
<1> QED BY <1>2, <1>3, <1>4, <1>5, Zenon DEF Promised!poll

LEMMA NextPromised ==
  ASSUME Inv, [Next]_vars
  PROVE  [Promised!Next]_(Promised!vars)
<1> USE DEF Promised!Next, Promised!Interest, Interest
<1>1. ASSUME NEW c \in Channel, NEW ev \in SUBSET Interest, updateChannel(c, ev)
      PROVE  Promised!Next
  <2>1. Registered' = Registered \cup {c}
    BY <1>1, AddInv, ExistingInv, Zenon DEF updateChannel
  <2>2. Promised!Owns(c)
    BY <1>1, PollerAssumption DEF Promised!Owns, Registered, updateChannel
  <2>3. Promised!UpdateChannel(c, ev)
    BY <1>1, <2>1, <2>2 DEF Promised!UpdateChannel, updateChannel
  <2> QED BY <2>3
<1>2. ASSUME NEW c \in Channel, removeChannel(c)
      PROVE  Promised!Next
  <2>1. Promised!RemoveChannel(c)
    BY <1>2, RemoveInv, Zenon DEF Promised!RemoveChannel, Registered, removeChannel
  <2> QED BY <2>1
<1>3. CASE poll
  BY <1>3, PollPromised
<1>4. ASSUME NEW f \in Fd, NEW conditions \in SUBSET Conditions, IoChange(f, conditions)
      PROVE  Promised!Next
  BY <1>4, Zenon DEF IoChange, Promised!IoChange, Registered, Promised!Fd, Fd
<1>5. CASE UNCHANGED vars
  BY <1>5 DEF vars, Promised!vars, Registered
<1> QED BY <1>1, <1>2, <1>3, <1>4, <1>5, SMTT(30) DEF Next

-----------------------------------------------------------------------------
\* However channels are added, changed and removed, every registered channel finds
\* its own entry at its index, and there are no others, though a removal moves the
\* last entry (PollPoller.cc:70-141).
THEOREM IndexesAlwaysAgree == Spec => []IndexesAgree
<1>1. Inv => IndexesAgree
  <2> SUFFICES ASSUME Inv PROVE IndexesAgree
    OBVIOUS
  <2>1. ASSUME NEW c \in Registered
        PROVE  /\ index_[c] \in 0..Len(pollfds_) - 1
               /\ pfd(c).fd \in {fd(c), Ignored(fd(c))} /\ pfd(c).events = events_[c]
    BY DEF Inv, Types, Books, EntryOf, Registered
  <2> QED BY <2>1 DEF Inv, Counted, IndexesAgree
<1> QED BY <1>1, InitInv, NextInv, PTL DEF Spec

\* PollPoller does what Poller promises to the EventLoop: it reports the channels that
\* are registered, with what they asked for and is ready, each to its own channel
\* (PollPoller.cc:27-68).
THEOREM Implements == Spec => Promised!Spec
<1>1. Init => Promised!Init
  BY FdOf, PollerAssumption DEF Init, Promised!Init, Registered, Fd, Promised!Fd, Promised!Nothing
<1> QED BY <1>1, InitInv, NextInv, NextPromised, PTL DEF Spec, Promised!Spec
=============================================================================
