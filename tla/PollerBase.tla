----------------------------- MODULE PollerBase -----------------------------
(***************************************************************************)
(* What Poller and the pollers behind it have in common: the channels,     *)
(* each with the fd it watches, and the conditions of an fd.               *)
(***************************************************************************)
EXTENDS Integers, FiniteSets

CONSTANTS Channel,
          fd(_),               \* Channel::fd()
          NULL,                \* no channel
          kInitEventListSize,  \* of EPollPoller
          Conditions           \* what an fd may be ready for

Interest == {"IN", "OUT"}      \* kReadEvent, kWriteEvent
Unasked == {"HUP", "ERR"}      \* reported to a channel whatever its interest
Fd == {fd(c) : c \in Channel}

ASSUME PollerAssumption ==
  /\ NULL \notin Channel /\ \A c \in Channel : fd(c) \in Nat
  /\ \A c \in Channel, ev \in SUBSET Interest : NULL # [ptr |-> c, events |-> ev]
  /\ kInitEventListSize \in Nat \ {0}
  /\ Conditions \subseteq Interest \cup Unasked
=============================================================================
