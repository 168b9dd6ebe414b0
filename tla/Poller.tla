------------------------------- MODULE Poller -------------------------------
(***************************************************************************)
(* What muduo/net/Poller.h promises to the EventLoop, whichever poller is  *)
(* behind it: updateChannel() sets the interest of a channel, removeChannel*)
(* forgets it, poll() reports registered channels with what they asked for *)
(* and is ready, and always at least one if there is one.  Hang-ups and    *)
(* errors are reported unasked.  A channel without interest is registered, *)
(* and whether hang-ups of it are reported is left open.                   *)
(*                                                                         *)
(* An fd is the resource behind a channel; after a channel is removed the  *)
(* system may give its fd to another one, never before.                    *)
(***************************************************************************)
EXTENDS PollerBase

VARIABLES events,     \* the interest of each channel
          channels,   \* the registered channels
          ready,      \* the condition of each fd
          active      \* what the last poll() reported: channel -> events

vars == <<events, channels, ready, active>>

Nothing == [c \in {} |-> {}]

Init ==
  /\ events = [c \in Channel |-> {}] /\ channels = {}
  /\ ready = [f \in Fd |-> {}] /\ active = Nothing

\* The fd of c belongs to no other channel that is registered.
Owns(c) == \A d \in channels : fd(d) = fd(c) => d = c

UpdateChannel(c, ev) ==
  /\ Owns(c)
  /\ events' = [events EXCEPT ![c] = ev]
  /\ channels' = channels \cup {c}
  /\ UNCHANGED <<ready, active>>

RemoveChannel(c) ==
  /\ c \in channels /\ events[c] = {}
  /\ channels' = channels \ {c}
  /\ UNCHANGED <<events, ready, active>>

\* What poll() may report of a channel.
Reportable(c) == ready[fd(c)] \cap (events[c] \cup Unasked)

\* Some of the reportable channels; one at least if one that has interest is.
poll ==
  \E reported \in SUBSET {c \in channels : Reportable(c) # {}} :
    /\ (\E c \in channels : events[c] # {} /\ Reportable(c) # {}) => reported # {}
    /\ active' = [c \in reported |-> Reportable(c)]
    /\ UNCHANGED <<events, channels, ready>>

\* The condition of an fd changes.
IoChange(f, conditions) ==
  /\ ready' = [ready EXCEPT ![f] = conditions]
  /\ UNCHANGED <<events, channels, active>>

Next ==
  \/ \E c \in Channel : RemoveChannel(c) \/ \E ev \in SUBSET Interest : UpdateChannel(c, ev)
  \/ poll
  \/ \E f \in Fd, conditions \in SUBSET Conditions : IoChange(f, conditions)

Spec == Init /\ [][Next]_vars
=============================================================================
