--------------------------- MODULE GlobalStateAbs ---------------------------
(***************************************************************************)
(* What __global_state promises its callers: a map from users to states,   *)
(* whose queries answer from the states of this instant.                   *)
(***************************************************************************)
EXTENDS UserState

CONSTANTS Uid, Status, Undef

VARIABLES state, ret

vars == <<state, ret>>

DefaultState == [us |-> NoChannels, status |-> Undef]

Init ==
  /\ state = [u \in Uid |-> DefaultState]
  /\ ret = {}

\* A writer stores a whole state, or one field of it.
Write(u) ==
  /\ \E st \in [us : ChannelUs, status : Status \cup {Undef}] :
       state' = [state EXCEPT ![u] = st]
  /\ UNCHANGED ret

\* Leaving channels answers the channels left.
Part(u, chans, ct) ==
  /\ state' = [state EXCEPT ![u].us = part_channels(@, chans, ct)]
  /\ ret' = parted_channels(state[u].us, chans, ct)

\* A query answers the current channels and changes nothing.
Query(u, ct) ==
  /\ ret' = get_channel(state[u].us, ct)
  /\ UNCHANGED state

Next ==
  \/ \E u \in Uid : Write(u)
  \/ \E u \in Uid, chans \in SUBSET Channel, ct \in CT : Part(u, chans, ct)
  \/ \E u \in Uid, ct \in CT : Query(u, ct)

Spec == Init /\ [][Next]_vars
=============================================================================
