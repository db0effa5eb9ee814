--------------------------- MODULE UserState_proofs ---------------------------
(***************************************************************************)
(* What the operations of user_state do to a membership map, for any set   *)
(* of channels.                                                            *)
(***************************************************************************)
EXTENDS UserState, TLAPS

\* Every operation maps a membership map to a membership map.
LEMMA MembershipTypes ==
  /\ NoChannels \in ChannelUs
  /\ \A us \in ChannelUs, ch \in Channel, ct \in CT :
       /\ channel_add(us, ct, ch) \in ChannelUs
       /\ www_channel_replace(us, ch) \in ChannelUs
  /\ \A us \in ChannelUs, chans \in SUBSET Channel, ct \in CT :
       part_channels(us, chans, ct) \in ChannelUs
BY DEF NoChannels, ChannelUs, CT, channel_add, www_channel_replace, part_channels

\* A user in no channel has the empty map, and conversely.
LEMMA NotInChannels ==
  \A us \in ChannelUs : ~ InSomeChannel(us) <=> us = NoChannels
BY DEF InSomeChannel, export_channels, NoChannels, ChannelUs

\* A web client stays in one channel, whatever is done to the map.
LEMMA OneWwwKept ==
  /\ OneWwwChannel(NoChannels)
  /\ \A us \in ChannelUs, ch \in Channel :
       /\ OneWwwChannel(www_channel_replace(us, ch))
       /\ OneWwwChannel(us) => OneWwwChannel(channel_add(us, "irc", ch))
  /\ \A us \in ChannelUs, chans \in SUBSET Channel, ct \in CT :
       OneWwwChannel(us) => OneWwwChannel(part_channels(us, chans, ct))
BY DEF OneWwwChannel, NoChannels, ChannelUs, CT, channel_add,
       www_channel_replace, part_channels

\* Joining adds one channel and may take the web client out of others.
LEMMA JoinMoves ==
  \A us \in ChannelUs, ch \in Channel, c \in Channel :
    /\ c # ch => channel_add(us, "irc", ch)[c] \subseteq us[c]
    /\ c # ch => www_channel_replace(us, ch)[c] \subseteq us[c]
BY DEF ChannelUs, CT, channel_add, www_channel_replace

\* Parting only takes away.
LEMMA PartMoves ==
  \A us \in ChannelUs, chans \in SUBSET Channel, ct \in CT, c \in Channel :
    part_channels(us, chans, ct)[c] \subseteq us[c]
BY DEF ChannelUs, part_channels
=============================================================================
