------------------------------ MODULE UserState ------------------------------
(***************************************************************************)
(* class user_state (chatserver/user_state.h, user_state.cpp): the part of *)
(* a user's state that the chat thread and every request thread exchange   *)
(* by value.  Only __channel_us is interpreted here: which channels the    *)
(* user is in, and through which kinds of client (CT).                     *)
(*                                                                         *)
(* The C++ map never holds an empty set (www_channel_replace and           *)
(* part_channels erase the keys they empty), so an absent key and an empty *)
(* set are the same thing and the map is a total function.                 *)
(***************************************************************************)
EXTENDS Naturals, FiniteSets

CONSTANT Channel                   \* the CH_ids of the server's channels

CT == {"www", "irc"}               \* T_WWW, T_IRC

ChannelUs == [Channel -> SUBSET CT]

NoChannels == [c \in Channel |-> {}]

\* user_state::get_channel: the channels the user is in through a ct client.
get_channel(us, ct) == {c \in Channel : ct \in us[c]}

\* user_state::export_channels: the keys of the map.
export_channels(us) == {c \in Channel : us[c] # {}}

\* user_state::channel_us_count_usr
channel_us_count_usr(us, c, ct) == ct \in us[c]

\* user_state::channel_us_size() # 0, which is all its callers ask.
InSomeChannel(us) == export_channels(us) # {}

\* user_state::channel_add, and __channel_us[channel].insert(_ct) of JOIN.
channel_add(us, ct, ch) == [us EXCEPT ![ch] = @ \cup {ct}]

\* Mutant: the web client's former channels are kept.
www_channel_replace_keeps(us, ch) == channel_add(us, "www", ch)

\* user_state::www_channel_replace: a web client is in one channel, the new
\* one; the IRC client's channels stay.
www_channel_replace(us, ch) ==
  [c \in Channel |-> IF c = ch THEN us[c] \cup {"www"} ELSE us[c] \ {"www"}]

\* user_state::part_channels: an empty chans means every channel.
part_channels(us, chans, ct) ==
  [c \in Channel |-> IF chans = {} \/ c \in chans THEN us[c] \ {ct} ELSE us[c]]

\* What part_channels returns: the channels the user is now out of.
parted_channels(us, chans, ct) ==
  export_channels(us) \ export_channels(part_channels(us, chans, ct))

\* The chat page of a web client shows one channel.
OneWwwChannel(us) == \A c, d \in Channel : "www" \in us[c] \cap us[d] => c = d
=============================================================================
