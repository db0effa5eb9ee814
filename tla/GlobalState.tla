----------------------------- MODULE GlobalState -----------------------------
(***************************************************************************)
(* __global_state (chatserver/global_state.{h,cpp}): the map from users to *)
(* their user_state that every thread of the server reads and writes, with *)
(* tmpc__, a cache of "the channels of this user through this client kind" *)
(* that the queries fill and most of the writers invalidate.               *)
(*                                                                         *)
(* Each method holds Mutex from its first access to its return, so one     *)
(* call is one action; the interleavings are the orders of the calls.      *)
(* ret is what the last query returned: the only thing a caller sees of    *)
(* the cache.                                                              *)
(***************************************************************************)
EXTENDS UserState

CONSTANTS Uid,                     \* DB_ids of users
          Status,                  \* user_status values
          Undef                    \* status.id = UNDEF of a default user_state

VARIABLES user_states,             \* map<DB_id,user_state>
          tmpc__,                  \* map<DB_id,map<CT,set<CH_id>>>: {} for no
                                   \* entry, {s} for the cached set s
          ret                      \* the channels the last query answered

vars == <<user_states, tmpc__, ret>>

State == [us : ChannelUs, status : Status \cup {Undef}]

\* Mutant: the constructor of user_status leaves id as it finds it.
DefaultState_uninitialised == [us |-> NoChannels, status |-> "garbage"]

DefaultState == [us |-> NoChannels, status |-> Undef]

TypeOK ==
  /\ DOMAIN user_states \subseteq Uid
  /\ user_states \in [DOMAIN user_states -> State]
  /\ tmpc__ \in [Uid -> [CT -> SUBSET SUBSET Channel]]
  /\ ret \in SUBSET Channel

Init ==
  /\ user_states = [u \in {} |-> DefaultState]
  /\ tmpc__ = [u \in Uid |-> [ct \in CT |-> {}]]
  /\ ret = {}
-----------------------------------------------------------------------------
\* user_states[uid]: operator[] answers a default state for an absent key.
At(u) == IF u \in DOMAIN user_states THEN user_states[u] ELSE DefaultState

\* user_states[u] = st: insert or overwrite.
Put(u, st) ==
  user_states' = [v \in DOMAIN user_states \cup {u} |->
                    IF v = u THEN st ELSE user_states[v]]

\* Mutant: only the web client's answer is dropped.
Invalidate_www(u) == tmpc__' = [tmpc__ EXCEPT ![u]["www"] = {}]

\* tmpc__.erase(uid)
Invalidate(u) == tmpc__' = [tmpc__ EXCEPT ![u] = [ct \in CT |-> {}]]

\* Mutant: like set_status, it leaves the cache alone.
set_user_state_cached(u, st) == Put(u, st) /\ UNCHANGED <<tmpc__, ret>>

\* set_user_state
set_user_state(u, st) ==
  /\ Put(u, st)
  /\ Invalidate(u)
  /\ UNCHANGED ret

\* get_user_state, channel_size, get_status, get_ip: the answer depends on
\* nothing but user_states, but operator[] leaves an entry behind.
get_user_state(u) ==
  /\ Put(u, At(u))
  /\ UNCHANGED <<tmpc__, ret>>

\* set_status (and set_nick, set_ip, whose field the model leaves out): one
\* field is overwritten and the cache is left alone.
set_status(u, st) ==
  /\ Put(u, [At(u) EXCEPT !.status = st])
  /\ UNCHANGED <<tmpc__, ret>>

\* part_channels: the cache goes first, then an unknown user returns early.
PartChannels(u, chans, ct) ==
  /\ Invalidate(u)
  /\ \/ /\ u \notin DOMAIN user_states
        /\ ret' = {}
        /\ UNCHANGED user_states
     \/ /\ u \in DOMAIN user_states
        /\ ret' = parted_channels(user_states[u].us, chans, ct)
        /\ user_states' = [user_states EXCEPT
                             ![u].us = part_channels(@, chans, ct)]

\* remove, erase
remove(u) ==
  /\ user_states' = [v \in DOMAIN user_states \ {u} |-> user_states[v]]
  /\ Invalidate(u)
  /\ UNCHANGED ret

\* get_user_channel, and inchat$www / inchat$irc, which answer whether it is
\* empty: a cached answer is returned as it is; otherwise the answer is
\* computed and cached.
get_user_channel(u, ct) ==
  \/ /\ ret' \in tmpc__[u][ct]
     /\ UNCHANGED <<user_states, tmpc__>>
  \/ /\ tmpc__[u][ct] = {}
     /\ ret' = get_channel(At(u).us, ct)
     /\ tmpc__' = [tmpc__ EXCEPT ![u][ct] = {get_channel(At(u).us, ct)}]
     /\ Put(u, At(u))

Next ==
  \/ \E u \in Uid, st \in State : set_user_state(u, st)
  \/ \E u \in Uid : get_user_state(u)
  \/ \E u \in Uid, st \in Status : set_status(u, st)
  \/ \E u \in Uid, chans \in SUBSET Channel, ct \in CT : PartChannels(u, chans, ct)
  \/ \E u \in Uid : remove(u)
  \/ \E u \in Uid, ct \in CT : get_user_channel(u, ct)

Spec == Init /\ [][Next]_vars
-----------------------------------------------------------------------------
\* A cached answer is never stale: tmpc__ agrees with user_states for every
\* user and client kind it holds, whatever writers ran since it was filled.
\* It is what lets irc_cmd_PART, the IRC commands and the web timers trust
\* inchat$irc and get_user_channel without rescanning the state.
CacheCoherent ==
  \A u \in Uid, ct \in CT :
    \A answer \in tmpc__[u][ct] : answer = get_channel(At(u).us, ct)

\* The promise made to the callers: the same map without a cache.  A map
\* entry created by a read is not visible through the interface, so the
\* abstract state is a total function.
StateOf == [u \in Uid |-> At(u)]
Abs == INSTANCE GlobalStateAbs WITH state <- StateOf, ret <- ret

\* Every behaviour of the cached map is one of the map without a cache.
AbsSpec == Abs!Spec
=============================================================================
