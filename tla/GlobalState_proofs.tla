-------------------------- MODULE GlobalState_proofs --------------------------
(***************************************************************************)
(* Proofs about GlobalState, for any sets of users, channels and statuses: *)
(* its cache is never stale, and it implements the map without a cache.    *)
(***************************************************************************)
EXTENDS GlobalState, UserState_proofs

USE DEF CT, ChannelUs

-----------------------------------------------------------------------------
(* Lookups and writes keep the types and touch one user.                   *)

\* A query answers a set of channels.
LEMMA GetChannelType ==
  ASSUME NEW us, NEW ct
  PROVE  get_channel(us, ct) \in SUBSET Channel
BY DEF get_channel

\* The state a lookup answers is a state, present or not.
LEMMA AtType ==
  ASSUME TypeOK, NEW u \in Uid
  PROVE  At(u) \in State
BY DEF TypeOK, At, DefaultState, State, NoChannels

\* A write changes the lookup of its user only, and keeps the map's type.
LEMMA PutAt ==
  ASSUME TypeOK, NEW u \in Uid, NEW st \in State, Put(u, st)
  PROVE  /\ DOMAIN user_states' \subseteq Uid
         /\ user_states' \in [DOMAIN user_states' -> State]
         /\ \A v \in Uid : At(v)' = IF v = u THEN st ELSE At(v)
BY DEF TypeOK, Put, At, DefaultState

\* A partial write keeps the rest of the state.
LEMMA SetStatusState ==
  ASSUME TypeOK, NEW u \in Uid, NEW st \in Status
  PROVE  /\ [At(u) EXCEPT !.status = st] \in State
         /\ [At(u) EXCEPT !.status = st].us = At(u).us
BY AtType DEF State

\* Invalidation drops the entries of its user and keeps the others.
LEMMA InvalidateEffect ==
  ASSUME TypeOK, NEW u \in Uid, Invalidate(u)
  PROVE  /\ tmpc__' \in [Uid -> [CT -> SUBSET SUBSET Channel]]
         /\ \A v \in Uid, ct \in CT :
              tmpc__'[v][ct] = IF v = u THEN {} ELSE tmpc__[v][ct]
BY DEF TypeOK, Invalidate

\* part_channels of a known user writes that user's state.
LEMMA PartAt ==
  ASSUME TypeOK, NEW u \in DOMAIN user_states,
         NEW chans \in SUBSET Channel, NEW ct \in CT,
         user_states' = [user_states EXCEPT
                           ![u].us = part_channels(@, chans, ct)]
  PROVE  /\ DOMAIN user_states' \subseteq Uid
         /\ user_states' \in [DOMAIN user_states' -> State]
         /\ \A v \in Uid :
              At(v)' = IF v = u
                       THEN [At(u) EXCEPT !.us = part_channels(@, chans, ct)]
                       ELSE At(v)
<1>1. user_states[u] \in State /\ user_states[u].us \in ChannelUs
  BY DEF TypeOK, State
<1>2. part_channels(user_states[u].us, chans, ct) \in ChannelUs
  BY <1>1, MembershipTypes
<1>3. user_states' = [user_states EXCEPT
        ![u] = [user_states[u] EXCEPT !.us = part_channels(user_states[u].us, chans, ct)]]
  OBVIOUS
<1>4. [user_states[u] EXCEPT !.us = part_channels(user_states[u].us, chans, ct)] \in State
  BY <1>1, <1>2 DEF State
<1>5. DOMAIN user_states' = DOMAIN user_states
  BY <1>3
<1>6. user_states' \in [DOMAIN user_states -> State]
  BY <1>3, <1>4 DEF TypeOK
<1>7. \A v \in Uid : At(v)' = IF v = u
                       THEN [At(u) EXCEPT !.us = part_channels(@, chans, ct)]
                       ELSE At(v)
  BY <1>3, <1>5 DEF At, TypeOK, DefaultState
<1> QED
  BY <1>5, <1>6, <1>7 DEF TypeOK

\* Removing a user makes its lookup the default and keeps the others.
LEMMA RemoveAt ==
  ASSUME TypeOK, NEW u \in Uid,
         user_states' = [v \in DOMAIN user_states \ {u} |-> user_states[v]]
  PROVE  /\ DOMAIN user_states' \subseteq Uid
         /\ user_states' \in [DOMAIN user_states' -> State]
         /\ \A v \in Uid : At(v)' = IF v = u THEN DefaultState ELSE At(v)
BY DEF TypeOK, At, DefaultState
-----------------------------------------------------------------------------
(* Type correctness and cache coherence, one step per method.              *)

Inv == TypeOK /\ CacheCoherent

\* A step that empties an entry, or keeps it with the channels it was
\* computed from, keeps the cache coherent.
LEMMA CoherentStep ==
  ASSUME CacheCoherent,
         \A v \in Uid, ct \in CT :
            \/ tmpc__'[v][ct] = {}
            \/ tmpc__'[v][ct] = tmpc__[v][ct] /\ At(v)'.us = At(v).us
  PROVE  CacheCoherent'
BY DEF CacheCoherent

\* The cache that answers the membership queries is never stale.
THEOREM CacheIsCoherent == Spec => [](TypeOK /\ CacheCoherent)
<1>1. Init => Inv
  BY DEF Init, Inv, TypeOK, CacheCoherent
<1>2. Inv /\ [Next]_vars => Inv'
  <2> SUFFICES ASSUME Inv, [Next]_vars
               PROVE  Inv'
    OBVIOUS
  <2> USE DEF Inv
  <2>1. ASSUME NEW u \in Uid, NEW st \in State, set_user_state(u, st)
        PROVE  Inv'
    BY <2>1, PutAt, InvalidateEffect DEF set_user_state, TypeOK, CacheCoherent
  <2>2. ASSUME NEW u \in Uid, get_user_state(u)
        PROVE  Inv'
    BY <2>2, PutAt, AtType DEF get_user_state, TypeOK, CacheCoherent
  <2>3. ASSUME NEW u \in Uid, NEW st \in Status, set_status(u, st)
        PROVE  Inv'
    <3>1. /\ [At(u) EXCEPT !.status = st] \in State
          /\ [At(u) EXCEPT !.status = st].us = At(u).us
      BY SetStatusState
    <3>2. Put(u, [At(u) EXCEPT !.status = st]) /\ UNCHANGED <<tmpc__, ret>>
      BY <2>3 DEF set_status
    <3>3. \A v \in Uid : At(v)'.us = At(v).us
      BY <3>1, <3>2, PutAt
    <3>4. TypeOK'
      BY <3>1, <3>2, PutAt DEF TypeOK
    <3>5. CacheCoherent'
      BY <3>2, <3>3, CoherentStep
    <3> QED
      BY <3>4, <3>5
  <2>4. ASSUME NEW u \in Uid, NEW chans \in SUBSET Channel, NEW ct \in CT,
               PartChannels(u, chans, ct)
        PROVE  Inv'
    <3>1. CASE u \notin DOMAIN user_states
      <4>1. ret' = {} /\ user_states' = user_states
        BY <2>4, <3>1 DEF PartChannels
      <4> QED
        BY <2>4, <4>1, InvalidateEffect
           DEF PartChannels, TypeOK, CacheCoherent, At
    <3>2. CASE u \in DOMAIN user_states
      <4>1. /\ ret' = parted_channels(user_states[u].us, chans, ct)
            /\ user_states' = [user_states EXCEPT
                                 ![u].us = part_channels(@, chans, ct)]
        BY <2>4, <3>2 DEF PartChannels
      <4>2. ret' \in SUBSET Channel
        BY <4>1 DEF parted_channels, export_channels
      <4>3. TypeOK'
        BY <2>4, <3>2, <4>1, <4>2, PartAt, InvalidateEffect DEF PartChannels, TypeOK
      <4>4. \A v \in Uid \ {u} : At(v)' = At(v)
        BY <3>2, <4>1, PartAt
      <4>5. \A v \in Uid, d \in CT :
              tmpc__'[v][d] = IF v = u THEN {} ELSE tmpc__[v][d]
        BY <2>4, InvalidateEffect DEF PartChannels
      <4>6. CacheCoherent'
        BY <4>4, <4>5, CoherentStep
      <4> QED
        BY <4>3, <4>6
    <3> QED
      BY <3>1, <3>2
  <2>5. ASSUME NEW u \in Uid, remove(u)
        PROVE  Inv'
    BY <2>5, RemoveAt, InvalidateEffect DEF remove, TypeOK, CacheCoherent
  <2>6. ASSUME NEW u \in Uid, NEW ct \in CT, get_user_channel(u, ct)
        PROVE  Inv'
    <3>1. CASE ret' \in tmpc__[u][ct] /\ UNCHANGED <<user_states, tmpc__>>
      BY <3>1 DEF TypeOK, CacheCoherent, At
    <3>2. CASE /\ tmpc__[u][ct] = {}
               /\ ret' = get_channel(At(u).us, ct)
               /\ tmpc__' = [tmpc__ EXCEPT ![u][ct] = {get_channel(At(u).us, ct)}]
               /\ Put(u, At(u))
      <4>1. \A v \in Uid : At(v)' = At(v)
        BY <3>2, PutAt, AtType
      <4>2. TypeOK'
        BY <3>2, PutAt, AtType, GetChannelType DEF TypeOK
      <4>3. \A v \in Uid, d \in CT :
              tmpc__'[v][d] = IF v = u /\ d = ct THEN {get_channel(At(u).us, ct)}
                                                 ELSE tmpc__[v][d]
        BY <3>2 DEF TypeOK
      <4>4. CacheCoherent'
        BY <4>1, <4>3 DEF CacheCoherent
      <4> QED
        BY <4>2, <4>4
    <3> QED
      BY <2>6, <3>1, <3>2 DEF get_user_channel
  <2>7. CASE UNCHANGED vars
    BY <2>7 DEF vars, TypeOK, CacheCoherent, At
  <2> QED
    BY <2>1, <2>2, <2>3, <2>4, <2>5, <2>6, <2>7 DEF Next
<1> QED
  BY <1>1, <1>2, PTL DEF Spec, Inv
-----------------------------------------------------------------------------
(* Refinement: every method of the cached map is one of the plain map.     *)

\* The plain map holds a state for every user.
LEMMA StateOfType ==
  ASSUME TypeOK
  PROVE  StateOf \in [Uid -> State]
BY AtType DEF StateOf

\* The plain map uses the same operators on membership maps.
LEMMA AbsOperators ==
  /\ Abs!DefaultState = DefaultState
  /\ \A us, ct : Abs!get_channel(us, ct) = get_channel(us, ct)
  /\ \A us, chans, ct :
       /\ Abs!part_channels(us, chans, ct) = part_channels(us, chans, ct)
       /\ Abs!parted_channels(us, chans, ct) = parted_channels(us, chans, ct)
  /\ Abs!ChannelUs = ChannelUs
  /\ Abs!CT = CT
BY DEF Abs!DefaultState, DefaultState, Abs!NoChannels, NoChannels,
       Abs!get_channel, get_channel, Abs!part_channels, part_channels,
       Abs!parted_channels, parted_channels, Abs!export_channels,
       export_channels, Abs!ChannelUs, Abs!CT

\* What a caller of __global_state sees is what a map without a cache shows.
THEOREM CachedMapImplementsMap == Spec => AbsSpec
<1>1. Init => Abs!Init
  BY AbsOperators DEF Init, Abs!Init, StateOf, At
<1>2. Inv /\ [Next]_vars => [Abs!Next]_(Abs!vars)
  <2> SUFFICES ASSUME Inv, [Next]_vars
               PROVE  [Abs!Next]_(Abs!vars)
    OBVIOUS
  <2> USE DEF Inv
  <2>0. StateOf \in [Uid -> State]
    BY StateOfType
  <2>a. ASSUME NEW u \in Uid, NEW st \in State,
               \A v \in Uid : At(v)' = IF v = u THEN st ELSE At(v),
               ret' = ret
        PROVE  Abs!Next
    <3>1. StateOf' = [StateOf EXCEPT ![u] = st]
      BY <2>a DEF StateOf
    <3>2. Abs!Write(u)
      BY <2>a, <3>1, AbsOperators DEF Abs!Write, State
    <3> QED
      BY <3>2, AbsOperators DEF Abs!Next
  <2>1. ASSUME NEW u \in Uid, NEW st \in State, set_user_state(u, st)
        PROVE  Abs!Next
    BY <2>1, <2>a, PutAt DEF set_user_state
  <2>2. ASSUME NEW u \in Uid, get_user_state(u)
        PROVE  Abs!Next
    BY <2>2, <2>a, PutAt, AtType DEF get_user_state
  <2>3. ASSUME NEW u \in Uid, NEW st \in Status, set_status(u, st)
        PROVE  Abs!Next
    BY <2>3, <2>a, PutAt, SetStatusState DEF set_status
  <2>4. ASSUME NEW u \in Uid, NEW chans \in SUBSET Channel, NEW ct \in CT,
               PartChannels(u, chans, ct)
        PROVE  Abs!Next
    <3>1. Abs!Part(u, chans, ct)
      <4>1. CASE u \notin DOMAIN user_states
        <5>1. ret' = {} /\ user_states' = user_states
          BY <2>4, <4>1 DEF PartChannels
        <5>2. StateOf[u] = DefaultState /\ StateOf' = StateOf
          BY <4>1, <5>1 DEF StateOf, At, DefaultState
        <5>3. part_channels(NoChannels, chans, ct) = NoChannels
          BY DEF part_channels, NoChannels
        <5>4. parted_channels(NoChannels, chans, ct) = {}
          BY <5>3 DEF parted_channels
        <5>5. DefaultState.us = NoChannels
          BY DEF DefaultState
        <5>6. [StateOf EXCEPT ![u].us = part_channels(@, chans, ct)] = StateOf
          BY <2>0, <5>2, <5>3, <5>5 DEF State
        <5> QED
          BY <5>1, <5>2, <5>4, <5>5, <5>6, AbsOperators DEF Abs!Part
      <4>2. CASE u \in DOMAIN user_states
        <5>1. /\ ret' = parted_channels(user_states[u].us, chans, ct)
              /\ user_states' = [user_states EXCEPT
                                   ![u].us = part_channels(@, chans, ct)]
          BY <2>4, <4>2 DEF PartChannels
        <5>2. StateOf[u] = user_states[u]
          BY <4>2 DEF StateOf, At
        <5>3. \A v \in Uid :
                At(v)' = IF v = u
                         THEN [At(u) EXCEPT !.us = part_channels(@, chans, ct)]
                         ELSE At(v)
          BY <4>2, <5>1, PartAt
        <5>4. StateOf' = [StateOf EXCEPT ![u].us = part_channels(@, chans, ct)]
          BY <5>3 DEF StateOf
        <5> QED
          BY <5>1, <5>2, <5>4, AbsOperators DEF Abs!Part
      <4> QED
        BY <4>1, <4>2
    <3> QED
      BY <3>1, AbsOperators DEF Abs!Next
  <2>5. ASSUME NEW u \in Uid, remove(u)
        PROVE  Abs!Next
    <3>1. DefaultState \in State
      BY DEF DefaultState, State, NoChannels
    <3> QED
      BY <2>5, <3>1, <2>a, RemoveAt DEF remove
  <2>6. ASSUME NEW u \in Uid, NEW ct \in CT, get_user_channel(u, ct)
        PROVE  Abs!Next
    <3>1. ret' = get_channel(At(u).us, ct)
      BY <2>6 DEF get_user_channel, CacheCoherent
    <3>2. \A v \in Uid : At(v)' = At(v)
      BY <2>6, PutAt, AtType DEF get_user_channel, At
    <3>3. StateOf' = StateOf /\ StateOf[u] = At(u)
      BY <3>2 DEF StateOf
    <3>4. Abs!Query(u, ct)
      BY <3>1, <3>3, AbsOperators DEF Abs!Query
    <3> QED
      BY <3>4, AbsOperators DEF Abs!Next
  <2>7. CASE UNCHANGED vars
    BY <2>7 DEF vars, Abs!vars, StateOf, At
  <2> QED
    BY <2>1, <2>2, <2>3, <2>4, <2>5, <2>6, <2>7 DEF Next
<1>3. Spec => []Inv
  BY CacheIsCoherent DEF Inv
<1> QED
  BY <1>1, <1>2, <1>3, PTL DEF Spec, AbsSpec, Abs!Spec
=============================================================================
