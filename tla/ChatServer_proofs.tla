--------------------------- MODULE ChatServer_proofs ---------------------------
(***************************************************************************)
(* What the helpers of the chat thread return, and proofs about ChatServer,*)
(* for any users, channels and clients.                                    *)
(***************************************************************************)
EXTENDS ChatServerProps, UserState_proofs

USE DEF lostVars, Lost

GoodObj == {o \in UserObj : OneWwwChannel(o.us)}
Mark == Status \cup {"clean", "live"}

\* The initial objects are what their types say.
LEMMA InitialTypes ==
  /\ NoUser \in GoodObj
  /\ NoUser.us = NoChannels
  /\ LiveViewer \in Viewer
  /\ SeesNobody \in [Uid -> Seen]
  /\ NoClient \in Client
  /\ Out \in Entry
  /\ Same \in Entry
  /\ NoState \in GState
  /\ NoState.us = NoChannels
<1>1. NoChannels \in ChannelUs /\ OneWwwChannel(NoChannels)
  BY MembershipTypes, OneWwwKept
<1>2. NoUser \in GoodObj /\ NoUser.us = NoChannels
  BY <1>1 DEF NoUser, GoodObj, UserObj, Status
<1>3. LiveViewer \in Viewer
  BY DEF LiveViewer, Viewer, Status
<1>4. SeesNobody \in [Uid -> Seen]
  BY DEF SeesNobody, Seen
<1>5. NoClient \in Client
  BY <1>3, <1>4 DEF NoClient, Client
<1>6. Out \in Entry
  BY <1>3, <1>4 DEF Out, Entry
<1>7. Same \in Entry
  BY <1>6 DEF Same, Entry
<1>8. NoState \in GState /\ NoState.us = NoChannels
  BY <1>1 DEF NoState, GState
<1> QED
  BY <1>2, <1>3, <1>4, <1>5, <1>6, <1>7, <1>8

\* get_user_p answers an object whose user is in one web channel at most, and
\* in none if it had to be loaded.
LEMMA UserFound ==
  ASSUME TypeOK, WwwExclusive, NEW u \in Uid
  PROVE  /\ get_user_p(u) \in GoodObj
         /\ preload_user(u) \in GoodObj
         /\ preload_user(u).us = NoChannels
         /\ get_user_p(u).us = users[u].us
<1>1. users \in [Uid -> UserObj] /\ profile[u] \in SUBSET Modes
  BY DEF TypeOK, UsersOK, SharedOK
<1>2. preload_user(u) \in GoodObj /\ preload_user(u).us = NoChannels
  BY <1>1, InitialTypes DEF preload_user, GoodObj, UserObj
<1>3. users[u] \in GoodObj
  BY <1>1 DEF GoodObj, WwwExclusive
<1>4. u \notin loaded => users[u].us = NoChannels
  BY InitialTypes DEF TypeOK, UsersOK
<1> QED
  BY <1>2, <1>3, <1>4 DEF get_user_p

\* A join leaves the web client in one channel.
LEMMA JoinedGood ==
  ASSUME NEW obj \in GoodObj, NEW ct \in CT, NEW ch \in Channel,
         NEW status \in Status
  PROVE  /\ Joined(obj, ct, ch, status) \in GoodObj
         /\ \A c \in Channel \ {ch} :
              Joined(obj, ct, ch, status).us[c] \subseteq obj.us[c]
<1> DEFINE new == IF ct = "irc" THEN channel_add(obj.us, "irc", ch)
                  ELSE www_channel_replace(obj.us, ch)
<1>1. obj.us \in ChannelUs /\ OneWwwChannel(obj.us) /\ obj \in UserObj
  BY DEF GoodObj, UserObj
<1>2. new \in ChannelUs /\ OneWwwChannel(new)
  BY <1>1, MembershipTypes, OneWwwKept DEF CT
<1>3. \A c \in Channel \ {ch} : new[c] \subseteq obj.us[c]
  BY <1>1, JoinMoves
<1>4. Joined(obj, ct, ch, status) = [obj EXCEPT !.status = status, !.us = new]
  BY DEF Joined
<1> HIDE DEF new
<1> QED
  BY <1>1, <1>2, <1>3, <1>4 DEF GoodObj, UserObj

\* A part leaves the web client where it was or nowhere.
LEMMA PartedGood ==
  ASSUME NEW obj \in GoodObj, NEW ct \in CT, NEW chans \in SUBSET Channel
  PROVE  /\ [obj EXCEPT !.us = part_channels(@, chans, ct)] \in GoodObj
         /\ \A c \in Channel :
              [obj EXCEPT !.us = part_channels(@, chans, ct)].us[c] \subseteq obj.us[c]
<1> DEFINE new == part_channels(obj.us, chans, ct)
<1>1. obj.us \in ChannelUs /\ OneWwwChannel(obj.us) /\ obj \in UserObj
  BY DEF GoodObj, UserObj
<1>2. new \in ChannelUs /\ OneWwwChannel(new)
  BY <1>1, MembershipTypes, OneWwwKept
<1>3. \A c \in Channel : new[c] \subseteq obj.us[c]
  BY <1>1, PartMoves
<1> HIDE DEF new
<1>4. [obj EXCEPT !.us = new] \in GoodObj /\ [obj EXCEPT !.us = new].us = new
  BY <1>1, <1>2 DEF GoodObj, UserObj
<1> QED
  BY <1>3, <1>4 DEF new

\* A write to the status or the modes leaves the memberships alone.
LEMMA FieldsGood ==
  ASSUME NEW obj \in GoodObj
  PROVE  /\ \A st \in Status :
              /\ [obj EXCEPT !.status = st] \in GoodObj
              /\ [obj EXCEPT !.status = st].us = obj.us
         /\ \A ms \in SUBSET Modes :
              /\ [obj EXCEPT !.modes = ms] \in GoodObj
              /\ [obj EXCEPT !.modes = ms].us = obj.us
BY DEF GoodObj, UserObj

\* What goes into global_state.
LEMMA StateOfType ==
  ASSUME NEW obj \in GoodObj
  PROVE  StateOf(obj) \in GState /\ StateOf(obj).us = obj.us
BY DEF StateOf, GState, GoodObj, UserObj
-----------------------------------------------------------------------------
\* The dirty marks stay marks.
LEMMA MarkTypes ==
  ASSUME NEW d \in [Channel -> [Uid -> Mark]], NEW u \in Uid
  PROVE  /\ \A st \in Status : OrphanDirty(d, u, st) \in [Channel -> [Uid -> Mark]]
         /\ \A chs : dirty = d => MarkDirty(chs, u) \in [Channel -> [Uid -> Mark]]
BY DEF OrphanDirty, MarkDirty, Mark

\* An instance is found or created.
LEMMA ClientFound ==
  ASSUME local_clients \in [Key -> Client], NEW k \in Key
  PROVE  ClientOf(k) \in Client
BY InitialTypes DEF ClientOf, Client

\* A viewer's object frozen by value is a viewer.
LEMMA FreezeType ==
  ASSUME users \in [Uid -> UserObj], NEW u \in Uid, NEW usr \in Viewer
  PROVE  Freeze(usr, u) \in Viewer
BY DEF Freeze, Viewer, UserObj

\* Clients that lose their user's object stay clients.
LEMMA OrphanTypes ==
  ASSUME users \in [Uid -> UserObj], local_clients \in [Key -> Client],
         localIn \in [Channel -> [Key -> Entry]], NEW u \in Uid
  PROVE  /\ OrphanClients(u) \in [Key -> Client]
         /\ OrphanEntries(u) \in [Channel -> [Key -> Entry]]
<1>1. \A usr \in Viewer : Freeze(usr, u) \in Viewer
  BY FreezeType
<1>2. \A k \in Key : [local_clients[k] EXCEPT !.usr = Freeze(@, u)] \in Client
  BY <1>1 DEF Client
<1>3. \A e \in Entry : [e EXCEPT !.usr = Freeze(@, u)] \in Entry
  BY <1>1 DEF Entry
<1> QED
  BY <1>2, <1>3 DEF OrphanClients, OrphanEntries

\* The index and the counts stay maps of entries and of users.
LEMMA NormalizeTypes ==
  ASSUME localIn \in [Channel -> [Key -> Entry]], usersIn \in [Channel -> SUBSET Uid],
         NEW k \in Key, NEW obj, NEW clients
  PROVE  /\ normalize_users(k, obj, clients) \in [Channel -> SUBSET Uid]
         /\ normalize_local(k, obj, clients) \in [Channel -> [Key -> Entry]]
<1>1. k[1] \in Uid
  BY DEF Key
<1>2. normalize_users(k, obj, clients) \in [Channel -> SUBSET Uid]
  BY <1>1 DEF normalize_users
<1>3. \A c \in Channel, e \in Entry :
        [localIn[c] EXCEPT ![k] = e] \in [Key -> Entry]
  OBVIOUS
<1>4. normalize_local(k, obj, clients) \in [Channel -> [Key -> Entry]]
  BY <1>3, InitialTypes DEF normalize_local
<1> QED
  BY <1>2, <1>4

\* Every list shows statuses or nothing.
LEMMA ListTypes ==
  ASSUME NEW objs \in [Uid -> UserObj], NEW v \in Uid, NEW ch \in Channel,
         NEW cl \in Client, NEW ld
  PROVE  /\ nofix_list(cl, v, ch, objs, ld) \in [Uid -> Seen]
         /\ fix_list(cl, v, ch, objs, ld) \in [Uid -> Seen]
<1>1. \A z \in Uid : objs[z].status \in Seen
  BY DEF UserObj, Seen
<1>2. cl.usr.status \in Seen /\ cl.vis[ch] \in [Uid -> Seen]
  BY DEF Client, Viewer, Seen
<1>3. "unseen" \in Seen
  BY DEF Seen
<1>4. nofix_list(cl, v, ch, objs, ld) \in [Uid -> Seen]
  BY <1>1, <1>2, <1>3 DEF nofix_list
<1>5. fix_list(cl, v, ch, objs, ld) \in [Uid -> Seen]
  BY <1>1, <1>2, <1>3 DEF fix_list
<1> QED
  BY <1>4, <1>5

\* A refreshed list is a list.
LEMMA RefreshedType ==
  ASSUME users \in [Uid -> UserObj], dirty \in [Channel -> [Uid -> Mark]],
         NEW c \in Channel, NEW v \in Uid, NEW usr, NEW vis \in [Uid -> Seen]
  PROVE  refreshed(vis, c, v, usr) \in [Uid -> Seen]
<1>1. \A z \in Uid : dirty[c][z] # "clean" => DirtyStatus(c, z) \in Seen
  BY DEF DirtyStatus, Mark, UserObj, Seen
<1>2. "unseen" \in Seen
  BY DEF Seen
<1> QED
  BY <1>1, <1>2 DEF refreshed
-----------------------------------------------------------------------------
\* Only the chat thread itself pushes JOIN_CHANNEL, the echo of a JOIN.
AskedEvent == {e \in ChatEvent : e.type # "JOIN_CHANNEL"}

\* The copies of a user's state that web pages are about to write back are in
\* one web channel at most: without it WwwExclusive is not inductive.
SafeStep == {s \in RequestStep :
               /\ s.op = "set_user_state" => OneWwwChannel(s.state.us)
               /\ s.op \in {"push", "update"} => s.event \in AskedEvent}

Inv ==
  /\ TypeOK
  /\ WwwExclusive
  /\ TrashIsIdle
  /\ JoinTimeCovers
  /\ pend \in [Thread -> Seq(SafeStep)]

\* Inv but for the types of the queues.
ThreadInv ==
  /\ UsersOK
  /\ ClientsOK
  /\ gstate \in [Uid -> GState]
  /\ WwwExclusive
  /\ TrashIsIdle
  /\ JoinTimeCovers
-----------------------------------------------------------------------------
(* The queues.                                                             *)

\* A queue of safe steps is a queue of steps.
LEMMA SafeSteps == \A s \in Seq(SafeStep) : s \in Seq(RequestStep)
BY DEF SafeStep

\* What each type of event carries.
LEMMA EventFields ==
  ASSUME NEW e \in ChatEvent
  PROVE  /\ e.uid \in Uid
         /\ e.type \in {"JOIN", "JOIN_CHANNEL"} =>
              /\ e.ct \in CT
              /\ e.ch \in Channel
              /\ e.status \in Status
              /\ [e EXCEPT !.type = "JOIN_CHANNEL"] \in ChatEvent
         /\ e.type = "PART_CHANNEL" => e.ct \in CT /\ e.chans \in SUBSET Channel
         /\ e.type = "SET_STATUS" => e.status \in Status
         /\ e.type = "CHANGE_CONTACT_MODE" => e.mode \in Modes
         /\ e.type = "UPDATE_DATA" =>
              \/ e.field = "status" /\ e.status \in Status
              \/ e.field = "mode" /\ e.mode \in Modes
         /\ e.type = "UPDATE_CONTACT_LIST" => e.ct \in CT
         /\ e.type = "CHAT_MESSAGES2" => e.ch \in Channel
BY DEF ChatEvent

\* The event in hand is an event.
LEMMA EventInHand ==
  ASSUME TypeOK, NEW type, Event(type)
  PROVE  E \in ChatEvent /\ E.type = type /\ batch > 0
BY DEF TypeOK, QueuesOK, E, Event

\* Handling an event leaves well-formed queues.
LEMMA QueuesHandled ==
  ASSUME TypeOK, batch > 0,
         NEW pushed \in Seq(ChatEvent),
         chat_events' = Tail(chat_events) \o pushed, batch' = batch - 1
  PROVE  chat_events' \in Seq(ChatEvent) /\ batch' \in 0..Len(chat_events')
<1>1. chat_events \in Seq(ChatEvent) /\ batch \in 0..Len(chat_events)
  BY DEF TypeOK, QueuesOK
<1>2. Tail(chat_events) \in Seq(ChatEvent) /\ Len(Tail(chat_events)) = Len(chat_events) - 1
  BY <1>1
<1>3. Len(Tail(chat_events) \o pushed) = Len(chat_events) - 1 + Len(pushed)
  BY <1>2
<1> QED
  BY <1>1, <1>2, <1>3
-----------------------------------------------------------------------------
(* The users of the chat thread and their copies in global_state.          *)

\* What a handler does to the users when it writes a good object: either the
\* accounting follows, or the memberships have not changed.
LEMMA UserWritten ==
  ASSUME TypeOK, WwwExclusive, TrashIsIdle, JoinTimeCovers,
         NEW u \in Uid, NEW obj \in GoodObj,
         SetUser(u, obj), Lost' \subseteq Uid,
         \/ handle_stat_t_count(u, obj)
         \/ obj.us = users[u].us /\ UNCHANGED <<join_time, trash>>
  PROVE  /\ UsersOK'
         /\ \A v \in Uid : OneWwwChannel(users'[v].us)
         /\ TrashIsIdle'
         /\ JoinTimeCovers'
<1>1. /\ users' = [users EXCEPT ![u] = obj]
      /\ loaded' = loaded \cup {u}
      /\ users \in [Uid -> UserObj]
      /\ obj \in UserObj /\ OneWwwChannel(obj.us)
      /\ obj.us \in ChannelUs
      /\ loaded \subseteq Uid /\ join_time \subseteq Uid /\ trash \subseteq Uid
  BY DEF SetUser, TypeOK, UsersOK, GoodObj, UserObj
<1>2. join_time' \subseteq Uid /\ trash' \subseteq Uid
  BY <1>1 DEF handle_stat_t_count
<1>3. UsersOK'
  BY <1>1, <1>2 DEF UsersOK, TypeOK
<1>4. \A v \in Uid : OneWwwChannel(users'[v].us)
  BY <1>1 DEF WwwExclusive
<1>5. TrashIsIdle'
  BY <1>1, NotInChannels DEF TrashIsIdle, handle_stat_t_count
<1>6. JoinTimeCovers'
  <2>1. u \notin loaded => users[u].us = NoChannels
    BY InitialTypes DEF TypeOK, UsersOK
  <2>2. ~ InSomeChannel(NoChannels)
    BY NotInChannels, MembershipTypes
  <2> QED
    BY <1>1, <2>1, <2>2 DEF JoinTimeCovers, handle_stat_t_count
<1> QED
  BY <1>3, <1>4, <1>5, <1>6

\* What it does to global_state.
LEMMA GlobalWritten ==
  ASSUME TypeOK, WwwExclusive, NEW u \in Uid,
         \/ UNCHANGED gstate
         \/ \E obj \in GoodObj : Publish(u, obj)
         \/ PublishIfPreloaded(u)
         \/ Forget(u)
  PROVE  /\ gstate' \in [Uid -> GState]
         /\ \A v \in Uid : OneWwwChannel(gstate'[v].us)
<1>1. gstate \in [Uid -> GState] /\ \A v \in Uid : OneWwwChannel(gstate[v].us)
  BY DEF TypeOK, SharedOK, WwwExclusive
<1>2. \A st \in GState : OneWwwChannel(st.us) =>
        /\ [gstate EXCEPT ![u] = st] \in [Uid -> GState]
        /\ \A v \in Uid : OneWwwChannel([gstate EXCEPT ![u] = st][v].us)
  BY <1>1
<1>3. \A obj \in GoodObj : StateOf(obj) \in GState /\ OneWwwChannel(StateOf(obj).us)
  BY StateOfType DEF GoodObj
<1>4. NoState \in GState /\ OneWwwChannel(NoState.us)
  BY InitialTypes, OneWwwKept
<1>5. preload_user(u) \in GoodObj
  BY UserFound
<1> QED
  BY <1>1, <1>2, <1>3, <1>4, <1>5 DEF Publish, PublishIfPreloaded, Forget

\* The two halves of WwwExclusive.
LEMMA ExclusiveFrom ==
  ASSUME \A v \in Uid : OneWwwChannel(users'[v].us),
         \A v \in Uid : OneWwwChannel(gstate'[v].us)
  PROVE  WwwExclusive'
BY DEF WwwExclusive
-----------------------------------------------------------------------------
(* The handlers.                                                           *)

\* Everything the joins of one event write, for any choice of instances.
LEMMA JoinKeeps ==
  ASSUME Inv, NEW k \in Key, NEW ch \in Channel, NEW st \in Status,
         NEW clients, on_JOIN_fix_lists(k, ch, st, clients)
  PROVE  /\ UsersOK' /\ TrashIsIdle' /\ JoinTimeCovers' /\ WwwExclusive'
         /\ gstate' \in [Uid -> GState]
         /\ localIn' \in [Channel -> [Key -> Entry]]
         /\ usersIn' \in [Channel -> SUBSET Uid]
         /\ dirty' \in [Channel -> [Uid -> Mark]]
         /\ marked' \in BOOLEAN
<1> DEFINE u == k[1]
           new == Joined(get_user_p(u), k[2], ch, st)
<1>1. u \in Uid /\ k[2] \in CT
  BY DEF Key
<1>2. new \in GoodObj
  BY <1>1, UserFound, JoinedGood DEF Inv
<1>3. /\ SetUser(u, new)
      /\ Publish(u, new)
      /\ normalize_user_channels(k, new, clients)
      /\ \E chs : update_contact_list_all(chs, u)
      /\ handle_stat_t_count(u, new)
      /\ UNCHANGED lostVars
  BY DEF on_JOIN_fix_lists
<1> HIDE DEF new, u
<1>4. Lost' \subseteq Uid
  BY <1>3 DEF Inv, TypeOK, UsersOK
<1>5. UsersOK' /\ TrashIsIdle' /\ JoinTimeCovers' /\ \A v \in Uid : OneWwwChannel(users'[v].us)
  BY <1>1, <1>2, <1>3, <1>4, UserWritten DEF Inv
<1>6. gstate' \in [Uid -> GState] /\ \A v \in Uid : OneWwwChannel(gstate'[v].us)
  BY <1>1, <1>2, <1>3, GlobalWritten DEF Inv
<1>7. WwwExclusive'
  BY <1>5, <1>6, ExclusiveFrom
<1>8. localIn' \in [Channel -> [Key -> Entry]] /\ usersIn' \in [Channel -> SUBSET Uid]
  BY <1>3, NormalizeTypes DEF normalize_user_channels, Inv, TypeOK, ClientsOK
<1>9. dirty' \in [Channel -> [Uid -> Mark]] /\ marked' \in BOOLEAN
  BY <1>1, <1>3, MarkTypes DEF update_contact_list_all, Inv, TypeOK, ClientsOK, Mark
<1> QED
  BY <1>5, <1>6, <1>7, <1>8, <1>9

\* A handler that touches neither the clients nor the index, and marks lists
\* or none: do_SET_STATUS, do_SET_NICK, do_CHANGE_CONTACT_MODE.
LEMMA UserEventKeeps ==
  ASSUME Inv, NEW u \in Uid, NEW obj \in GoodObj,
         SetUser(u, obj),
         obj.us = users[u].us,
         Publish(u, obj) \/ PublishIfPreloaded(u),
         handle_stat_t_count(u, obj) \/ UNCHANGED <<join_time, trash>>,
         (\E chs : update_contact_list_all(chs, u)) \/ UNCHANGED <<dirty, marked>>,
         UNCHANGED <<local_clients, localIn, usersIn, lostVars>>
  PROVE  ThreadInv'
<1>1. Lost' \subseteq Uid
  BY DEF Inv, TypeOK, UsersOK
<1>2. UsersOK' /\ TrashIsIdle' /\ JoinTimeCovers' /\ \A v \in Uid : OneWwwChannel(users'[v].us)
  BY <1>1, UserWritten DEF Inv
<1>3. gstate' \in [Uid -> GState] /\ \A v \in Uid : OneWwwChannel(gstate'[v].us)
  BY GlobalWritten DEF Inv
<1>4. WwwExclusive'
  BY <1>2, <1>3, ExclusiveFrom
<1>5. dirty' \in [Channel -> [Uid -> Mark]] /\ marked' \in BOOLEAN
  <2>1. dirty \in [Channel -> [Uid -> Mark]] /\ marked \in BOOLEAN
    BY DEF Inv, TypeOK, ClientsOK, Mark
  <2>2. \A chs : MarkDirty(chs, u) \in [Channel -> [Uid -> Mark]]
    BY <2>1, MarkTypes
  <2> QED
    BY <2>1, <2>2 DEF update_contact_list_all
<1>6. ClientsOK'
  BY <1>5 DEF ClientsOK, Inv, TypeOK, Mark
<1> QED
  BY <1>2, <1>3, <1>4, <1>6 DEF ThreadInv

LEMMA JOIN_Keeps ==
  ASSUME Inv, on_common_JOIN
  PROVE  ThreadInv'
<1> DEFINE k == <<E.uid, E.ct>>
           clients == [local_clients EXCEPT ![k] = ClientOf(k)]
           list == nofix_list(clients[k], E.uid, E.ch, users', loaded')
<1>1. E.uid \in Uid /\ E.ct \in CT /\ E.ch \in Channel /\ E.status \in Status
  BY EventInHand, EventFields DEF Inv, on_common_JOIN
<1>2. k \in Key
  BY <1>1 DEF Key
<1>3. local_clients \in [Key -> Client]
  BY DEF Inv, TypeOK, ClientsOK
<1>4. clients \in [Key -> Client]
  BY <1>2, <1>3, ClientFound
<1>5. on_JOIN_fix_lists(k, E.ch, E.status, clients)
  BY DEF on_common_JOIN
<1>6. local_clients' = [clients EXCEPT ![k].vis[E.ch] = list]
  BY DEF on_common_JOIN
<1> HIDE DEF k, clients
<1>7. /\ UsersOK' /\ TrashIsIdle' /\ JoinTimeCovers' /\ WwwExclusive'
      /\ gstate' \in [Uid -> GState]
      /\ localIn' \in [Channel -> [Key -> Entry]]
      /\ usersIn' \in [Channel -> SUBSET Uid]
      /\ dirty' \in [Channel -> [Uid -> Mark]]
      /\ marked' \in BOOLEAN
  BY <1>1, <1>2, <1>5, JoinKeeps
<1>8. list \in [Uid -> Seen]
  BY <1>1, <1>2, <1>4, <1>7, ListTypes DEF UsersOK
<1> HIDE DEF list
<1>9. local_clients' \in [Key -> Client]
  BY <1>1, <1>2, <1>4, <1>6, <1>8 DEF Client
<1> QED
  BY <1>7, <1>9 DEF ThreadInv, ClientsOK, Mark

LEMMA JOIN_CHANNEL_Keeps ==
  ASSUME Inv, do_JOIN_CHANNEL
  PROVE  ThreadInv'
<1>1. E.uid \in Uid /\ E.ct \in CT /\ E.ch \in Channel /\ E.status \in Status
  BY EventInHand, EventFields DEF Inv, do_JOIN_CHANNEL
<1>2. <<E.uid, E.ct>> \in Key
  BY <1>1 DEF Key
<1>3. on_JOIN_fix_lists(<<E.uid, E.ct>>, E.ch, E.status, local_clients)
  BY DEF do_JOIN_CHANNEL
<1>4. local_clients' \in [Key -> Client]
  BY DEF do_JOIN_CHANNEL, Inv, TypeOK, ClientsOK
<1> QED
  BY <1>1, <1>2, <1>3, <1>4, JoinKeeps DEF ThreadInv, ClientsOK, Mark

LEMMA PART_CHANNEL_Keeps ==
  ASSUME Inv, do_PART_CHANNEL
  PROVE  ThreadInv'
<1> DEFINE u == E.uid
           new == [get_user_p(u) EXCEPT !.us = part_channels(@, E.chans, E.ct)]
<1>1. E.uid \in Uid /\ E.ct \in CT /\ E.chans \in SUBSET Channel
  BY EventInHand, EventFields DEF Inv, do_PART_CHANNEL
<1>2. new \in GoodObj
  BY <1>1, UserFound, PartedGood DEF Inv
<1>3. /\ SetUser(u, new)
      /\ Publish(u, new)
      /\ normalize_user_channels(<<u, E.ct>>, new, local_clients)
      /\ \E chs : update_contact_list_all(chs, u)
      /\ handle_stat_t_count(u, new)
      /\ UNCHANGED <<local_clients, lostVars>>
  BY DEF do_PART_CHANNEL
<1> HIDE DEF new
<1>4. Lost' \subseteq Uid /\ <<u, E.ct>> \in Key
  BY <1>1, <1>3 DEF Inv, TypeOK, UsersOK, Key
<1>5. UsersOK' /\ TrashIsIdle' /\ JoinTimeCovers' /\ \A v \in Uid : OneWwwChannel(users'[v].us)
  BY <1>1, <1>2, <1>3, <1>4, UserWritten DEF Inv
<1>6. gstate' \in [Uid -> GState] /\ \A v \in Uid : OneWwwChannel(gstate'[v].us)
  BY <1>1, <1>2, <1>3, GlobalWritten DEF Inv
<1>7. WwwExclusive'
  BY <1>5, <1>6, ExclusiveFrom
<1>8. localIn' \in [Channel -> [Key -> Entry]] /\ usersIn' \in [Channel -> SUBSET Uid]
  BY <1>3, <1>4, NormalizeTypes DEF normalize_user_channels, Inv, TypeOK, ClientsOK
<1>9. dirty' \in [Channel -> [Uid -> Mark]] /\ marked' \in BOOLEAN
  BY <1>1, <1>3, MarkTypes DEF update_contact_list_all, Inv, TypeOK, ClientsOK, Mark
<1>10. ClientsOK'
  BY <1>3, <1>8, <1>9 DEF ClientsOK, Inv, TypeOK, Mark
<1> QED
  BY <1>5, <1>6, <1>7, <1>10 DEF ThreadInv

LEMMA SET_STATUS_Keeps ==
  ASSUME Inv, do_SET_STATUS
  PROVE  ThreadInv'
<1> DEFINE u == E.uid
           old == get_user_p(u)
           new == [old EXCEPT !.status = E.status]
<1>1. u \in Uid /\ E.status \in Status
  BY EventInHand, EventFields DEF Inv, do_SET_STATUS
<1>2. old \in GoodObj /\ old.us = users[u].us
  BY <1>1, UserFound DEF Inv
<1>3. new \in GoodObj /\ new.us = old.us
  BY <1>1, <1>2, FieldsGood
<1> HIDE DEF u, old, new
<1>4. UNCHANGED <<local_clients, localIn, usersIn, join_time, trash, lostVars>>
  BY DEF do_SET_STATUS
<1>5. \/ SetUser(u, old) /\ PublishIfPreloaded(u) /\ UNCHANGED <<dirty, marked>>
      \/ /\ SetUser(u, new)
         /\ Publish(u, new)
         /\ \E chs : update_contact_list_all(chs, u)
  BY DEF do_SET_STATUS, u, old, new
<1> QED
  BY <1>1, <1>2, <1>3, <1>4, <1>5, UserEventKeeps

LEMMA SET_NICK_Keeps ==
  ASSUME Inv, do_SET_NICK
  PROVE  ThreadInv'
<1> DEFINE u == E.uid
           obj == get_user_p(u)
<1>1. u \in Uid
  BY EventInHand, EventFields DEF Inv, do_SET_NICK
<1>2. obj \in GoodObj /\ obj.us = users[u].us
  BY <1>1, UserFound DEF Inv
<1> HIDE DEF u, obj
<1>3. UNCHANGED <<local_clients, localIn, usersIn, lostVars>> /\ SetUser(u, obj)
  BY DEF do_SET_NICK, u, obj
<1>4. \/ /\ PublishIfPreloaded(u)
         /\ UNCHANGED <<dirty, marked, join_time, trash>>
      \/ /\ Publish(u, obj)
         /\ \E chs : update_contact_list_all(chs, u)
         /\ handle_stat_t_count(u, obj)
  BY DEF do_SET_NICK, u, obj
<1> QED
  BY <1>1, <1>2, <1>3, <1>4, UserEventKeeps

LEMMA CHANGE_CONTACT_MODE_Keeps ==
  ASSUME Inv, do_CHANGE_CONTACT_MODE
  PROVE  ThreadInv'
<1> DEFINE u == E.uid
           old == get_user_p(u)
           modes == IF E.on THEN old.modes \cup {E.mode} ELSE old.modes \ {E.mode}
           new == [old EXCEPT !.modes = modes]
<1>1. u \in Uid /\ E.mode \in Modes
  BY EventInHand, EventFields DEF Inv, do_CHANGE_CONTACT_MODE
<1>2. old \in GoodObj /\ old.us = users[u].us
  BY <1>1, UserFound DEF Inv
<1>3. modes \in SUBSET Modes
  BY <1>1, <1>2 DEF GoodObj, UserObj
<1>4. new \in GoodObj /\ new.us = old.us
  BY <1>2, <1>3, FieldsGood
<1>5. /\ SetUser(u, new)
      /\ PublishIfPreloaded(u)
      /\ handle_stat_t_count(u, new)
      /\ UNCHANGED <<local_clients, localIn, usersIn, dirty, marked, lostVars>>
  BY DEF do_CHANGE_CONTACT_MODE
<1> HIDE DEF u, old, modes, new
<1> QED
  BY <1>1, <1>2, <1>4, <1>5, UserEventKeeps

\* A user leaves __users$: kick, flush, trash.
LEMMA UserForgotten ==
  ASSUME Inv, NEW u \in Uid,
         loaded' = loaded \ {u}, users' = [users EXCEPT ![u] = NoUser],
         Forget(u),
         Lost' \subseteq Uid, join_time' = join_time, trash' \subseteq trash
  PROVE  /\ UsersOK' /\ TrashIsIdle' /\ JoinTimeCovers' /\ WwwExclusive'
         /\ gstate' \in [Uid -> GState]
<1>1. users \in [Uid -> UserObj] /\ NoUser \in UserObj /\ OneWwwChannel(NoUser.us)
  BY InitialTypes DEF Inv, TypeOK, UsersOK, GoodObj
<1>2. UsersOK'
  BY <1>1 DEF UsersOK, Inv, TypeOK
<1>3. TrashIsIdle'
  BY <1>1, InitialTypes DEF TrashIsIdle, Inv
<1>4. JoinTimeCovers'
  BY <1>1 DEF JoinTimeCovers, Inv
<1>5. \A v \in Uid : OneWwwChannel(users'[v].us)
  BY <1>1 DEF Inv, WwwExclusive
<1>6. gstate' \in [Uid -> GState] /\ \A v \in Uid : OneWwwChannel(gstate'[v].us)
  BY GlobalWritten DEF Inv
<1>7. WwwExclusive'
  BY <1>5, <1>6, ExclusiveFrom
<1> QED
  BY <1>2, <1>3, <1>4, <1>6, <1>7

LEMMA KICK_USER_Keeps ==
  ASSUME Inv, do_KICK_USER
  PROVE  ThreadInv'
<1> DEFINE u == E.uid
           chs == export_channels(get_user_p(u).us)
           hit(c, k) == c \in chs /\ k[1] # u /\ k[2] = "irc"
<1>1. u \in Uid
  BY EventInHand, EventFields DEF Inv, do_KICK_USER
<1>2. /\ local_clients \in [Key -> Client]
      /\ localIn \in [Channel -> [Key -> Entry]]
      /\ usersIn \in [Channel -> SUBSET Uid]
      /\ dirty \in [Channel -> [Uid -> Mark]]
      /\ Lost \subseteq Uid
  BY DEF Inv, TypeOK, UsersOK, ClientsOK, Mark
<1>3. /\ loaded' = loaded \ {u}
      /\ users' = [users EXCEPT ![u] = NoUser]
      /\ Forget(u)
      /\ kicked' = kicked \cup {u} /\ UNCHANGED <<drift, flushed>>
      /\ join_time' = join_time /\ trash' \subseteq trash
  BY DEF do_KICK_USER
<1>4. Lost' \subseteq Uid
  BY <1>1, <1>2, <1>3
<1>5. /\ UsersOK' /\ TrashIsIdle' /\ JoinTimeCovers' /\ WwwExclusive'
      /\ gstate' \in [Uid -> GState]
  BY <1>1, <1>3, <1>4, UserForgotten
<1>6. local_clients' \in [Key -> Client]
  <2> DEFINE Vis(k) == [c \in Channel |->
                         IF hit(c, k) /\ localIn[c][k].in = "same"
                         THEN [local_clients[k].vis[c] EXCEPT ![u] = "unseen"]
                         ELSE local_clients[k].vis[c]]
  <2>1. local_clients' = [k \in Key |-> IF k[1] = u THEN NoClient
                                        ELSE [local_clients[k] EXCEPT !.vis = Vis(k)]]
    BY DEF do_KICK_USER
  <2>2. \A f \in [Uid -> Seen] : [f EXCEPT ![u] = "unseen"] \in [Uid -> Seen]
    BY DEF Seen
  <2>3. \A k \in Key, c \in Channel : local_clients[k].vis[c] \in [Uid -> Seen]
    BY <1>2 DEF Client
  <2>4. \A cl \in Client, w \in [Channel -> [Uid -> Seen]] :
          [cl EXCEPT !.vis = w] \in Client
    BY DEF Client
  <2> HIDE DEF hit, u, chs
  <2>5. \A k \in Key : Vis(k) \in [Channel -> [Uid -> Seen]]
    BY <2>2, <2>3
  <2> HIDE DEF Vis
  <2>6. \A k \in Key : [local_clients[k] EXCEPT !.vis = Vis(k)] \in Client
    BY <1>2, <2>4, <2>5
  <2> QED
    BY <2>1, <2>6, InitialTypes
<1>7. localIn' \in [Channel -> [Key -> Entry]]
  <2>1. \A e \in Entry : [e EXCEPT !.vis[u] = "unseen"] \in Entry
    BY DEF Entry, Seen
  <2>2. localIn' = [c \in Channel |-> [k \in Key |->
          IF k[1] = u THEN Out
          ELSE IF hit(c, k) /\ localIn[c][k].in = "old"
               THEN [localIn[c][k] EXCEPT !.vis[u] = "unseen"]
          ELSE localIn[c][k]]]
    BY DEF do_KICK_USER
  <2> HIDE DEF hit, u
  <2> QED
    BY <1>2, <2>1, <2>2, InitialTypes
<1>8. usersIn' \in [Channel -> SUBSET Uid]
  BY <1>2 DEF do_KICK_USER
<1>9. dirty' \in [Channel -> [Uid -> Mark]] /\ marked' \in BOOLEAN
  <2>1. MarkDirty(chs, u) \in [Channel -> [Uid -> Mark]]
    BY <1>1, <1>2, MarkTypes
  <2>2. get_user_p(u).status \in Status
    BY <1>1, UserFound DEF Inv, GoodObj, UserObj
  <2>3. dirty' = OrphanDirty(MarkDirty(chs, u), u, get_user_p(u).status) /\ marked' = TRUE
    BY DEF do_KICK_USER
  <2> HIDE DEF chs, u
  <2> QED
    BY <1>1, <2>1, <2>2, <2>3, MarkTypes
<1> QED
  BY <1>5, <1>6, <1>7, <1>8, <1>9 DEF ThreadInv, ClientsOK, Mark

LEMMA UPDATE_CONTACT_LIST_Keeps ==
  ASSUME Inv, on_UPDATE_CONTACT_LIST
  PROVE  ThreadInv'
<1> DEFINE u == E.uid
           k == <<u, E.ct>>
           obj == get_user_p(u)
           cl == ClientOf(k)
           lists == [c \in Channel |-> IF obj.us[c] # {}
                                       THEN fix_list(cl, u, c, users', loaded')
                                       ELSE cl.vis[c]]
<1>1. u \in Uid /\ E.ct \in CT
  BY EventInHand, EventFields DEF Inv, on_UPDATE_CONTACT_LIST
<1>2. k \in Key
  BY <1>1 DEF Key
<1>3. cl \in Client /\ local_clients \in [Key -> Client]
  BY <1>2, ClientFound DEF Inv, TypeOK, ClientsOK
<1>4. obj \in GoodObj /\ obj.us = users[u].us
  BY <1>1, UserFound DEF Inv
<1>5. /\ SetUser(u, obj)
      /\ PublishIfPreloaded(u)
      /\ local_clients' = [local_clients EXCEPT ![k] = [cl EXCEPT !.vis = lists]]
      /\ UNCHANGED <<localIn, usersIn, dirty, marked, join_time, trash, lostVars>>
  BY DEF on_UPDATE_CONTACT_LIST
<1> HIDE DEF u, k, obj, cl
<1>6. Lost' \subseteq Uid
  BY <1>5 DEF Inv, TypeOK, UsersOK
<1>7. UsersOK' /\ TrashIsIdle' /\ JoinTimeCovers' /\ \A v \in Uid : OneWwwChannel(users'[v].us)
  BY <1>1, <1>4, <1>5, <1>6, UserWritten DEF Inv
<1>8. gstate' \in [Uid -> GState] /\ \A v \in Uid : OneWwwChannel(gstate'[v].us)
  BY <1>1, <1>5, GlobalWritten DEF Inv
<1>9. WwwExclusive'
  BY <1>7, <1>8, ExclusiveFrom
<1>10. lists \in [Channel -> [Uid -> Seen]]
  <2>1. \A c \in Channel : fix_list(cl, u, c, users', loaded') \in [Uid -> Seen]
    BY <1>1, <1>3, <1>7, ListTypes DEF UsersOK
  <2>2. \A c \in Channel : cl.vis[c] \in [Uid -> Seen]
    BY <1>3 DEF Client
  <2> QED
    BY <2>1, <2>2
<1> HIDE DEF lists
<1>11. [cl EXCEPT !.vis = lists] \in Client
  BY <1>3, <1>10 DEF Client
<1>12. ClientsOK'
  BY <1>2, <1>3, <1>5, <1>11 DEF ClientsOK, Inv, TypeOK
<1> QED
  BY <1>7, <1>8, <1>9, <1>12 DEF ThreadInv

LEMMA CHAT_MESSAGES2_Keeps ==
  ASSUME Inv, on_CHAT_MESSAGES2
  PROVE  ThreadInv'
<1> DEFINE u == E.uid
           k == <<u, "www">>
           obj == get_user_p(u)
<1>1. u \in Uid
  BY EventInHand, EventFields DEF Inv, on_CHAT_MESSAGES2
<1>2. k \in Key
  BY <1>1 DEF Key, CT
<1>3. ClientOf(k) \in Client /\ local_clients \in [Key -> Client]
  BY <1>2, ClientFound DEF Inv, TypeOK, ClientsOK
<1>4. obj \in GoodObj /\ obj.us = users[u].us
  BY <1>1, UserFound DEF Inv
<1>5. /\ SetUser(u, obj)
      /\ PublishIfPreloaded(u) \/ Publish(u, obj)
      /\ UNCHANGED <<join_time, trash>> \/ handle_stat_t_count(u, obj)
      /\ local_clients' = [local_clients EXCEPT ![k] = ClientOf(k)]
      /\ UNCHANGED <<localIn, usersIn, dirty, marked, lostVars>>
  BY DEF on_CHAT_MESSAGES2
<1> HIDE DEF u, k, obj
<1>6. Lost' \subseteq Uid
  BY <1>5 DEF Inv, TypeOK, UsersOK
<1>7. UsersOK' /\ TrashIsIdle' /\ JoinTimeCovers' /\ \A v \in Uid : OneWwwChannel(users'[v].us)
  BY <1>1, <1>4, <1>5, <1>6, UserWritten DEF Inv
<1>8. gstate' \in [Uid -> GState] /\ \A v \in Uid : OneWwwChannel(gstate'[v].us)
  BY <1>1, <1>4, <1>5, GlobalWritten DEF Inv
<1>9. WwwExclusive'
  BY <1>7, <1>8, ExclusiveFrom
<1>10. ClientsOK'
  BY <1>2, <1>3, <1>5 DEF ClientsOK, Inv, TypeOK
<1> QED
  BY <1>7, <1>8, <1>9, <1>10 DEF ThreadInv

LEMMA UPDATE_DATA_Keeps ==
  ASSUME Inv, on_UPDATE_DATA
  PROVE  ThreadInv'
<1> DEFINE u == E.uid
           modes == IF E.on THEN users[u].modes \cup {E.mode} ELSE users[u].modes \ {E.mode}
           new == IF E.field = "status" THEN [users[u] EXCEPT !.status = E.status]
                  ELSE [users[u] EXCEPT !.modes = modes]
<1>1. /\ u \in Uid
      /\ \/ E.field = "status" /\ E.status \in Status
         \/ E.field = "mode" /\ E.mode \in Modes
  BY EventInHand, EventFields DEF Inv, on_UPDATE_DATA
<1>2. users[u] \in GoodObj
  BY <1>1 DEF Inv, TypeOK, UsersOK, WwwExclusive, GoodObj
<1>3. E.mode \in Modes => modes \in SUBSET Modes
  BY <1>2 DEF GoodObj, UserObj
<1>4. new \in GoodObj /\ new.us = users[u].us
  BY <1>1, <1>2, <1>3, FieldsGood
<1>5. /\ \/ u \notin loaded /\ UNCHANGED <<users, drift>>
         \/ /\ u \in loaded
            /\ users' = [users EXCEPT ![u] = new]
            /\ drift' \subseteq drift \cup {u}
      /\ UNCHANGED <<loaded, local_clients, localIn, usersIn, dirty, marked,
                     join_time, trash, gstate, kicked, flushed>>
  BY DEF on_UPDATE_DATA
<1> HIDE DEF u, new
<1>6. Lost' \subseteq Uid
  BY <1>1, <1>5 DEF Inv, TypeOK, UsersOK
<1>7. ClientsOK' /\ gstate' \in [Uid -> GState] /\ \A v \in Uid : OneWwwChannel(gstate'[v].us)
  BY <1>5 DEF Inv, TypeOK, ClientsOK, SharedOK, WwwExclusive
<1>8. CASE u \notin loaded
  BY <1>5, <1>6, <1>7, <1>8
     DEF Inv, TypeOK, ThreadInv, UsersOK, WwwExclusive, TrashIsIdle, JoinTimeCovers
<1>9. CASE u \in loaded
  <2>1. SetUser(u, new) /\ UNCHANGED <<join_time, trash>>
    BY <1>5, <1>9 DEF SetUser
  <2>2. UsersOK' /\ TrashIsIdle' /\ JoinTimeCovers' /\ \A v \in Uid : OneWwwChannel(users'[v].us)
    BY <1>1, <1>4, <1>6, <2>1, UserWritten DEF Inv
  <2> QED
    BY <1>7, <2>2, ExclusiveFrom DEF ThreadInv
<1> QED
  BY <1>8, <1>9

\* unload_user, which the flush and the trash timer call.
LEMMA UnloadKeeps ==
  ASSUME Inv, NEW u \in Uid, u \in loaded, unload_user(u), trash' \subseteq trash
  PROVE  ThreadInv'
<1>1. /\ users \in [Uid -> UserObj]
      /\ local_clients \in [Key -> Client]
      /\ localIn \in [Channel -> [Key -> Entry]]
      /\ dirty \in [Channel -> [Uid -> Mark]]
      /\ Lost \subseteq Uid
  BY DEF Inv, TypeOK, UsersOK, ClientsOK, Mark
<1>2. /\ loaded' = loaded \ {u}
      /\ users' = [users EXCEPT ![u] = NoUser]
      /\ Forget(u)
      /\ local_clients' = OrphanClients(u)
      /\ localIn' = OrphanEntries(u)
      /\ dirty' = OrphanDirty(dirty, u, users[u].status)
      /\ drift' \subseteq drift \cup {u}
      /\ flushed' \subseteq flushed \cup {u}
      /\ UNCHANGED <<usersIn, marked, join_time, kicked>>
  BY DEF unload_user
<1>3. users[u].status \in Status /\ Lost' \subseteq Uid
  BY <1>1, <1>2 DEF UserObj
<1>4. /\ UsersOK' /\ TrashIsIdle' /\ JoinTimeCovers' /\ WwwExclusive'
      /\ gstate' \in [Uid -> GState]
  BY <1>2, <1>3, UserForgotten
<1>5. local_clients' \in [Key -> Client] /\ localIn' \in [Channel -> [Key -> Entry]]
  BY <1>1, <1>2, OrphanTypes
<1>6. dirty' \in [Channel -> [Uid -> Mark]]
  BY <1>1, <1>2, <1>3, MarkTypes
<1> QED
  BY <1>2, <1>4, <1>5, <1>6 DEF ThreadInv, ClientsOK, Inv, TypeOK, Mark

\* Nothing of the chat thread changes.
LEMMA NothingKept ==
  ASSUME Inv, UNCHANGED <<threadVars, gstate>>
  PROVE  ThreadInv'
BY DEF Inv, TypeOK, ThreadInv, threadVars, UsersOK, ClientsOK, SharedOK, WwwExclusive,
       TrashIsIdle, JoinTimeCovers, ViewerModes

LEMMA FLUSH_USER_DATA_Keeps ==
  ASSUME Inv, FLUSH_USER_DATA
  PROVE  ThreadInv'
<1>1. E.uid \in Uid
  BY EventInHand, EventFields DEF Inv, FLUSH_USER_DATA
<1>2. CASE E.uid \in loaded /\ unload_user(E.uid)
  BY <1>1, <1>2, UnloadKeeps DEF FLUSH_USER_DATA
<1>3. CASE ~ (E.uid \in loaded /\ unload_user(E.uid))
  BY <1>3, NothingKept DEF FLUSH_USER_DATA, threadVars
<1> QED
  BY <1>2, <1>3
-----------------------------------------------------------------------------
(* The chat thread's steps.                                                *)

\* The parts of the invariant put together.
LEMMA Assembled ==
  ASSUME ThreadInv', QueuesOK', SharedOK', pend' \in [Thread -> Seq(SafeStep)]
  PROVE  Inv'
BY DEF ThreadInv, Inv, TypeOK

\* No handler disturbs the users, the clients or global_state.
LEMMA HandlersKeep ==
  ASSUME Inv, HandleEvent
  PROVE  ThreadInv'
BY JOIN_Keeps, JOIN_CHANNEL_Keeps, PART_CHANNEL_Keeps, SET_STATUS_Keeps, SET_NICK_Keeps,
   KICK_USER_Keeps, CHANGE_CONTACT_MODE_Keeps, UPDATE_CONTACT_LIST_Keeps,
   CHAT_MESSAGES2_Keeps, UPDATE_DATA_Keeps, FLUSH_USER_DATA_Keeps DEF HandleEvent

\* Every handler takes one event and pushes events.
LEMMA HandlersTake ==
  ASSUME Inv, HandleEvent
  PROVE  /\ batch > 0
         /\ \E pushed \in Seq(ChatEvent) : chat_events' = Tail(chat_events) \o pushed
         /\ batch' = batch - 1
         /\ local_users' \subseteq local_users
         /\ profile' = profile
<1> USE DEF Inv
<1>0. chat_events \in Seq(ChatEvent) /\ << >> \in Seq(ChatEvent)
  BY DEF TypeOK, QueuesOK
<1>1. CASE on_common_JOIN
  <2>1. /\ batch > 0
        /\ [E EXCEPT !.type = "JOIN_CHANNEL"] \in ChatEvent
    BY <1>1, EventInHand, EventFields DEF on_common_JOIN
  <2>2. Handled(<<[E EXCEPT !.type = "JOIN_CHANNEL"]>>)
    BY <1>1 DEF on_common_JOIN
  <2> DEFINE e == [E EXCEPT !.type = "JOIN_CHANNEL"]
  <2> HIDE DEF e
  <2>3. <<e>> \in Seq(ChatEvent)
    BY <2>1 DEF e
  <2>4. chat_events' = Tail(chat_events) \o <<e>>
    BY <2>2 DEF Handled, e
  <2>5. batch' = batch - 1 /\ local_users' = local_users /\ profile' = profile
    BY <2>2 DEF Handled
  <2> QED
    BY <2>1, <2>3, <2>4, <2>5
<1>2. CASE do_KICK_USER
  <2>1. batch > 0
    BY <1>2, EventInHand DEF do_KICK_USER
  <2>2. chat_events # << >>
    BY <2>1 DEF TypeOK, QueuesOK
  <2>3. Tail(chat_events) \o << >> = Tail(chat_events)
    BY <1>0, <2>2
  <2> QED
    BY <1>0, <1>2, <2>1, <2>3 DEF do_KICK_USER
<1>3. CASE ~ on_common_JOIN /\ ~ do_KICK_USER
  <2>1. Handled(<< >>) /\ \E type : Event(type)
    BY <1>3 DEF HandleEvent, do_JOIN_CHANNEL, do_PART_CHANNEL, do_SET_STATUS, do_SET_NICK,
       do_CHANGE_CONTACT_MODE, on_UPDATE_CONTACT_LIST, on_CHAT_MESSAGES2, on_UPDATE_DATA,
       FLUSH_USER_DATA
  <2>2. batch > 0
    BY <2>1 DEF Event
  <2> QED
    BY <1>0, <2>1, <2>2 DEF Handled
<1> QED
  BY <1>1, <1>2, <1>3

LEMMA HandleEventInv ==
  ASSUME Inv, HandleEvent, UNCHANGED requestVars
  PROVE  Inv'
<1>1. ThreadInv'
  BY HandlersKeep
<1>2. /\ chat_events' \in Seq(ChatEvent) /\ batch' \in 0..Len(chat_events')
      /\ local_users' \subseteq local_users
      /\ profile' = profile
  BY HandlersTake, QueuesHandled DEF Inv
<1>3. QueuesOK' /\ pend' \in [Thread -> Seq(SafeStep)]
  BY <1>2 DEF Inv, TypeOK, QueuesOK, requestVars
<1>4. SharedOK'
  BY <1>1, <1>2 DEF Inv, TypeOK, SharedOK, ThreadInv, requestVars
<1> QED
  BY <1>1, <1>3, <1>4, Assembled

\* A step that leaves the events, the sessions and the requests alone.
LEMMA ThreadStepInv ==
  ASSUME Inv, ThreadInv',
         UNCHANGED <<chat_events, local_users, profile, requestVars>>,
         batch' \in 0..Len(chat_events)
  PROVE  Inv'
<1>1. QueuesOK' /\ pend' \in [Thread -> Seq(SafeStep)]
  BY DEF Inv, TypeOK, QueuesOK, requestVars
<1>2. SharedOK'
  BY DEF Inv, TypeOK, SharedOK, ThreadInv, requestVars
<1> QED
  BY <1>1, <1>2, Assembled

LEMMA ExtractInv ==
  ASSUME Inv, ExtractAll, UNCHANGED requestVars
  PROVE  Inv'
<1>1. ThreadInv'
  BY NothingKept DEF ExtractAll, sharedVars
<1>2. batch' \in 0..Len(chat_events)
  BY DEF ExtractAll, Inv, TypeOK, QueuesOK
<1> QED
  BY <1>1, <1>2, ThreadStepInv DEF ExtractAll, sharedVars

LEMMA RefreshInv ==
  ASSUME Inv, update_contact_lists, UNCHANGED requestVars
  PROVE  Inv'
<1>1. /\ users \in [Uid -> UserObj]
      /\ loaded \subseteq Uid
      /\ Lost \subseteq Uid
      /\ local_clients \in [Key -> Client]
      /\ localIn \in [Channel -> [Key -> Entry]]
      /\ dirty \in [Channel -> [Uid -> Mark]]
      /\ batch \in 0..Len(chat_events)
  BY DEF Inv, TypeOK, UsersOK, ClientsOK, QueuesOK, Mark
<1>2. UNCHANGED <<loaded, users, join_time, trash, gstate>>
  BY DEF update_contact_lists, sharedVars
<1>3. \A c \in Channel, k \in Key, vis \in [Uid -> Seen] : \A usr :
        refreshed(vis, c, k[1], usr) \in [Uid -> Seen]
  BY <1>1, RefreshedType DEF Key
<1>4. local_clients' \in [Key -> Client]
  <2> DEFINE Vis(k) == [c \in Channel |->
        IF localIn[c][k].in = "same"
        THEN refreshed(local_clients[k].vis[c], c, k[1], local_clients[k].usr)
        ELSE local_clients[k].vis[c]]
  <2>1. \A k \in Key, c \in Channel : local_clients[k].vis[c] \in [Uid -> Seen]
    BY <1>1 DEF Client
  <2>2. \A k \in Key : Vis(k) \in [Channel -> [Uid -> Seen]]
    BY <1>3, <2>1
  <2>3. \A cl \in Client, w \in [Channel -> [Uid -> Seen]] :
          [cl EXCEPT !.vis = w] \in Client
    BY DEF Client
  <2>4. local_clients' = [k \in Key |-> [local_clients[k] EXCEPT !.vis = Vis(k)]]
    BY DEF update_contact_lists
  <2> HIDE DEF Vis
  <2> QED
    BY <1>1, <2>2, <2>3, <2>4
<1>5. localIn' \in [Channel -> [Key -> Entry]]
  <2> DEFINE Vis(c, k) == refreshed(localIn[c][k].vis, c, k[1], localIn[c][k].usr)
  <2>1. \A k \in Key, c \in Channel : localIn[c][k].vis \in [Uid -> Seen]
    BY <1>1 DEF Entry
  <2>2. \A k \in Key, c \in Channel : Vis(c, k) \in [Uid -> Seen]
    BY <1>3, <2>1
  <2>3. \A e \in Entry, w \in [Uid -> Seen] : [e EXCEPT !.vis = w] \in Entry
    BY DEF Entry
  <2>4. localIn' = [c \in Channel |-> [k \in Key |->
          IF localIn[c][k].in = "old" THEN [localIn[c][k] EXCEPT !.vis = Vis(c, k)]
          ELSE localIn[c][k]]]
    BY DEF update_contact_lists
  <2> HIDE DEF Vis
  <2> QED
    BY <1>1, <2>2, <2>3, <2>4
<1>6. usersIn' \in [Channel -> SUBSET Uid]
  BY <1>1 DEF update_contact_lists
<1>7. dirty' \in [Channel -> [Uid -> Mark]] /\ marked' \in BOOLEAN /\ Lost' \subseteq Uid
  BY <1>1 DEF update_contact_lists, Mark
<1>8. ClientsOK'
  BY <1>4, <1>5, <1>6, <1>7 DEF ClientsOK, Mark
<1>9. ThreadInv'
  BY <1>2, <1>7, <1>8 DEF ThreadInv, Inv, TypeOK, UsersOK, SharedOK, WwwExclusive,
     TrashIsIdle, JoinTimeCovers
<1> QED
  BY <1>1, <1>9, ThreadStepInv DEF update_contact_lists, sharedVars

LEMMA CleanInv ==
  ASSUME Inv, clean_local_clients, UNCHANGED requestVars
  PROVE  Inv'
<1>1. /\ local_clients \in [Key -> Client]
      /\ localIn \in [Channel -> [Key -> Entry]]
      /\ batch \in 0..Len(chat_events)
  BY DEF Inv, TypeOK, ClientsOK, QueuesOK
<1>2. \A cl \in Client, c \in Channel :
        [in |-> "old", usr |-> cl.usr, vis |-> cl.vis[c]] \in Entry
  BY DEF Client, Entry
<1>3. PICK gone \in SUBSET Key :
        /\ local_clients' = [k \in Key |-> IF k \in gone THEN NoClient ELSE local_clients[k]]
        /\ localIn' = [c \in Channel |-> [k \in Key |->
             IF k \in gone /\ localIn[c][k].in = "same"
             THEN [in |-> "old", usr |-> local_clients[k].usr,
                   vis |-> local_clients[k].vis[c]]
             ELSE localIn[c][k]]]
  BY DEF clean_local_clients
<1>4. local_clients' \in [Key -> Client]
  BY <1>1, <1>3, InitialTypes
<1>5. localIn' \in [Channel -> [Key -> Entry]]
  BY <1>1, <1>2, <1>3
<1>6. UNCHANGED <<loaded, users, usersIn, dirty, marked, join_time, trash, lostVars, batch,
                  sharedVars>>
  BY DEF clean_local_clients
<1>7. ThreadInv'
  BY <1>4, <1>5, <1>6 DEF ThreadInv, ClientsOK, Inv, TypeOK, UsersOK, SharedOK, sharedVars,
     WwwExclusive, TrashIsIdle, JoinTimeCovers
<1> QED
  BY <1>1, <1>6, <1>7, ThreadStepInv DEF sharedVars

LEMMA TrashInv ==
  ASSUME Inv, NEW u \in Uid, unload_trash(u), UNCHANGED requestVars
  PROVE  Inv'
<1>1. /\ trash' = trash \ {u}
      /\ UNCHANGED <<chat_events, batch, local_users, profile>>
      /\ \/ u \in loaded /\ unload_user(u)
         \/ UNCHANGED <<loaded, users, gstate, local_clients, localIn, usersIn,
                        dirty, marked, join_time, lostVars>>
  BY DEF unload_trash
<1>2. CASE u \in loaded /\ unload_user(u)
  BY <1>1, <1>2, UnloadKeeps, ThreadStepInv DEF Inv, TypeOK, QueuesOK
<1>3. CASE UNCHANGED <<loaded, users, gstate, local_clients, localIn, usersIn,
                       dirty, marked, join_time, lostVars>>
  <2>1. ThreadInv'
    BY <1>1, <1>3 DEF ThreadInv, ClientsOK, Inv, TypeOK, UsersOK, SharedOK,
       WwwExclusive, TrashIsIdle, JoinTimeCovers
  <2> QED
    BY <1>1, <2>1, ThreadStepInv DEF Inv, TypeOK, QueuesOK
<1> QED
  BY <1>1, <1>2, <1>3

LEMMA ChatLoopInv ==
  ASSUME Inv, ChatLoop, UNCHANGED requestVars
  PROVE  Inv'
BY ExtractInv, HandleEventInv, RefreshInv, CleanInv, TrashInv DEF ChatLoop
-----------------------------------------------------------------------------
(* The requests and their steps.                                           *)

\* The events and the steps the requests are made of.
LEMMA EventTypes ==
  ASSUME NEW u \in Uid
  PROVE  /\ \A ct \in CT, ch \in Channel, st \in Status : JoinEvent(u, ct, ch, st) \in AskedEvent
         /\ \A ct \in CT, chans \in SUBSET Channel : PartEvent(u, ct, chans) \in AskedEvent
         /\ \A type \in {"SET_NICK", "KICK_USER", "FLUSH_USER_DATA"} :
              UserEvent(type, u) \in AskedEvent
         /\ \A st \in Status :
              /\ StatusUpdate(u, st) \in AskedEvent
              /\ [type |-> "SET_STATUS", uid |-> u, status |-> st] \in AskedEvent
         /\ \A ch \in Channel : [type |-> "CHAT_MESSAGES2", uid |-> u, ch |-> ch] \in AskedEvent
         /\ [type |-> "UPDATE_CONTACT_LIST", uid |-> u, ct |-> "www"] \in AskedEvent
         /\ \A type \in {"CHANGE_CONTACT_MODE", "UPDATE_DATA"}, mode \in Modes, on \in BOOLEAN :
              [type |-> type, uid |-> u, field |-> "mode", mode |-> mode, on |-> on]
                \in AskedEvent
BY DEF JoinEvent, PartEvent, UserEvent, StatusUpdate, AskedEvent, ChatEvent, CT

LEMMA StepTypes ==
  /\ \A e \in AskedEvent : Push(e) \in SafeStep /\ Update(e) \in SafeStep
  /\ \A u \in Uid, ct \in CT, chans \in SUBSET Channel :
       [op |-> "part_channels", uid |-> u, ct |-> ct, chans |-> chans] \in SafeStep
  /\ \A u \in Uid, st \in Status :
       [op |-> "set_status", uid |-> u, status |-> st] \in SafeStep
  /\ \A u \in Uid, op \in {"set_nick", "cleanup"} : [op |-> op, uid |-> u] \in SafeStep
  /\ \A k \in Key, op \in {"insert$", "erase$"} : [op |-> op, key |-> k] \in SafeStep
  /\ \A u \in Uid, st \in GState : OneWwwChannel(st.us) =>
       [op |-> "set_user_state", uid |-> u, state |-> st] \in SafeStep
BY DEF Push, Update, SafeStep, RequestStep, AskedEvent

LEMMA ProgramTypes ==
  ASSUME NEW u \in Uid
  PROVE  /\ \A ct \in CT, chans \in SUBSET Channel :
              us_PART_CHANNEL(u, ct, chans) \in Seq(SafeStep)
         /\ \A st \in Status : us_SET_STATUS(u, st) \in Seq(SafeStep)
         /\ us_SET_NICK(u) \in Seq(SafeStep)
<1>1. \A ct \in CT, chans \in SUBSET Channel : us_PART_CHANNEL(u, ct, chans) \in Seq(SafeStep)
  <2> SUFFICES ASSUME NEW ct \in CT, NEW chans \in SUBSET Channel
               PROVE  us_PART_CHANNEL(u, ct, chans) \in Seq(SafeStep)
    OBVIOUS
  <2>1. Push(PartEvent(u, ct, chans)) \in SafeStep
    BY EventTypes, StepTypes
  <2>2. [op |-> "part_channels", uid |-> u, ct |-> ct, chans |-> chans] \in SafeStep
    BY StepTypes
  <2> QED
    BY <2>1, <2>2 DEF us_PART_CHANNEL
<1>2. \A st \in Status : us_SET_STATUS(u, st) \in Seq(SafeStep)
  <2> SUFFICES ASSUME NEW st \in Status
               PROVE  us_SET_STATUS(u, st) \in Seq(SafeStep)
    OBVIOUS
  <2>1. /\ Push([type |-> "SET_STATUS", uid |-> u, status |-> st]) \in SafeStep
        /\ Update(StatusUpdate(u, st)) \in SafeStep
    BY EventTypes, StepTypes
  <2>2. [op |-> "set_status", uid |-> u, status |-> st] \in SafeStep
    BY StepTypes
  <2> QED
    BY <2>1, <2>2 DEF us_SET_STATUS
<1>3. us_SET_NICK(u) \in Seq(SafeStep)
  <2>1. Push(UserEvent("SET_NICK", u)) \in SafeStep
    BY EventTypes, StepTypes
  <2>2. [op |-> "set_nick", uid |-> u] \in SafeStep
    BY StepTypes
  <2> QED
    BY <2>1, <2>2 DEF us_SET_NICK
<1> QED
  BY <1>1, <1>2, <1>3

\* A thread starts a program of safe steps.
LEMMA BeginInv ==
  ASSUME Inv, NEW t \in Thread, NEW steps \in Seq(SafeStep), Begin(t, steps),
         profile' \in [Uid -> SUBSET Modes], last_status' \in [Uid -> Status]
  PROVE  Inv'
<1>1. /\ UNCHANGED <<threadVars, batch, chat_events, gstate, local_users, updates>>
      /\ pend' = [pend EXCEPT ![t] = steps]
      /\ requests' = requests + 1
  BY DEF Begin
<1>2. ThreadInv'
  BY <1>1, NothingKept
<1>3. pend' \in [Thread -> Seq(SafeStep)]
  BY <1>1 DEF Inv
<1>4. pend' \in [Thread -> Seq(RequestStep)]
  BY <1>3, SafeSteps
<1>5. QueuesOK'
  BY <1>1, <1>4 DEF QueuesOK, Inv, TypeOK
<1>6. SharedOK'
  BY <1>1 DEF SharedOK, Inv, TypeOK
<1> QED
  BY <1>2, <1>3, <1>5, <1>6, Assembled

\* The page of a web client writes back a copy that is in one web channel.
LEMMA WwwJoinInv ==
  ASSUME Inv, NEW t \in Thread, NEW u \in Uid, NEW ch \in Channel, WwwJoin(t, u, ch)
  PROVE  Inv'
<1> DEFINE state(st) == [us |-> www_channel_replace(gstate[u].us, ch),
                         status |-> st, named |-> TRUE]
           tail(st) == IF st = last_status[u] THEN << >>
                       ELSE << Update(StatusUpdate(u, st)) >>
           body(st) == << [op |-> "set_user_state", uid |-> u, state |-> state(st)],
                          Push(JoinEvent(u, "www", ch, st)),
                          Push([type |-> "CHAT_MESSAGES2", uid |-> u, ch |-> ch]) >>
<1>1. /\ gstate[u] \in GState
      /\ last_status \in [Uid -> Status]
      /\ profile \in [Uid -> SUBSET Modes]
  BY DEF Inv, TypeOK, SharedOK
<1>2. PICK st \in Status : /\ Begin(t, body(st) \o tail(st))
                           /\ last_status' = [last_status EXCEPT ![u] = st]
                           /\ profile' = profile
  BY DEF WwwJoin
<1>3. state(st) \in GState /\ OneWwwChannel(state(st).us)
  <2>1. gstate[u].us \in ChannelUs
    BY <1>1 DEF GState
  <2>2. "www" \in CT
    BY DEF CT
  <2>3. /\ www_channel_replace(gstate[u].us, ch) \in ChannelUs
        /\ OneWwwChannel(www_channel_replace(gstate[u].us, ch))
    BY <2>1, <2>2, MembershipTypes, OneWwwKept
  <2>4. \A us \in ChannelUs : [us |-> us, status |-> st, named |-> TRUE] \in GState
    BY DEF GState
  <2> QED
    BY <2>3, <2>4
<1>4. body(st) \in Seq(SafeStep)
  <2>1. "www" \in CT
    BY DEF CT
  <2>2. [op |-> "set_user_state", uid |-> u, state |-> state(st)] \in SafeStep
    BY <1>3, StepTypes
  <2>3. /\ Push(JoinEvent(u, "www", ch, st)) \in SafeStep
        /\ Push([type |-> "CHAT_MESSAGES2", uid |-> u, ch |-> ch]) \in SafeStep
    BY <2>1, EventTypes, StepTypes
  <2> HIDE DEF state
  <2> QED
    BY <2>2, <2>3
<1>5. tail(st) \in Seq(SafeStep)
  <2>1. Update(StatusUpdate(u, st)) \in SafeStep
    BY EventTypes, StepTypes
  <2> QED
    BY <2>1
<1> HIDE DEF body, tail
<1>6. body(st) \o tail(st) \in Seq(SafeStep)
  BY <1>4, <1>5
<1> QED
  BY <1>1, <1>2, <1>6, BeginInv

LEMMA ChangeModeInv ==
  ASSUME Inv, NEW t \in Thread, NEW u \in Uid, NEW mode \in Modes, ChangeMode(t, u, mode)
  PROVE  Inv'
<1> DEFINE on == mode \notin profile[u]
           tell(type) == [type |-> type, uid |-> u, field |-> "mode",
                          mode |-> mode, on |-> on]
           steps == << Push(tell("CHANGE_CONTACT_MODE")),
                       Push([type |-> "UPDATE_CONTACT_LIST", uid |-> u, ct |-> "www"]),
                       Update(tell("UPDATE_DATA")) >>
<1>1. /\ Begin(t, steps)
      /\ profile' = [profile EXCEPT ![u] = IF on THEN @ \cup {mode} ELSE @ \ {mode}]
      /\ last_status' = last_status
  BY DEF ChangeMode
<1>2. on \in BOOLEAN
  OBVIOUS
<1> HIDE DEF on
<1>3. /\ Push(tell("CHANGE_CONTACT_MODE")) \in SafeStep
      /\ Push([type |-> "UPDATE_CONTACT_LIST", uid |-> u, ct |-> "www"]) \in SafeStep
      /\ Update(tell("UPDATE_DATA")) \in SafeStep
  BY <1>2, EventTypes, StepTypes
<1> HIDE DEF tell
<1>4. steps \in Seq(SafeStep)
  BY <1>3
<1>5. profile' \in [Uid -> SUBSET Modes] /\ last_status' \in [Uid -> Status]
  BY <1>1 DEF Inv, TypeOK, SharedOK
<1> QED
  BY <1>1, <1>4, <1>5, BeginInv

LEMMA LoginInv ==
  ASSUME Inv, NEW t \in Thread, NEW u \in Uid, NEW ct \in CT, Login(t, u, ct)
  PROVE  Inv'
<1> DEFINE body == << Push(UserEvent("FLUSH_USER_DATA", u)),
                      [op |-> "insert$", key |-> <<u, ct>>] >>
           tail == IF ct = "irc" THEN us_SET_NICK(u) ELSE << >>
<1>1. Begin(t, body \o tail) /\ UNCHANGED <<profile, last_status>>
  BY DEF Login
<1>2. body \in Seq(SafeStep)
  <2>1. Push(UserEvent("FLUSH_USER_DATA", u)) \in SafeStep
    BY EventTypes, StepTypes
  <2>2. [op |-> "insert$", key |-> <<u, ct>>] \in SafeStep
    BY StepTypes DEF Key
  <2> QED
    BY <2>1, <2>2
<1>3. tail \in Seq(SafeStep)
  BY ProgramTypes
<1> HIDE DEF body, tail
<1>4. body \o tail \in Seq(SafeStep)
  BY <1>2, <1>3
<1> QED
  BY <1>1, <1>4, BeginInv DEF Inv, TypeOK, SharedOK

\* The other requests leave the profile and the last status alone.
LEMMA RequestInv ==
  ASSUME Inv, NEW t \in Thread, Request(t)
  PROVE  Inv'
<1> DEFINE quiet == \E steps \in Seq(SafeStep) :
                      Begin(t, steps) /\ UNCHANGED <<profile, last_status>>
<1>0. quiet => Inv'
  BY BeginInv DEF Inv, TypeOK, SharedOK
<1>1. PICK u \in Uid :
        \/ \E ch \in Channel : WwwJoin(t, u, ch)
        \/ \E ch \in Channel : IrcJoin(t, u, ch)
        \/ WwwExit(t, u)
        \/ \E ch \in Channel : IrcPart(t, u, ch)
        \/ IrcDisconnect(t, u)
        \/ WwwExpire(t, u)
        \/ Kick(t, u)
        \/ \E st \in Status : SetStatus(t, u, st)
        \/ ChangeNick(t, u)
        \/ \E mode \in Modes : ChangeMode(t, u, mode)
        \/ \E ct \in CT : Login(t, u, ct)
  BY DEF Request
<1>2. "www" \in CT /\ "irc" \in CT /\ {} \in SUBSET Channel
  BY DEF CT
<1>3. ASSUME NEW ch \in Channel, IrcJoin(t, u, ch) PROVE quiet
  <2>1. Push(JoinEvent(u, "irc", ch, "online")) \in SafeStep
    BY <1>2, EventTypes, StepTypes DEF Status
  <2>2. << Push(JoinEvent(u, "irc", ch, "online")) >> \in Seq(SafeStep)
    BY <2>1
  <2> QED
    BY <1>3, <2>2 DEF IrcJoin
<1>4. WwwExit(t, u) => quiet
  BY <1>2, ProgramTypes DEF WwwExit
<1>5. ASSUME NEW ch \in Channel, IrcPart(t, u, ch) PROVE quiet
  <2>1. us_PART_CHANNEL(u, "irc", {ch}) \in Seq(SafeStep)
    BY <1>2, ProgramTypes
  <2> QED
    BY <1>5, <2>1 DEF IrcPart
<1>6. IrcDisconnect(t, u) => quiet
  <2>1. << [op |-> "erase$", key |-> <<u, "irc">>] >> \in Seq(SafeStep)
    <3>1. [op |-> "erase$", key |-> <<u, "irc">>] \in SafeStep
      BY <1>2, StepTypes DEF Key
    <3> QED
      BY <3>1
  <2>2. us_PART_CHANNEL(u, "irc", {}) \in Seq(SafeStep)
    BY <1>2, ProgramTypes
  <2>3. us_PART_CHANNEL(u, "irc", {}) \o << [op |-> "erase$", key |-> <<u, "irc">>] >>
          \in Seq(SafeStep)
    BY <2>1, <2>2
  <2> QED
    BY <2>3 DEF IrcDisconnect
<1>7. WwwExpire(t, u) => quiet
  <2>1. /\ [op |-> "cleanup", uid |-> u] \in SafeStep
        /\ [op |-> "erase$", key |-> <<u, "www">>] \in SafeStep
    BY <1>2, StepTypes DEF Key
  <2>2. /\ << [op |-> "cleanup", uid |-> u] >> \in Seq(SafeStep)
        /\ << [op |-> "erase$", key |-> <<u, "www">>], [op |-> "cleanup", uid |-> u] >>
             \in Seq(SafeStep)
    BY <2>1
  <2> QED
    BY <2>2 DEF WwwExpire
<1>8. Kick(t, u) => quiet
  <2>1. Push(UserEvent("KICK_USER", u)) \in SafeStep
    BY EventTypes, StepTypes
  <2>2. << Push(UserEvent("KICK_USER", u)) >> \in Seq(SafeStep)
    BY <2>1
  <2> QED
    BY <2>2 DEF Kick
<1>9. ASSUME NEW st \in Status, SetStatus(t, u, st) PROVE quiet
  BY <1>9, ProgramTypes DEF SetStatus
<1>10. ChangeNick(t, u) => quiet
  <2>1. << [op |-> "set_nick", uid |-> u] >> \in Seq(SafeStep)
    <3>1. [op |-> "set_nick", uid |-> u] \in SafeStep
      BY StepTypes
    <3> QED
      BY <3>1
  <2>2. << [op |-> "set_nick", uid |-> u] >> \o us_SET_NICK(u) \in Seq(SafeStep)
    BY <2>1, ProgramTypes
  <2> QED
    BY <2>2 DEF ChangeNick
<1> HIDE DEF quiet
<1> QED
  BY <1>0, <1>1, <1>3, <1>4, <1>5, <1>6, <1>7, <1>8, <1>9, <1>10,
     WwwJoinInv, ChangeModeInv, LoginInv

\* A thread's step leaves the chat thread's variables, and the tail of the
\* program.
LEMMA DoneInv ==
  ASSUME Inv, NEW t \in Thread,
         UNCHANGED <<threadVars, batch, profile, requests, last_status>>,
         pend' \in [Thread -> Seq(SafeStep)],
         chat_events' = chat_events \/ \E e \in ChatEvent : chat_events' = Append(chat_events, e),
         updates' \in Seq(ChatEvent),
         local_users' \subseteq Key,
         gstate' \in [Uid -> GState],
         \A v \in Uid : OneWwwChannel(gstate'[v].us)
  PROVE  Inv'
<1>1. chat_events \in Seq(ChatEvent) /\ batch \in 0..Len(chat_events)
  BY DEF Inv, TypeOK, QueuesOK
<1>2. chat_events' \in Seq(ChatEvent) /\ Len(chat_events') >= Len(chat_events)
  <2>1. CASE chat_events' = chat_events
    BY <1>1, <2>1
  <2>2. ASSUME NEW e \in ChatEvent, chat_events' = Append(chat_events, e)
        PROVE  chat_events' \in Seq(ChatEvent) /\ Len(chat_events') >= Len(chat_events)
    BY <1>1, <2>2
  <2> QED
    BY <2>1, <2>2
<1>3. batch' \in 0..Len(chat_events')
  BY <1>1, <1>2
<1>4. QueuesOK'
  BY <1>2, <1>3, SafeSteps DEF QueuesOK, Inv, TypeOK
<1>5. SharedOK'
  BY DEF SharedOK, Inv, TypeOK
<1>6. UsersOK' /\ ClientsOK' /\ TrashIsIdle' /\ JoinTimeCovers'
  BY DEF threadVars, Inv, TypeOK, UsersOK, ClientsOK, TrashIsIdle, JoinTimeCovers
<1>7. WwwExclusive'
  BY DEF threadVars, Inv, WwwExclusive
<1>8. ThreadInv'
  BY <1>6, <1>7 DEF ThreadInv
<1> QED
  BY <1>4, <1>5, <1>8, Assembled

\* What is left of a program is safe, and so is the step in hand.
LEMMA StepInHand ==
  ASSUME Inv, NEW t \in Thread, pend[t] # << >>
  PROVE  /\ S(t) \in SafeStep
         /\ Tail(pend[t]) \in Seq(SafeStep)
         /\ [pend EXCEPT ![t] = Tail(@)] \in [Thread -> Seq(SafeStep)]
<1>1. pend \in [Thread -> Seq(SafeStep)]
  BY DEF Inv
<1>2. pend[t] \in Seq(SafeStep)
  BY <1>1
<1>3. S(t) \in SafeStep /\ Tail(pend[t]) \in Seq(SafeStep)
  BY <1>2 DEF S
<1> QED
  BY <1>1, <1>3

\* What each kind of step carries.
LEMMA StepFields ==
  ASSUME NEW s \in SafeStep
  PROVE  /\ s.op \in {"push", "update"} => s.event \in AskedEvent /\ s.event \in ChatEvent
         /\ s.op = "set_user_state" => /\ s.uid \in Uid
                                       /\ s.state \in GState
                                       /\ OneWwwChannel(s.state.us)
         /\ s.op = "part_channels" => /\ s.uid \in Uid
                                      /\ s.ct \in CT
                                      /\ s.chans \in SUBSET Channel
         /\ s.op = "set_status" => s.uid \in Uid /\ s.status \in Status
         /\ s.op \in {"set_nick", "cleanup"} => s.uid \in Uid
         /\ s.op \in {"insert$", "erase$"} => s.key \in Key
BY DEF SafeStep, RequestStep, AskedEvent

\* The direct writes to global_state.
LEMMA WriteStateInv ==
  ASSUME Inv, NEW t \in Thread, WriteState(t)
  PROVE  Inv'
<1> DEFINE s == S(t)
<1>1. s \in SafeStep /\ [pend EXCEPT ![t] = Tail(@)] \in [Thread -> Seq(SafeStep)]
  BY StepInHand DEF WriteState
<1>2. gstate \in [Uid -> GState] /\ \A v \in Uid : OneWwwChannel(gstate[v].us)
  BY DEF Inv, TypeOK, SharedOK, WwwExclusive
<1>3. \E v \in Uid, st \in GState :
        OneWwwChannel(st.us) /\ gstate' = [gstate EXCEPT ![v] = st]
  <2>1. CASE s.op = "set_user_state" /\ gstate' = [gstate EXCEPT ![s.uid] = s.state]
    <3>1. s.uid \in Uid /\ s.state \in GState /\ OneWwwChannel(s.state.us)
      BY <1>1, <2>1, StepFields
    <3> QED
      BY <2>1, <3>1
  <2>2. CASE /\ s.op = "part_channels"
             /\ gstate' = [gstate EXCEPT ![s.uid].us = part_channels(@, s.chans, s.ct)]
    <3>1. s.uid \in Uid /\ s.ct \in CT /\ s.chans \in SUBSET Channel
      BY <1>1, <2>2, StepFields
    <3> DEFINE old == gstate[s.uid]
               us == part_channels(old.us, s.chans, s.ct)
    <3>2. old \in GState /\ old.us \in ChannelUs /\ OneWwwChannel(old.us)
      BY <1>2, <3>1 DEF GState
    <3>3. us \in ChannelUs /\ OneWwwChannel(us)
      BY <3>1, <3>2, MembershipTypes, OneWwwKept
    <3>4. gstate' = [gstate EXCEPT ![s.uid] = [old EXCEPT !.us = us]]
      BY <1>2, <2>2, <3>1
    <3> HIDE DEF us, old
    <3>5. [old EXCEPT !.us = us] \in GState /\ [old EXCEPT !.us = us].us = us
      BY <3>2, <3>3 DEF GState
    <3> QED
      BY <3>1, <3>3, <3>4, <3>5
  <2>3. CASE s.op = "set_status" /\ gstate' = [gstate EXCEPT ![s.uid].status = s.status]
    <3>1. s.uid \in Uid /\ s.status \in Status
      BY <1>1, <2>3, StepFields
    <3> DEFINE new == [gstate[s.uid] EXCEPT !.status = s.status]
    <3>2. new \in GState /\ new.us = gstate[s.uid].us
      BY <1>2, <3>1 DEF GState
    <3>3. gstate' = [gstate EXCEPT ![s.uid] = new]
      BY <1>2, <2>3, <3>1
    <3> HIDE DEF new
    <3> QED
      BY <1>2, <3>1, <3>2, <3>3
  <2>4. CASE s.op = "set_nick" /\ gstate' = [gstate EXCEPT ![s.uid].named = TRUE]
    <3>1. s.uid \in Uid
      BY <1>1, <2>4, StepFields
    <3> DEFINE new == [gstate[s.uid] EXCEPT !.named = TRUE]
    <3>2. new \in GState /\ new.us = gstate[s.uid].us
      BY <1>2, <3>1 DEF GState
    <3>3. gstate' = [gstate EXCEPT ![s.uid] = new]
      BY <1>2, <2>4, <3>1
    <3> HIDE DEF new
    <3> QED
      BY <1>2, <3>1, <3>2, <3>3
  <2> QED
    BY <2>1, <2>2, <2>3, <2>4 DEF WriteState
<1>4. gstate' \in [Uid -> GState] /\ \A v \in Uid : OneWwwChannel(gstate'[v].us)
  BY <1>2, <1>3
<1>5. /\ UNCHANGED <<threadVars, batch, profile, requests, last_status,
                     chat_events, local_users, updates>>
      /\ pend' = [pend EXCEPT ![t] = Tail(@)]
  BY DEF WriteState, Done
<1>6. updates' \in Seq(ChatEvent) /\ local_users' \subseteq Key
  BY <1>5 DEF Inv, TypeOK, QueuesOK, SharedOK
<1> QED
  BY <1>1, <1>4, <1>5, <1>6, DoneInv

LEMMA StepInv ==
  ASSUME Inv, NEW t \in Thread, Step(t)
  PROVE  Inv'
<1>1. /\ chat_events \in Seq(ChatEvent)
      /\ updates \in Seq(ChatEvent)
      /\ local_users \subseteq Key
      /\ gstate \in [Uid -> GState]
      /\ \A v \in Uid : OneWwwChannel(gstate[v].us)
  BY DEF Inv, TypeOK, QueuesOK, SharedOK, WwwExclusive
<1>2. pend[t] # << >>
  BY DEF Step, push_back, send_update, WriteState, ChangeSessions,
     check_for_channel_cleanup, Now
<1>3. /\ S(t) \in SafeStep
      /\ Tail(pend[t]) \in Seq(SafeStep)
      /\ [pend EXCEPT ![t] = Tail(@)] \in [Thread -> Seq(SafeStep)]
  BY <1>2, StepInHand
<1>4. CASE push_back(t)
  <2>1. S(t).event \in ChatEvent
    BY <1>3, <1>4, StepFields DEF push_back, Now, S
  <2> QED
    BY <1>1, <1>3, <1>4, <2>1, DoneInv DEF push_back, Done
<1>5. CASE send_update(t)
  <2>1. S(t).event \in ChatEvent
    BY <1>3, <1>5, StepFields DEF send_update, Now, S
  <2>2. updates' \in Seq(ChatEvent)
    BY <1>1, <1>5, <2>1 DEF send_update
  <2> QED
    BY <1>1, <1>3, <1>5, <2>2, DoneInv DEF send_update, Done
<1>6. CASE WriteState(t)
  BY <1>6, WriteStateInv
<1>7. CASE ChangeSessions(t)
  <2>1. S(t).key \in Key
    BY <1>3, <1>7, StepFields DEF ChangeSessions, Now, S
  <2>2. local_users' \subseteq Key
    BY <1>1, <1>7, <2>1 DEF ChangeSessions
  <2> QED
    BY <1>1, <1>3, <1>7, <2>2, DoneInv DEF ChangeSessions, Done
<1>8. CASE check_for_channel_cleanup(t)
  <2> DEFINE more == IF InSomeChannel(gstate[S(t).uid].us)
                     THEN us_PART_CHANNEL(S(t).uid, "www", {}) ELSE << >>
  <2>1. S(t).uid \in Uid
    BY <1>3, <1>8, StepFields DEF check_for_channel_cleanup, Now, S
  <2>2. us_PART_CHANNEL(S(t).uid, "www", {}) \in Seq(SafeStep)
    BY <2>1, ProgramTypes DEF CT
  <2>3. more \in Seq(SafeStep)
    BY <2>2
  <2>4. /\ pend' = [pend EXCEPT ![t] = more \o Tail(@)]
        /\ UNCHANGED <<threadVars, batch, sharedVars, requests, updates, last_status>>
    BY <1>8 DEF check_for_channel_cleanup
  <2> HIDE DEF more
  <2>5. more \o Tail(pend[t]) \in Seq(SafeStep)
    BY <1>3, <2>3
  <2>6. pend' \in [Thread -> Seq(SafeStep)]
    BY <2>4, <2>5 DEF Inv
  <2> QED
    BY <1>1, <2>4, <2>6, DoneInv DEF sharedVars
<1> QED
  BY <1>4, <1>5, <1>6, <1>7, <1>8 DEF Step

LEMMA UpdateProcessorInv ==
  ASSUME Inv, UpdateProcessor
  PROVE  Inv'
<1>1. /\ chat_events \in Seq(ChatEvent)
      /\ batch \in 0..Len(chat_events)
      /\ updates \in Seq(ChatEvent)
      /\ updates # << >>
  BY DEF Inv, TypeOK, QueuesOK, UpdateProcessor
<1>2. Head(updates) \in ChatEvent /\ Tail(updates) \in Seq(ChatEvent)
  BY <1>1
<1>3. /\ chat_events' = Append(chat_events, Head(updates))
      /\ updates' = Tail(updates)
      /\ UNCHANGED <<threadVars, batch, gstate, local_users, profile, pend,
                     requests, last_status>>
  BY DEF UpdateProcessor
<1>4. chat_events' \in Seq(ChatEvent) /\ batch' \in 0..Len(chat_events')
  BY <1>1, <1>2, <1>3
<1>5. ThreadInv'
  BY <1>3, NothingKept
<1>6. QueuesOK' /\ SharedOK' /\ pend' \in [Thread -> Seq(SafeStep)]
  BY <1>2, <1>3, <1>4 DEF QueuesOK, SharedOK, Inv, TypeOK
<1> QED
  BY <1>5, <1>6, Assembled
-----------------------------------------------------------------------------
(* The theorems.                                                           *)

LEMMA InvInit == Init => Inv
<1> SUFFICES ASSUME Init PROVE Inv
  OBVIOUS
<1>1. UsersOK
  BY InitialTypes DEF Init, UsersOK, GoodObj
<1>2. ClientsOK
  BY InitialTypes DEF Init, ClientsOK
<1>3. pend = [t \in Thread |-> << >>] /\ pend \in [Thread -> Seq(SafeStep)]
  BY DEF Init
<1>4. QueuesOK
  BY <1>3 DEF Init, QueuesOK
<1>5. StateOf(NoUser) \in GState /\ OneWwwChannel(StateOf(NoUser).us)
  BY InitialTypes, StateOfType DEF GoodObj
<1>6. SharedOK
  BY <1>5 DEF Init, SharedOK, Status
<1>7. WwwExclusive /\ TrashIsIdle
  BY <1>5, InitialTypes DEF Init, WwwExclusive, TrashIsIdle, GoodObj
<1>8. JoinTimeCovers
  BY InitialTypes, NotInChannels, MembershipTypes DEF Init, JoinTimeCovers
<1> QED
  BY <1>1, <1>2, <1>3, <1>4, <1>6, <1>7, <1>8 DEF Inv, TypeOK

LEMMA InvNext == Inv /\ [Next]_vars => Inv'
<1> SUFFICES ASSUME Inv, [Next]_vars PROVE Inv'
  OBVIOUS
<1>1. CASE ChatLoop /\ UNCHANGED requestVars
  BY <1>1, ChatLoopInv
<1>2. ASSUME NEW t \in Thread, Request(t) PROVE Inv'
  BY <1>2, RequestInv
<1>3. ASSUME NEW t \in Thread, Step(t) PROVE Inv'
  BY <1>3, StepInv
<1>4. CASE UpdateProcessor
  BY <1>4, UpdateProcessorInv
<1>5. CASE UNCHANGED vars
  <2>1. ThreadInv'
    BY <1>5, NothingKept DEF vars, sharedVars
  <2> QED
    BY <1>5, <2>1, ThreadStepInv DEF vars, sharedVars, Inv, TypeOK, QueuesOK
<1> QED
  BY <1>1, <1>2, <1>3, <1>4, <1>5 DEF Next

LEMMA Invariance == Spec => []Inv
<1> QED
  BY InvInit, InvNext, PTL DEF Spec

\* Every variable stays in its type, however many users, channels, threads
\* and requests there are, and the queues hold only well-formed events.
THEOREM ServerIsTyped == Spec => []TypeOK
<1>1. Inv => TypeOK
  BY DEF Inv
<1> QED
  BY <1>1, Invariance, PTL

\* A web client is in one channel at most, in the chat thread and in
\* global_state: the whole copies that pages write back late (url_chat_
\* messages2) cannot put it in two.
THEOREM WebClientInOneChannel == Spec => []WwwExclusive
<1>1. Inv => WwwExclusive
  BY DEF Inv
<1> QED
  BY <1>1, Invariance, PTL

\* The timer's unload after 3 hours in trash never hits a user who is back in
\* a channel.
THEOREM UnloadSparesMembers == Spec => []TrashIsIdle
<1>1. Inv => TrashIsIdle
  BY DEF Inv
<1> QED
  BY <1>1, Invariance, PTL

\* Whoever is in a channel has a join time, through every kick, flush and
\* reload.
THEOREM MembersHaveJoinTime == Spec => []JoinTimeCovers
<1>1. Inv => JoinTimeCovers
  BY DEF Inv
<1> QED
  BY <1>1, Invariance, PTL
-----------------------------------------------------------------------------
(* Who moves whom.                                                         *)

\* A handler moves the user of its event, and into no channel but that of a
\* join.
LEMMA OneUserMoves ==
  ASSUME Inv, batch > 0, E.uid \in Uid, NEW obj,
         users' = [users EXCEPT ![E.uid] = obj],
         \A c \in Channel :
           \/ obj.us[c] \subseteq users[E.uid].us[c]
           \/ (Event("JOIN") \/ Event("JOIN_CHANNEL")) /\ E.ch = c
  PROVE  MoveStep
BY DEF Inv, TypeOK, UsersOK, MoveStep

\* Who loses the object it has, or has none, leaves.
LEMMA LeaverMoves ==
  ASSUME Inv, batch > 0, E.uid \in Uid,
         users' = [users EXCEPT ![E.uid] = NoUser]
  PROVE  MoveStep
<1>1. \A c \in Channel : NoUser.us[c] = {}
  BY InitialTypes DEF NoChannels
<1> QED
  BY <1>1, OneUserMoves

\* Nobody moves when the memberships stay.
LEMMA NobodyMoves ==
  ASSUME \A u \in Uid : users'[u].us = users[u].us
  PROVE  MoveStep
BY DEF MoveStep

LEMMA HandlerMoves ==
  ASSUME Inv, HandleEvent
  PROVE  MoveStep
<1> DEFINE u == E.uid
           old == get_user_p(u)
<1>1. batch > 0 /\ u \in Uid /\ E \in ChatEvent
  <2>1. \E type : Event(type)
    BY DEF HandleEvent, on_common_JOIN, do_JOIN_CHANNEL, do_PART_CHANNEL, do_SET_STATUS,
       do_SET_NICK, do_KICK_USER, do_CHANGE_CONTACT_MODE, on_UPDATE_CONTACT_LIST,
       on_CHAT_MESSAGES2, on_UPDATE_DATA, FLUSH_USER_DATA
  <2>2. PICK type : Event(type)
    BY <2>1
  <2>3. TypeOK
    BY DEF Inv
  <2> QED
    BY <2>2, <2>3, EventInHand, EventFields
<1>2. old \in GoodObj /\ old.us = users[u].us
  BY <1>1, UserFound DEF Inv
<1>3. \A obj \in GoodObj : (SetUser(u, obj) /\ obj.us = old.us) => MoveStep
  <2> SUFFICES ASSUME NEW obj \in GoodObj, SetUser(u, obj), obj.us = old.us
               PROVE  MoveStep
    OBVIOUS
  <2>1. users' = [users EXCEPT ![E.uid] = obj]
    BY DEF SetUser
  <2>2. \A c \in Channel : obj.us[c] \subseteq users[E.uid].us[c]
    BY <1>2
  <2> QED
    BY <1>1, <2>1, <2>2, OneUserMoves
<1>4. CASE on_common_JOIN \/ do_JOIN_CHANNEL
  <2> DEFINE new == Joined(old, E.ct, E.ch, E.status)
  <2>1. /\ Event("JOIN") \/ Event("JOIN_CHANNEL")
        /\ SetUser(u, new)
    BY <1>4 DEF on_common_JOIN, do_JOIN_CHANNEL, on_JOIN_fix_lists
  <2>2. E.ct \in CT /\ E.ch \in Channel /\ E.status \in Status
    BY <1>1, <2>1, EventFields DEF Event, E
  <2>3. \A c \in Channel \ {E.ch} : new.us[c] \subseteq old.us[c]
    BY <1>2, <2>2, JoinedGood
  <2> HIDE DEF new
  <2> QED
    BY <1>1, <1>2, <2>1, <2>3, OneUserMoves DEF SetUser
<1>5. CASE do_PART_CHANNEL
  <2> DEFINE new == [old EXCEPT !.us = part_channels(@, E.chans, E.ct)]
  <2>1. SetUser(u, new)
    BY <1>5 DEF do_PART_CHANNEL
  <2>2. E.ct \in CT /\ E.chans \in SUBSET Channel
    BY <1>1, <1>5, EventFields DEF do_PART_CHANNEL, Event, E
  <2>3. \A c \in Channel : new.us[c] \subseteq old.us[c]
    BY <1>2, <2>2, PartedGood
  <2> HIDE DEF new
  <2> QED
    BY <1>1, <1>2, <2>1, <2>3, OneUserMoves DEF SetUser
<1>6. CASE do_SET_STATUS
  <2>1. E.status \in Status
    BY <1>1, <1>6, EventFields DEF do_SET_STATUS, Event, E
  <2>2. SetUser(u, old) \/ SetUser(u, [old EXCEPT !.status = E.status])
    BY <1>6 DEF do_SET_STATUS
  <2> QED
    BY <1>2, <1>3, <2>1, <2>2, FieldsGood
<1>7. CASE do_SET_NICK \/ on_UPDATE_CONTACT_LIST \/ on_CHAT_MESSAGES2
  BY <1>2, <1>3, <1>7 DEF do_SET_NICK, on_UPDATE_CONTACT_LIST, on_CHAT_MESSAGES2
<1>8. CASE do_KICK_USER
  BY <1>1, <1>8, LeaverMoves DEF do_KICK_USER
<1>9. CASE do_CHANGE_CONTACT_MODE
  <2> DEFINE modes == IF E.on THEN old.modes \cup {E.mode} ELSE old.modes \ {E.mode}
  <2>1. E.mode \in Modes
    BY <1>1, <1>9, EventFields DEF do_CHANGE_CONTACT_MODE, Event, E
  <2>2. modes \in SUBSET Modes
    BY <1>2, <2>1 DEF GoodObj, UserObj
  <2>3. SetUser(u, [old EXCEPT !.modes = modes])
    BY <1>9 DEF do_CHANGE_CONTACT_MODE
  <2> HIDE DEF modes
  <2> QED
    BY <1>2, <1>3, <2>2, <2>3, FieldsGood
<1>10. CASE on_UPDATE_DATA
  <2>1. users[u] \in UserObj
    BY <1>1 DEF Inv, TypeOK, UsersOK
  <2>2. \/ users' = users
        \/ \E obj : users' = [users EXCEPT ![u] = obj] /\ obj.us = users[u].us
    BY <1>10, <2>1 DEF on_UPDATE_DATA, UserObj
  <2> QED
    BY <1>1, <2>2, OneUserMoves, NobodyMoves
<1>11. CASE FLUSH_USER_DATA
  BY <1>1, <1>11, LeaverMoves, NobodyMoves DEF FLUSH_USER_DATA, unload_user
<1> QED
  BY <1>4, <1>5, <1>6, <1>7, <1>8, <1>9, <1>10, <1>11 DEF HandleEvent

\* The timer unloads users who are in no channel.
LEMMA TrashMoves ==
  ASSUME Inv, NEW u \in Uid, unload_trash(u)
  PROVE  MoveStep
<1>1. users[u].us = NoChannels /\ NoUser.us = NoChannels /\ users \in [Uid -> UserObj]
  BY InitialTypes DEF unload_trash, Inv, TypeOK, UsersOK, TrashIsIdle
<1>2. users' = users \/ users' = [users EXCEPT ![u] = NoUser]
  BY DEF unload_trash, unload_user
<1> QED
  BY <1>1, <1>2, NobodyMoves

LEMMA StepMoves == Inv /\ [Next]_vars => MoveStep
<1> SUFFICES ASSUME Inv, [Next]_vars PROVE MoveStep
  OBVIOUS
<1>1. CASE HandleEvent
  BY <1>1, HandlerMoves
<1>2. ASSUME NEW u \in Uid, unload_trash(u) PROVE MoveStep
  BY <1>2, TrashMoves
<1>3. CASE UNCHANGED users
  BY <1>3, NobodyMoves
<1>4. ASSUME NEW t \in Thread, Request(t) PROVE UNCHANGED users
  BY <1>4 DEF Request, WwwJoin, IrcJoin, WwwExit, IrcPart, IrcDisconnect, WwwExpire, Kick,
     SetStatus, ChangeNick, ChangeMode, Login, Begin, threadVars
<1>5. ASSUME NEW t \in Thread, Step(t) PROVE UNCHANGED users
  BY <1>5 DEF Step, push_back, send_update, WriteState, ChangeSessions,
     check_for_channel_cleanup, Done, threadVars
<1>6. CASE ExtractAll \/ update_contact_lists \/ clean_local_clients \/ UpdateProcessor
  BY <1>3, <1>6 DEF ExtractAll, update_contact_lists, clean_local_clients,
     UpdateProcessor, threadVars
<1>7. CASE UNCHANGED vars
  BY <1>3, <1>7 DEF vars, threadVars
<1> QED
  BY <1>1, <1>2, <1>3, <1>4, <1>5, <1>6, <1>7 DEF Next, ChatLoop

\* Only the events of a user move that user, and only its joins bring it in.
THEOREM OnlyOwnEventsMove == Spec => MembershipMoves
BY Invariance, StepMoves, PTL DEF Spec, MembershipMoves
-----------------------------------------------------------------------------
(* global_state and the chat thread.                                       *)

IsJoin(e, u) == e.type = "JOIN" /\ e.uid = u

\* A join of u is under way: its handler will publish what the thread knows.
JoinAsked(u) ==
  \/ \E i \in DOMAIN chat_events : IsJoin(chat_events[i], u)
  \/ \E t \in Thread : \E i \in DOMAIN pend[t] :
       pend[t][i].op = "push" /\ IsJoin(pend[t][i].event, u)

\* A page that writes back a whole copy pushes its join next.
JoinFollows(steps) ==
  \A i \in DOMAIN steps :
    steps[i].op = "set_user_state" =>
      /\ i + 1 \in DOMAIN steps
      /\ steps[i + 1].op = "push"
      /\ IsJoin(steps[i + 1].event, steps[i].uid)

NotAhead(u) == \A c \in Channel : gstate[u].us[c] \subseteq users[u].us[c]

\* What global_state claims too much, a join under way puts right.
AheadInv ==
  /\ \A t \in Thread : JoinFollows(pend[t])
  /\ \A u \in Uid : NotAhead(u) \/ JoinAsked(u)

LEMMA FirstAndRest ==
  ASSUME NEW Steps, NEW s \in Seq(Steps), s # << >>, NEW i \in DOMAIN s
  PROVE  \/ i = 1 /\ s[i] = Head(s)
         \/ i - 1 \in DOMAIN Tail(s) /\ Tail(s)[i - 1] = s[i]
OBVIOUS

LEMMA RestOfSteps ==
  ASSUME NEW Steps, NEW s \in Seq(Steps), s # << >>
  PROVE  /\ Tail(s) \in Seq(Steps) /\ Head(s) \in Steps /\ Head(s) = s[1] /\ 1 \in DOMAIN s
         /\ \A i \in DOMAIN Tail(s) : i + 1 \in DOMAIN s /\ Tail(s)[i] = s[i + 1]
OBVIOUS

LEMMA ThreeOrFour ==
  ASSUME NEW a, NEW b, NEW c, NEW d
  PROVE  /\ << a >> \in Seq({a, b, c, d}) /\ << a, b >> \in Seq({a, b, c, d})
         /\ << c, d >> \in Seq({a, b, c, d}) /\ << >> \in Seq({a, b, c, d})
         /\ << d >> \in Seq({a, b, c, d}) /\ << a, b, c >> \in Seq({a, b, c, d})
OBVIOUS

LEMMA NothingMore ==
  ASSUME NEW Steps, NEW s \in Seq(Steps)
  PROVE  s \o << >> = s
OBVIOUS

LEMMA FoundLater ==
  ASSUME NEW Steps, NEW p \in Seq(Steps), NEW s \in Seq(Steps), NEW i \in DOMAIN s
  PROVE  \E j \in DOMAIN (p \o s) : (p \o s)[j] = s[i]
<1>1. i + Len(p) \in DOMAIN (p \o s) /\ (p \o s)[i + Len(p)] = s[i]
  OBVIOUS
<1> QED
  BY <1>1

LEMMA LaterPart ==
  ASSUME NEW Steps, NEW p \in Seq(Steps), NEW s \in Seq(Steps)
  PROVE  /\ p \o s \in Seq(Steps)
         /\ \A i \in DOMAIN s : i + Len(p) \in DOMAIN (p \o s) /\ (p \o s)[i + Len(p)] = s[i]
         /\ \A i \in DOMAIN p : i \in DOMAIN (p \o s) /\ (p \o s)[i] = p[i]
         /\ \A i \in DOMAIN (p \o s) :
              \/ i \in DOMAIN p /\ (p \o s)[i] = p[i]
              \/ i - Len(p) \in DOMAIN s /\ (p \o s)[i] = s[i - Len(p)]
OBVIOUS

\* The rest of a request still pushes its joins.
LEMMA FollowsRest ==
  ASSUME NEW Steps, NEW s \in Seq(Steps), s # << >>, JoinFollows(s)
  PROVE  JoinFollows(Tail(s))
<1> SUFFICES ASSUME NEW i \in DOMAIN Tail(s), Tail(s)[i].op = "set_user_state"
             PROVE  /\ i + 1 \in DOMAIN Tail(s)
                    /\ Tail(s)[i + 1].op = "push"
                    /\ IsJoin(Tail(s)[i + 1].event, Tail(s)[i].uid)
  BY DEF JoinFollows
<1>1. i + 1 \in DOMAIN s /\ Tail(s)[i] = s[i + 1]
  BY RestOfSteps
<1>2. /\ i + 2 \in DOMAIN s
      /\ s[i + 2].op = "push" /\ IsJoin(s[i + 2].event, s[i + 1].uid)
  <2>1. i + 1 + 1 = i + 2
    OBVIOUS
  <2> QED
    BY <1>1, <2>1 DEF JoinFollows
<1>3. i + 1 \in DOMAIN Tail(s) /\ Tail(s)[i + 1] = s[i + 2]
  BY <1>2, FirstAndRest
<1> QED
  BY <1>1, <1>2, <1>3

\* So does a request to which steps are put that write back no copy.
LEMMA FollowsJoined ==
  ASSUME NEW Steps, NEW p \in Seq(Steps), NEW s \in Seq(Steps), JoinFollows(s),
         \A i \in DOMAIN p : p[i].op # "set_user_state"
  PROVE  JoinFollows(p \o s)
<1> DEFINE r == p \o s
<1> SUFFICES ASSUME NEW i \in DOMAIN r, r[i].op = "set_user_state"
             PROVE  /\ i + 1 \in DOMAIN r /\ r[i + 1].op = "push"
                    /\ IsJoin(r[i + 1].event, r[i].uid)
  BY DEF JoinFollows
<1>1. i - Len(p) \in DOMAIN s /\ r[i] = s[i - Len(p)]
  BY LaterPart
<1>2. /\ i - Len(p) + 1 \in DOMAIN s
      /\ s[i - Len(p) + 1].op = "push"
      /\ IsJoin(s[i - Len(p) + 1].event, s[i - Len(p)].uid)
  BY <1>1 DEF JoinFollows
<1>3. i - Len(p) + 1 + Len(p) = i + 1
  BY LaterPart
<1>4. i + 1 \in DOMAIN r /\ r[i + 1] = s[i - Len(p) + 1]
  BY <1>2, <1>3, LaterPart
<1> QED
  BY <1>1, <1>2, <1>4

\* A join that is asked for stays so until it is handled.
LEMMA AskedStays ==
  ASSUME Inv, NEW t \in Thread, pend[t] # << >>,
         NEW more \in Seq(RequestStep), pend' = [pend EXCEPT ![t] = more \o Tail(@)],
         \/ chat_events' = chat_events /\ Head(pend[t]).op # "push"
         \/ chat_events' = Append(chat_events, Head(pend[t]).event),
         NEW u \in Uid, JoinAsked(u)
  PROVE  JoinAsked(u)'
<1>1. /\ \A x \in Thread : pend[x] \in Seq(RequestStep)
      /\ chat_events \in Seq(ChatEvent)
      /\ \A x \in Thread : pend'[x] = IF x = t THEN more \o Tail(pend[t]) ELSE pend[x]
  BY DEF Inv, TypeOK, QueuesOK
<1>2. ASSUME NEW i \in DOMAIN chat_events, IsJoin(chat_events[i], u) PROVE JoinAsked(u)'
  <2>1. i \in DOMAIN chat_events' /\ chat_events'[i] = chat_events[i]
    BY <1>1
  <2> QED
    BY <1>2, <2>1 DEF JoinAsked, IsJoin
<1>3. ASSUME NEW x \in Thread, NEW i \in DOMAIN pend[x], pend[x][i].op = "push",
             IsJoin(pend[x][i].event, u)
      PROVE  JoinAsked(u)'
  <2>1. CASE x # t
    <3>1. pend'[x] = pend[x]
      BY <1>1, <2>1
    <3> QED
      BY <1>3, <3>1 DEF JoinAsked, IsJoin
  <2>2. CASE x = t
    <3>1. CASE i = 1 /\ pend[t][i] = Head(pend[t])
      <4>1. chat_events' = Append(chat_events, pend[t][i].event)
        BY <1>3, <2>2, <3>1
      <4>2. /\ Len(chat_events) + 1 \in DOMAIN chat_events'
            /\ chat_events'[Len(chat_events) + 1] = pend[t][i].event
        BY <1>1, <4>1
      <4> QED
        BY <1>3, <2>2, <4>2 DEF JoinAsked, IsJoin
    <3>2. CASE i - 1 \in DOMAIN Tail(pend[t]) /\ Tail(pend[t])[i - 1] = pend[t][i]
      <4>1. Tail(pend[t]) \in Seq(RequestStep)
        BY <1>1, RestOfSteps
      <4>2. PICK j \in DOMAIN (more \o Tail(pend[t])) : (more \o Tail(pend[t]))[j] = pend[t][i]
        <5> DEFINE rest == Tail(pend[t])
        <5>1. rest \in Seq(RequestStep) /\ i - 1 \in DOMAIN rest /\ rest[i - 1] = pend[t][i]
          BY <3>2, <4>1
        <5> HIDE DEF rest
        <5>2. \E j \in DOMAIN (more \o rest) : (more \o rest)[j] = rest[i - 1]
          BY <5>1, FoundLater
        <5> QED
          BY <5>1, <5>2 DEF rest
      <4>3. j \in DOMAIN pend'[t] /\ pend'[t][j] = pend[t][i]
        BY <1>1, <4>2
      <4> QED
        BY <1>3, <2>2, <4>3 DEF JoinAsked, IsJoin
    <3> QED
      BY <1>1, <2>2, <3>1, <3>2, FirstAndRest
  <2> QED
    BY <2>1, <2>2
<1> QED
  BY <1>2, <1>3 DEF JoinAsked
\* The direct writes take memberships away, but for the copies of pages.
LEMMA WritesShrink ==
  ASSUME Inv, NEW t \in Thread, Step(t)
  PROVE  /\ \A u \in Uid : users'[u] = users[u]
         /\ \A u \in Uid :
              \/ \A c \in Channel : gstate'[u].us[c] \subseteq gstate[u].us[c]
              \/ S(t).op = "set_user_state" /\ S(t).uid = u
<1>1. users' = users
  BY DEF Step, push_back, send_update, WriteState, ChangeSessions,
     check_for_channel_cleanup, Done, threadVars
<1>2. CASE ~ WriteState(t)
  <2>1. gstate' = gstate
    BY <1>2 DEF Step, push_back, send_update, ChangeSessions, check_for_channel_cleanup,
       sharedVars
  <2> QED
    BY <1>1, <2>1
<1>3. CASE WriteState(t)
  <2>1. pend[t] # << >> /\ S(t) \in SafeStep /\ gstate \in [Uid -> GState]
    BY <1>3, StepInHand DEF WriteState, Inv, TypeOK, SharedOK
  <2>2. CASE S(t).op = "set_user_state" /\ gstate' = [gstate EXCEPT ![S(t).uid] = S(t).state]
    BY <1>1, <2>1, <2>2
  <2>3. CASE /\ S(t).op = "part_channels"
             /\ gstate' = [gstate EXCEPT ![S(t).uid].us = part_channels(@, S(t).chans, S(t).ct)]
    <3>1. S(t).uid \in Uid /\ S(t).ct \in CT /\ S(t).chans \in SUBSET Channel
      BY <2>1, <2>3, StepFields
    <3> DEFINE old == gstate[S(t).uid]
               us == part_channels(old.us, S(t).chans, S(t).ct)
    <3>2. old \in GState /\ \A c \in Channel : us[c] \subseteq old.us[c]
      BY <2>1, <3>1, PartMoves DEF GState
    <3>3. gstate' = [gstate EXCEPT ![S(t).uid] = [old EXCEPT !.us = us]]
      BY <2>1, <2>3, <3>1
    <3> HIDE DEF us
    <3>4. [old EXCEPT !.us = us].us = us
      BY <3>2 DEF GState
    <3>5. \A u \in Uid : gstate'[u] = IF u = S(t).uid THEN [old EXCEPT !.us = us] ELSE gstate[u]
      BY <2>1, <3>3
    <3> QED
      BY <1>1, <3>2, <3>4, <3>5
  <2>4. CASE S(t).op = "set_status" /\ gstate' = [gstate EXCEPT ![S(t).uid].status = S(t).status]
    BY <1>1, <2>1, <2>4 DEF GState
  <2>5. CASE S(t).op = "set_nick" /\ gstate' = [gstate EXCEPT ![S(t).uid].named = TRUE]
    BY <1>1, <2>1, <2>5 DEF GState
  <2> QED
    BY <1>3, <2>2, <2>3, <2>4, <2>5 DEF WriteState
<1> QED
  BY <1>2, <1>3

Quiet(steps) == \A i \in DOMAIN steps : steps[i].op # "set_user_state"

LEMMA PartIsQuiet ==
  ASSUME NEW u, NEW ct, NEW chans
  PROVE  Quiet(us_PART_CHANNEL(u, ct, chans))
BY DEF Quiet, us_PART_CHANNEL, Push

\* What a step leaves of a request, and what is pushed.
LEMMA StepGoesOn ==
  ASSUME Inv, NEW t \in Thread, Step(t)
  PROVE  /\ pend[t] # << >>
         /\ \E more \in Seq(RequestStep) :
              Quiet(more) /\ pend' = [pend EXCEPT ![t] = more \o Tail(@)]
         /\ \/ chat_events' = chat_events /\ Head(pend[t]).op # "push"
            \/ chat_events' = Append(chat_events, Head(pend[t]).event)
<1>1. pend[t] # << >>
  BY DEF Step, push_back, send_update, WriteState, ChangeSessions,
     check_for_channel_cleanup, Now
<1>2. /\ S(t) \in SafeStep
      /\ Tail(pend[t]) \in Seq(SafeStep)
  BY <1>1, StepInHand
<1>3. \/ chat_events' = chat_events /\ Head(pend[t]).op # "push"
      \/ chat_events' = Append(chat_events, Head(pend[t]).event)
  BY DEF Step, push_back, send_update, WriteState, ChangeSessions,
     check_for_channel_cleanup, Now, S, sharedVars
<1>4. CASE ~ check_for_channel_cleanup(t)
  <2>1. pend' = [pend EXCEPT ![t] = Tail(@)]
    BY <1>4 DEF Step, push_back, send_update, WriteState, ChangeSessions, Done
  <2>2. << >> \o Tail(pend[t]) = Tail(pend[t]) /\ << >> \in Seq(RequestStep) /\ Quiet(<< >>)
    BY <1>2 DEF Quiet
  <2>3. pend' = [pend EXCEPT ![t] = << >> \o Tail(@)]
    BY <2>1, <2>2
  <2> QED
    BY <1>1, <1>3, <2>2, <2>3
<1>5. CASE check_for_channel_cleanup(t)
  <2> DEFINE more == IF InSomeChannel(gstate[S(t).uid].us)
                     THEN us_PART_CHANNEL(S(t).uid, "www", {}) ELSE << >>
  <2>1. S(t).uid \in Uid
    BY <1>2, <1>5, StepFields DEF check_for_channel_cleanup, Now, S
  <2>2. us_PART_CHANNEL(S(t).uid, "www", {}) \in Seq(SafeStep)
    BY <2>1, ProgramTypes DEF CT
  <2>3. us_PART_CHANNEL(S(t).uid, "www", {}) \in Seq(RequestStep)
    BY <2>2, SafeSteps
  <2>4. Quiet(us_PART_CHANNEL(S(t).uid, "www", {})) /\ Quiet(<< >>)
    BY PartIsQuiet DEF Quiet
  <2>5. more \in Seq(RequestStep) /\ Quiet(more)
    BY <2>3, <2>4
  <2>6. pend' = [pend EXCEPT ![t] = more \o Tail(@)]
    BY <1>5 DEF check_for_channel_cleanup
  <2> HIDE DEF more
  <2> QED
    BY <1>1, <1>3, <2>5, <2>6
<1> QED
  BY <1>4, <1>5

LEMMA StepAhead ==
  ASSUME Inv, AheadInv, NEW t \in Thread, Step(t)
  PROVE  AheadInv'
<1>1. /\ \A x \in Thread : pend[x] \in Seq(RequestStep)
      /\ pend[t] # << >>
      /\ DOMAIN pend = Thread
  BY StepGoesOn DEF Inv, TypeOK, QueuesOK
<1>2. PICK more \in Seq(RequestStep) :
        Quiet(more) /\ pend' = [pend EXCEPT ![t] = more \o Tail(@)]
  BY StepGoesOn
<1>3. \A x \in Thread : pend'[x] = IF x = t THEN more \o Tail(pend[t]) ELSE pend[x]
  BY <1>1, <1>2
<1>4. Tail(pend[t]) \in Seq(RequestStep)
  BY <1>1, RestOfSteps
<1>5. ASSUME NEW x \in Thread PROVE JoinFollows(pend'[x])
  <2>1. JoinFollows(pend[x]) /\ JoinFollows(pend[t])
    BY DEF AheadInv
  <2>2. JoinFollows(Tail(pend[t]))
    BY <1>1, <2>1, FollowsRest
  <2>3. JoinFollows(more \o Tail(pend[t]))
    BY <1>2, <1>4, <2>2, FollowsJoined DEF Quiet
  <2> QED
    BY <1>3, <2>1, <2>3
<1>6. ASSUME NEW u \in Uid PROVE NotAhead(u)' \/ JoinAsked(u)'
  <2>1. CASE JoinAsked(u)
    BY <1>1, <1>2, <2>1, AskedStays, StepGoesOn
  <2>2. CASE NotAhead(u) /\ \A c \in Channel : gstate'[u].us[c] \subseteq gstate[u].us[c]
    <3>1. users'[u] = users[u]
      BY WritesShrink
    <3> QED
      BY <2>2, <3>1 DEF NotAhead
  <2>3. CASE S(t).op = "set_user_state" /\ S(t).uid = u
    <3>1. 1 \in DOMAIN pend[t] /\ pend[t][1] = Head(pend[t])
      BY <1>1, RestOfSteps
    <3>2. 2 \in DOMAIN pend[t] /\ pend[t][2].op = "push" /\ IsJoin(pend[t][2].event, u)
      <4>1. JoinFollows(pend[t])
        BY DEF AheadInv
      <4>2. pend[t][1].op = "set_user_state" /\ pend[t][1].uid = u
        BY <2>3, <3>1 DEF S
      <4>3. 1 + 1 = 2
        OBVIOUS
      <4> QED
        BY <3>1, <4>1, <4>2, <4>3 DEF JoinFollows
    <3>3. 1 \in DOMAIN Tail(pend[t]) /\ Tail(pend[t])[1] = pend[t][2]
      BY <1>1, <3>2
    <3>4. PICK j \in DOMAIN (more \o Tail(pend[t])) : (more \o Tail(pend[t]))[j] = pend[t][2]
      <4> DEFINE rest == Tail(pend[t])
      <4>1. rest \in Seq(RequestStep) /\ 1 \in DOMAIN rest /\ rest[1] = pend[t][2]
        BY <1>4, <3>3
      <4> HIDE DEF rest
      <4>2. \E j \in DOMAIN (more \o rest) : (more \o rest)[j] = rest[1]
        BY <4>1, FoundLater
      <4> QED
        BY <4>1, <4>2 DEF rest
    <3>5. j \in DOMAIN pend'[t] /\ pend'[t][j] = pend[t][2]
      BY <1>3, <3>4
    <3> QED
      BY <3>2, <3>5 DEF JoinAsked, IsJoin
  <2> QED
    BY <2>1, <2>2, <2>3, WritesShrink DEF AheadInv
<1> QED
  BY <1>5, <1>6 DEF AheadInv
\* A thread starts a request whose copies are followed by their joins.
LEMMA BeginAhead ==
  ASSUME Inv, AheadInv, NEW t \in Thread, NEW steps, Begin(t, steps), JoinFollows(steps)
  PROVE  AheadInv'
<1>1. /\ pend[t] = << >> /\ pend' = [pend EXCEPT ![t] = steps] /\ DOMAIN pend = Thread
      /\ UNCHANGED <<users, gstate, chat_events>>
  BY DEF Begin, threadVars, Inv, TypeOK, QueuesOK
<1>2. \A x \in Thread : pend'[x] = IF x = t THEN steps ELSE pend[x]
  BY <1>1
<1>3. \A x \in Thread : JoinFollows(pend'[x])
  BY <1>2 DEF AheadInv
<1>4. ASSUME NEW u \in Uid, JoinAsked(u) PROVE JoinAsked(u)'
  <2>1. ASSUME NEW x \in Thread, NEW i \in DOMAIN pend[x], pend[x][i].op = "push",
               IsJoin(pend[x][i].event, u)
        PROVE  JoinAsked(u)'
    <3>1. x # t
      BY <1>1
    <3>2. pend'[x] = pend[x]
      BY <1>2, <3>1
    <3> QED
      BY <2>1, <3>2 DEF JoinAsked, IsJoin
  <2> QED
    BY <1>1, <1>4, <2>1 DEF JoinAsked, IsJoin
<1>5. \A u \in Uid : NotAhead(u) => NotAhead(u)'
  BY <1>1 DEF NotAhead
<1> QED
  BY <1>3, <1>4, <1>5 DEF AheadInv

LEMMA QuietFollows ==
  ASSUME NEW steps, Quiet(steps)
  PROVE  JoinFollows(steps)
BY DEF Quiet, JoinFollows

LEMMA QuietBoth ==
  ASSUME NEW Steps, NEW p \in Seq(Steps), NEW s \in Seq(Steps), Quiet(p), Quiet(s)
  PROVE  Quiet(p \o s)
<1> DEFINE r == p \o s
<1>1. \A i \in DOMAIN r : \/ i \in DOMAIN p /\ r[i] = p[i]
                          \/ i - Len(p) \in DOMAIN s /\ r[i] = s[i - Len(p)]
  BY LaterPart
<1> HIDE DEF r
<1> QED
  BY <1>1 DEF Quiet, r

LEMMA FollowsQuiet ==
  ASSUME NEW Steps, NEW p \in Seq(Steps), NEW s \in Seq(Steps), JoinFollows(p), Quiet(s)
  PROVE  JoinFollows(p \o s)
<1> DEFINE r == p \o s
<1> SUFFICES ASSUME NEW i \in DOMAIN r, r[i].op = "set_user_state"
             PROVE  /\ i + 1 \in DOMAIN r /\ r[i + 1].op = "push"
                    /\ IsJoin(r[i + 1].event, r[i].uid)
  BY DEF JoinFollows
<1>1. i \in DOMAIN p /\ r[i] = p[i]
  BY LaterPart DEF Quiet
<1>2. i + 1 \in DOMAIN p /\ p[i + 1].op = "push" /\ IsJoin(p[i + 1].event, p[i].uid)
  BY <1>1 DEF JoinFollows
<1>3. i + 1 \in DOMAIN r /\ r[i + 1] = p[i + 1]
  BY <1>2, LaterPart
<1> QED
  BY <1>1, <1>2, <1>3

\* The page of a web client pushes its join after the copy.
LEMMA WwwJoinAhead ==
  ASSUME Inv, AheadInv, NEW t \in Thread, NEW u \in Uid, NEW ch \in Channel, WwwJoin(t, u, ch)
  PROVE  AheadInv'
<1> DEFINE first(st) == << [op |-> "set_user_state", uid |-> u,
                            state |-> [us |-> www_channel_replace(gstate[u].us, ch),
                                       status |-> st, named |-> TRUE]],
                           Push(JoinEvent(u, "www", ch, st)),
                           Push([type |-> "CHAT_MESSAGES2", uid |-> u, ch |-> ch]) >>
           then(st) == << Update(StatusUpdate(u, st)) >>
<1>1. PICK st \in Status :
        Begin(t, first(st) \o IF st = last_status[u] THEN << >> ELSE then(st))
  BY DEF WwwJoin
<1>2. PICK more \in {<< >>, then(st)} : Begin(t, first(st) \o more)
  BY <1>1
<1>3. JoinFollows(first(st))
  BY DEF JoinFollows, IsJoin, Push, JoinEvent
<1>4. Quiet(more)
  BY <1>2 DEF Quiet, Update
<1>5. \E Steps : first(st) \in Seq(Steps) /\ more \in Seq(Steps)
  <2> DEFINE a == [op |-> "set_user_state", uid |-> u,
                   state |-> [us |-> www_channel_replace(gstate[u].us, ch),
                              status |-> st, named |-> TRUE]]
             b == Push(JoinEvent(u, "www", ch, st))
             c == Push([type |-> "CHAT_MESSAGES2", uid |-> u, ch |-> ch])
             d == Update(StatusUpdate(u, st))
  <2>1. first(st) = << a, b, c >> /\ (more = << >> \/ more = << d >>)
    BY <1>2
  <2> HIDE DEF a, b, c, d, first
  <2>2. << a, b, c >> \in Seq({a, b, c, d}) /\ << >> \in Seq({a, b, c, d}) /\ << d >> \in Seq({a, b, c, d})
    BY ThreeOrFour
  <2> QED
    BY <2>1, <2>2
<1> HIDE DEF first
<1>6. JoinFollows(first(st) \o more)
  BY <1>3, <1>4, <1>5, FollowsQuiet
<1> QED
  BY <1>2, <1>6, BeginAhead

\* No other request writes back a copy.
LEMMA RequestAhead ==
  ASSUME Inv, AheadInv, NEW t \in Thread, Request(t)
  PROVE  AheadInv'
<1>1. PICK u \in Uid :
        \/ \E ch \in Channel : WwwJoin(t, u, ch)
        \/ \E ch \in Channel : IrcJoin(t, u, ch)
        \/ WwwExit(t, u)
        \/ \E ch \in Channel : IrcPart(t, u, ch)
        \/ IrcDisconnect(t, u)
        \/ WwwExpire(t, u)
        \/ Kick(t, u)
        \/ \E st \in Status : SetStatus(t, u, st)
        \/ ChangeNick(t, u)
        \/ \E mode \in Modes : ChangeMode(t, u, mode)
        \/ \E ct \in CT : Login(t, u, ct)
  BY DEF Request
<1> DEFINE quiet == \E steps : Begin(t, steps) /\ Quiet(steps)
<1>2. quiet => AheadInv'
  BY BeginAhead, QuietFollows
<1>3. \A ch \in Channel : IrcJoin(t, u, ch) => quiet
  <2>1. \A ch \in Channel : Quiet(<< Push(JoinEvent(u, "irc", ch, "online")) >>)
    BY DEF Quiet, Push
  <2> QED
    BY <2>1 DEF IrcJoin
<1>4. /\ WwwExit(t, u) => quiet
      /\ \A ch \in Channel : IrcPart(t, u, ch) => quiet
  BY PartIsQuiet DEF WwwExit, IrcPart
<1>5. IrcDisconnect(t, u) => quiet
  <2> DEFINE p == us_PART_CHANNEL(u, "irc", {})
             s == << [op |-> "erase$", key |-> <<u, "irc">>] >>
  <2>1. Quiet(p) /\ Quiet(s)
    BY PartIsQuiet DEF Quiet
  <2>2. \E Steps : p \in Seq(Steps) /\ s \in Seq(Steps)
    <3>1. p \in Seq({p[1], p[2], s[1]}) /\ s \in Seq({p[1], p[2], s[1]})
      BY DEF us_PART_CHANNEL
    <3> QED
      BY <3>1
  <2>3. IrcDisconnect(t, u) => Begin(t, p \o s)
    BY DEF IrcDisconnect
  <2> HIDE DEF p, s
  <2> QED
    BY <2>1, <2>2, <2>3, QuietBoth
<1>6. WwwExpire(t, u) => quiet
  <2>1. /\ Quiet(<< [op |-> "cleanup", uid |-> u] >>)
        /\ Quiet(<< [op |-> "erase$", key |-> <<u, "www">>], [op |-> "cleanup", uid |-> u] >>)
    BY DEF Quiet
  <2> QED
    BY <2>1 DEF WwwExpire
<1>7. Kick(t, u) => quiet
  <2>1. Quiet(<< Push(UserEvent("KICK_USER", u)) >>)
    BY DEF Quiet, Push
  <2> QED
    BY <2>1 DEF Kick
<1>8. \A st \in Status : SetStatus(t, u, st) => quiet
  <2>1. \A st \in Status : Quiet(us_SET_STATUS(u, st))
    BY DEF Quiet, us_SET_STATUS, Push, Update
  <2> QED
    BY <2>1 DEF SetStatus
<1>9. Quiet(us_SET_NICK(u))
  BY DEF Quiet, us_SET_NICK, Push
<1>10. ChangeNick(t, u) => quiet
  <2> DEFINE p == << [op |-> "set_nick", uid |-> u] >>
             s == us_SET_NICK(u)
  <2>1. Quiet(p)
    BY DEF Quiet
  <2>2. \E Steps : p \in Seq(Steps) /\ s \in Seq(Steps)
    <3>1. p \in Seq({p[1], s[1], s[2]}) /\ s \in Seq({p[1], s[1], s[2]})
      BY DEF us_SET_NICK
    <3> QED
      BY <3>1
  <2>3. ChangeNick(t, u) => Begin(t, p \o s)
    BY DEF ChangeNick
  <2> HIDE DEF p, s
  <2>4. Quiet(s)
    BY <1>9 DEF s
  <2> QED
    BY <2>1, <2>2, <2>3, <2>4, QuietBoth
<1>11. ASSUME NEW mode \in Modes, ChangeMode(t, u, mode) PROVE quiet
  <2>1. \A a, b, c : Quiet(<< Push(a), Push(b), Update(c) >>)
    BY DEF Quiet, Push, Update
  <2>2. \E a, b, c : Begin(t, << Push(a), Push(b), Update(c) >>)
    BY <1>11 DEF ChangeMode
  <2> QED
    BY <2>1, <2>2
<1>12. ASSUME NEW ct \in CT, Login(t, u, ct) PROVE quiet
  <2> DEFINE p == << Push(UserEvent("FLUSH_USER_DATA", u)), [op |-> "insert$", key |-> <<u, ct>>] >>
             s == IF ct = "irc" THEN us_SET_NICK(u) ELSE << >>
  <2>1. Quiet(p) /\ Quiet(s)
    BY <1>9 DEF Quiet, Push
  <2>2. \E Steps : p \in Seq(Steps) /\ s \in Seq(Steps)
    <3> DEFINE a == Push(UserEvent("FLUSH_USER_DATA", u))
               b == [op |-> "insert$", key |-> <<u, ct>>]
               c == Push(UserEvent("SET_NICK", u))
               d == [op |-> "set_nick", uid |-> u]
    <3>1. p = << a, b >> /\ (s = << >> \/ s = << c, d >>)
      BY DEF us_SET_NICK
    <3> HIDE DEF a, b, c, d, p, s
    <3>2. << a, b >> \in Seq({a, b, c, d}) /\ << >> \in Seq({a, b, c, d}) /\ << c, d >> \in Seq({a, b, c, d})
      BY ThreeOrFour
    <3> QED
      BY <3>1, <3>2
  <2>3. Begin(t, p \o s)
    BY <1>12 DEF Login
  <2> HIDE DEF p, s
  <2> QED
    BY <2>1, <2>2, <2>3, QuietBoth
<1> HIDE DEF quiet
<1> QED
  BY <1>1, <1>2, <1>3, <1>4, <1>5, <1>6, <1>7, <1>8, <1>10, <1>11, <1>12, WwwJoinAhead
\* A handler touches its own user only: it publishes, forgets, or leaves the
\* memberships; a join is published.
LEMMA HandlerPublishes ==
  ASSUME Inv, HandleEvent
  PROVE  /\ batch > 0 /\ E \in ChatEvent
         /\ \A v \in Uid : v # E.uid => users'[v] = users[v] /\ gstate'[v] = gstate[v]
         /\ \/ gstate'[E.uid].us = users'[E.uid].us
            \/ /\ E.type # "JOIN"
               /\ gstate'[E.uid].us = gstate[E.uid].us
               /\ users'[E.uid].us = users[E.uid].us
         /\ \E pushed \in Seq(ChatEvent) : chat_events' = Tail(chat_events) \o pushed
<1> DEFINE u == E.uid
           old == get_user_p(u)
           Result == /\ \A v \in Uid : v # u => users'[v] = users[v] /\ gstate'[v] = gstate[v]
                     /\ \/ gstate'[u].us = users'[u].us
                        \/ /\ E.type # "JOIN"
                           /\ gstate'[u].us = gstate[u].us
                           /\ users'[u].us = users[u].us
<1>1. batch > 0 /\ u \in Uid /\ E \in ChatEvent
  <2>1. \E type : Event(type)
    BY DEF HandleEvent, on_common_JOIN, do_JOIN_CHANNEL, do_PART_CHANNEL, do_SET_STATUS,
       do_SET_NICK, do_KICK_USER, do_CHANGE_CONTACT_MODE, on_UPDATE_CONTACT_LIST,
       on_CHAT_MESSAGES2, on_UPDATE_DATA, FLUSH_USER_DATA
  <2>2. PICK type : Event(type)
    BY <2>1
  <2> QED
    BY <2>2, EventInHand, EventFields DEF Inv
<1>2. /\ old \in GoodObj /\ old.us = users[u].us
      /\ preload_user(u).us = NoChannels
      /\ u \notin loaded => users[u].us = NoChannels
  BY <1>1, UserFound, InitialTypes DEF Inv, TypeOK, UsersOK
<1>3. users \in [Uid -> UserObj] /\ gstate \in [Uid -> GState]
  BY DEF Inv, TypeOK, UsersOK, SharedOK
<1>4. ASSUME NEW obj, SetUser(u, obj), Publish(u, obj) PROVE Result
  BY <1>1, <1>3, <1>4 DEF SetUser, Publish, StateOf
<1>5. ASSUME NEW obj, SetUser(u, obj), obj.us = old.us, PublishIfPreloaded(u), E.type # "JOIN"
      PROVE  Result
  <2>1. users' = [users EXCEPT ![u] = obj]
    BY <1>5 DEF SetUser
  <2>2. CASE u \in loaded
    BY <1>1, <1>2, <1>3, <1>5, <2>1, <2>2 DEF PublishIfPreloaded
  <2>3. CASE u \notin loaded
    BY <1>1, <1>2, <1>3, <1>5, <2>1, <2>3 DEF PublishIfPreloaded, Publish, StateOf
  <2> QED
    BY <2>2, <2>3
<1>6. ASSUME users' = [users EXCEPT ![u] = NoUser], Forget(u) PROVE Result
  BY <1>1, <1>3, <1>6, InitialTypes DEF Forget
<1>7. ASSUME UNCHANGED <<users, gstate>>, E.type # "JOIN" PROVE Result
  BY <1>7
<1>8. \A type : Event(type) => E.type = type
  BY DEF Event, E
<1>9. \A pushed \in Seq(ChatEvent) : Handled(pushed) => \E p \in Seq(ChatEvent) : chat_events' = Tail(chat_events) \o p
  BY DEF Handled
<1>10. << >> \in Seq(ChatEvent) /\ \E p \in Seq(ChatEvent) : Tail(chat_events) = Tail(chat_events) \o p
  <2>1. Tail(chat_events) \in Seq(ChatEvent)
    <3>1. chat_events \in Seq(ChatEvent) /\ chat_events # << >>
      BY <1>1 DEF Inv, TypeOK, QueuesOK
    <3> QED
      BY <3>1
  <2>2. << >> \in Seq(ChatEvent)
    OBVIOUS
  <2> QED
    BY <2>1, <2>2, NothingMore
<1> DEFINE Taken == \E p \in Seq(ChatEvent) : chat_events' = Tail(chat_events) \o p
<1> SUFFICES Result /\ Taken
  BY <1>1
<1>11. CASE on_common_JOIN \/ do_JOIN_CHANNEL
  <2>1. \E obj : SetUser(u, obj) /\ Publish(u, obj)
    BY <1>11 DEF on_common_JOIN, do_JOIN_CHANNEL, on_JOIN_fix_lists
  <2>2. [E EXCEPT !.type = "JOIN_CHANNEL"] \in ChatEvent
    BY <1>1, <1>8, <1>11, EventFields DEF on_common_JOIN, do_JOIN_CHANNEL
  <2>3. << [E EXCEPT !.type = "JOIN_CHANNEL"] >> \in Seq(ChatEvent)
    BY <2>2
  <2>4. Taken
    BY <1>9, <1>10, <1>11, <2>3 DEF on_common_JOIN, do_JOIN_CHANNEL
  <2> HIDE DEF Result, Taken
  <2> QED
    BY <1>4, <2>1, <2>4
<1>12. CASE do_PART_CHANNEL
  <2>1. \E obj : SetUser(u, obj) /\ Publish(u, obj)
    BY <1>12 DEF do_PART_CHANNEL
  <2>2. Taken
    BY <1>9, <1>10, <1>12 DEF do_PART_CHANNEL
  <2> HIDE DEF Result, Taken
  <2> QED
    BY <1>4, <2>1, <2>2
<1>13. CASE do_SET_STATUS
  <2>1. E.type # "JOIN"
    BY <1>8, <1>13 DEF do_SET_STATUS
  <2>2. \/ SetUser(u, old) /\ PublishIfPreloaded(u)
        \/ \E obj : SetUser(u, obj) /\ Publish(u, obj)
    BY <1>13 DEF do_SET_STATUS
  <2>3. Taken
    BY <1>9, <1>10, <1>13 DEF do_SET_STATUS
  <2> HIDE DEF Result, Taken, old
  <2> QED
    BY <1>4, <1>5, <2>1, <2>2, <2>3
<1>14. CASE do_SET_NICK
  <2>1. E.type # "JOIN"
    BY <1>8, <1>14 DEF do_SET_NICK
  <2>2. \/ SetUser(u, old) /\ PublishIfPreloaded(u)
        \/ SetUser(u, old) /\ Publish(u, old)
    BY <1>14 DEF do_SET_NICK
  <2>3. Taken
    BY <1>9, <1>10, <1>14 DEF do_SET_NICK
  <2> HIDE DEF Result, Taken, old
  <2> QED
    BY <1>4, <1>5, <2>1, <2>2, <2>3
<1>15. CASE do_KICK_USER
  <2>1. users' = [users EXCEPT ![u] = NoUser] /\ Forget(u) /\ chat_events' = Tail(chat_events)
    BY <1>15 DEF do_KICK_USER
  <2> HIDE DEF Result
  <2> QED
    BY <1>6, <1>10, <2>1
<1>16. CASE do_CHANGE_CONTACT_MODE
  <2> DEFINE modes == IF E.on THEN old.modes \cup {E.mode} ELSE old.modes \ {E.mode}
             new == [old EXCEPT !.modes = modes]
  <2>1. E.type # "JOIN" /\ E.mode \in Modes
    BY <1>1, <1>8, <1>16, EventFields DEF do_CHANGE_CONTACT_MODE
  <2>2. modes \in SUBSET Modes
    BY <1>2, <2>1 DEF GoodObj, UserObj
  <2>3. SetUser(u, new) /\ PublishIfPreloaded(u)
    BY <1>16 DEF do_CHANGE_CONTACT_MODE
  <2>4. Taken
    BY <1>9, <1>10, <1>16 DEF do_CHANGE_CONTACT_MODE
  <2> HIDE DEF modes
  <2>5. new.us = old.us
    BY <1>2, <2>2, FieldsGood
  <2> HIDE DEF Result, Taken, old, new
  <2> QED
    BY <1>5, <2>1, <2>3, <2>4, <2>5
<1>17. CASE on_UPDATE_CONTACT_LIST
  <2>1. E.type # "JOIN" /\ SetUser(u, old) /\ PublishIfPreloaded(u)
    BY <1>8, <1>17 DEF on_UPDATE_CONTACT_LIST
  <2>2. Taken
    BY <1>9, <1>10, <1>17 DEF on_UPDATE_CONTACT_LIST
  <2> HIDE DEF Result, Taken, old
  <2> QED
    BY <1>5, <2>1, <2>2
<1>18. CASE on_CHAT_MESSAGES2
  <2>1. E.type # "JOIN"
    BY <1>8, <1>18 DEF on_CHAT_MESSAGES2
  <2>2. \/ SetUser(u, old) /\ PublishIfPreloaded(u)
        \/ SetUser(u, old) /\ Publish(u, old)
    BY <1>18 DEF on_CHAT_MESSAGES2
  <2>3. Taken
    BY <1>9, <1>10, <1>18 DEF on_CHAT_MESSAGES2
  <2> HIDE DEF Result, Taken, old
  <2> QED
    BY <1>4, <1>5, <2>1, <2>2, <2>3
<1>19. CASE on_UPDATE_DATA
  <2>1. users[u] \in UserObj
    BY <1>1, <1>3
  <2>2. \/ users' = users
        \/ \E obj : users' = [users EXCEPT ![u] = obj] /\ obj.us = users[u].us
    BY <1>19, <2>1 DEF on_UPDATE_DATA, UserObj
  <2>3. gstate' = gstate /\ E.type # "JOIN"
    BY <1>8, <1>19 DEF on_UPDATE_DATA
  <2>4. Taken
    BY <1>9, <1>10, <1>19 DEF on_UPDATE_DATA
  <2>5. Result
    BY <1>1, <1>3, <2>2, <2>3
  <2> QED
    BY <2>4, <2>5
<1>20. CASE FLUSH_USER_DATA
  <2>1. \/ users' = [users EXCEPT ![u] = NoUser] /\ Forget(u)
        \/ UNCHANGED <<users, gstate>>
    BY <1>20 DEF FLUSH_USER_DATA, unload_user
  <2>2. E.type # "JOIN"
    BY <1>8, <1>20 DEF FLUSH_USER_DATA
  <2>3. Taken
    BY <1>9, <1>10, <1>20 DEF FLUSH_USER_DATA
  <2> HIDE DEF Result, Taken
  <2> QED
    BY <1>6, <1>7, <2>1, <2>2, <2>3
<1> HIDE DEF Result, Taken
<1> QED
  BY <1>11, <1>12, <1>13, <1>14, <1>15, <1>16, <1>17, <1>18, <1>19, <1>20 DEF HandleEvent

LEMMA HandlerAhead ==
  ASSUME Inv, AheadInv, HandleEvent, pend' = pend
  PROVE  AheadInv'
<1> DEFINE u == E.uid
<1>1. /\ \A x \in Thread : JoinFollows(pend'[x])
      /\ E \in ChatEvent /\ batch > 0 /\ u \in Uid
      /\ chat_events \in Seq(ChatEvent) /\ chat_events # << >>
  <2>1. E \in ChatEvent /\ batch > 0
    BY HandlerPublishes
  <2>2. u \in Uid
    BY <2>1, EventFields
  <2>3. chat_events \in Seq(ChatEvent) /\ chat_events # << >>
    BY <2>1 DEF Inv, TypeOK, QueuesOK
  <2>4. \A x \in Thread : JoinFollows(pend'[x])
    BY DEF AheadInv
  <2> QED
    BY <2>1, <2>2, <2>3, <2>4
<1>2. PICK pushed \in Seq(ChatEvent) : chat_events' = Tail(chat_events) \o pushed
  BY HandlerPublishes
<1>3. ASSUME NEW v \in Uid, JoinAsked(v), ~ IsJoin(E, v) PROVE JoinAsked(v)'
  <2>1. ASSUME NEW i \in DOMAIN chat_events, IsJoin(chat_events[i], v) PROVE JoinAsked(v)'
    <3>1. i - 1 \in DOMAIN Tail(chat_events) /\ Tail(chat_events)[i - 1] = chat_events[i]
      BY <1>1, <1>3, <2>1, FirstAndRest DEF E
    <3>2. Tail(chat_events) \in Seq(ChatEvent)
      BY <1>1, RestOfSteps
    <3>3. i - 1 \in DOMAIN chat_events' /\ chat_events'[i - 1] = chat_events[i]
      BY <1>2, <3>1, <3>2, LaterPart
    <3> QED
      BY <2>1, <3>3 DEF JoinAsked, IsJoin
  <2> QED
    BY <1>3, <2>1 DEF JoinAsked, IsJoin
<1>4. ASSUME NEW v \in Uid, v # u PROVE NotAhead(v)' \/ JoinAsked(v)'
  <2>1. users'[v] = users[v] /\ gstate'[v] = gstate[v]
    BY <1>4, HandlerPublishes
  <2>2. NotAhead(v) => NotAhead(v)'
    BY <2>1 DEF NotAhead
  <2>3. ~ IsJoin(E, v)
    BY <1>4 DEF IsJoin
  <2> QED
    BY <1>3, <2>2, <2>3 DEF AheadInv
<1>5. ASSUME NEW v \in Uid, v = u PROVE NotAhead(v)' \/ JoinAsked(v)'
  <2>1. CASE gstate'[v].us = users'[v].us
    BY <2>1 DEF NotAhead
  <2>2. CASE E.type # "JOIN" /\ gstate'[v].us = gstate[v].us /\ users'[v].us = users[v].us
    <3>1. NotAhead(v) => NotAhead(v)'
      BY <2>2 DEF NotAhead
    <3>2. ~ IsJoin(E, v)
      BY <2>2 DEF IsJoin
    <3> QED
      BY <1>3, <3>1, <3>2 DEF AheadInv
  <2> QED
    BY <1>5, <2>1, <2>2, HandlerPublishes
<1> QED
  BY <1>1, <1>4, <1>5 DEF AheadInv

\* Nothing else the chat thread does publishes, but the timer, which forgets.
LEMMA TrashAhead ==
  ASSUME Inv, AheadInv, NEW u \in Uid, unload_trash(u), pend' = pend
  PROVE  AheadInv'
<1>1. chat_events' = chat_events /\ users \in [Uid -> UserObj] /\ gstate \in [Uid -> GState]
  BY DEF unload_trash, Inv, TypeOK, UsersOK, SharedOK
<1>2. \/ users' = users /\ gstate' = gstate
      \/ users' = [users EXCEPT ![u] = NoUser] /\ gstate' = [gstate EXCEPT ![u] = NoState]
  BY DEF unload_trash, unload_user, Forget
<1>3. \A v \in Uid : NotAhead(v) => NotAhead(v)'
  BY <1>1, <1>2, InitialTypes DEF NotAhead
<1>4. \A v \in Uid : JoinAsked(v) => JoinAsked(v)'
  BY <1>1 DEF JoinAsked, IsJoin
<1> QED
  BY <1>3, <1>4 DEF AheadInv

LEMMA NothingAhead ==
  ASSUME AheadInv, UNCHANGED <<users, gstate, chat_events, pend>>
  PROVE  AheadInv'
<1>1. \A v \in Uid : NotAhead(v) => NotAhead(v)'
  BY DEF NotAhead
<1>2. \A v \in Uid : JoinAsked(v) => JoinAsked(v)'
  BY DEF JoinAsked, IsJoin
<1> QED
  BY <1>1, <1>2 DEF AheadInv

LEMMA UpdateAhead ==
  ASSUME Inv, AheadInv, UpdateProcessor
  PROVE  AheadInv'
<1>1. /\ UNCHANGED <<users, gstate, pend>>
      /\ chat_events' = Append(chat_events, Head(updates))
      /\ chat_events \in Seq(ChatEvent)
  BY DEF UpdateProcessor, threadVars, Inv, TypeOK, QueuesOK
<1>2. \A v \in Uid : NotAhead(v) => NotAhead(v)'
  BY <1>1 DEF NotAhead
<1>3. ASSUME NEW v \in Uid, JoinAsked(v) PROVE JoinAsked(v)'
  <2>1. \A i \in DOMAIN chat_events : i \in DOMAIN chat_events' /\ chat_events'[i] = chat_events[i]
    BY <1>1
  <2> QED
    BY <1>1, <1>3, <2>1 DEF JoinAsked, IsJoin
<1> QED
  BY <1>1, <1>2, <1>3 DEF AheadInv

LEMMA AheadInit == Init => AheadInv
BY DEF Init, AheadInv, JoinFollows, NotAhead, StateOf

LEMMA AheadNext == Inv /\ AheadInv /\ [Next]_vars => AheadInv'
<1> SUFFICES ASSUME Inv, AheadInv, [Next]_vars PROVE AheadInv'
  OBVIOUS
<1>1. CASE HandleEvent /\ UNCHANGED requestVars
  BY <1>1, HandlerAhead DEF requestVars
<1>2. ASSUME NEW u \in Uid, unload_trash(u), UNCHANGED requestVars PROVE AheadInv'
  BY <1>2, TrashAhead DEF requestVars
<1>3. CASE (ExtractAll \/ update_contact_lists \/ clean_local_clients) /\ UNCHANGED requestVars
  BY <1>3, NothingAhead DEF ExtractAll, update_contact_lists, clean_local_clients, threadVars,
     sharedVars, requestVars
<1>4. ASSUME NEW t \in Thread, Request(t) PROVE AheadInv'
  BY <1>4, RequestAhead
<1>5. ASSUME NEW t \in Thread, Step(t) PROVE AheadInv'
  BY <1>5, StepAhead
<1>6. CASE UpdateProcessor
  BY <1>6, UpdateAhead
<1>7. CASE UNCHANGED vars
  BY <1>7, NothingAhead DEF vars, threadVars, sharedVars, requestVars
<1> QED
  BY <1>1, <1>2, <1>3, <1>4, <1>5, <1>6, <1>7 DEF Next, ChatLoop

\* A join under way puts right whatever global_state claims too much, through
\* direct writes, whole copies written back late, kicks, flushes and reloads.
THEOREM AheadInvariant == Spec => []AheadInv
<1>1. Inv /\ Inv' /\ AheadInv /\ [Next]_vars => AheadInv'
  BY AheadNext
<1> QED
  BY <1>1, Invariance, AheadInit, PTL DEF Spec

\* When everything has settled, global_state claims no membership the chat
\* thread does not know of.
THEOREM StateFollowsThread == Spec => []GlobalNotAhead
<1>1. AheadInv => GlobalNotAhead
  <2> SUFFICES ASSUME AheadInv, Settled, NEW u \in Uid PROVE NotAhead(u)
    BY DEF GlobalNotAhead, NotAhead
  <2>1. ~ JoinAsked(u)
    BY DEF JoinAsked, Settled
  <2> QED
    BY <2>1 DEF AheadInv
<1> QED
  BY <1>1, AheadInvariant, PTL
-----------------------------------------------------------------------------
(* The index of the channels, the counts and the online time: a user's     *)
(* agree with its memberships until a kick or a flush.  A kick takes the   *)
(* instances away under echoes of joins that are still queued; these then  *)
(* write the memberships and the counts, but not the index.  A flush drops *)
(* the memberships and leaves the rest.                                    *)

\* Client ct of u hears the channels u is in through it; or it hears nothing.
Exact(u, ct) ==
  \A c \in Channel : localIn[c][<<u, ct>>].in = "out" <=> ct \notin users[u].us[c]
Empty(u, ct) == \A c \in Channel : localIn[c][<<u, ct>>].in = "out"

\* What is left of it after a kick, and after a flush nothing.
IndexOf(u) ==
  \A ct \in CT : u \in flushed \/ Exact(u, ct) \/ (u \in kicked /\ Empty(u, ct))

AccountsOf(u) ==
  \/ u \in kicked \cup flushed
  \/ /\ u \in join_time <=> InSomeChannel(users[u].us)
     /\ \A c \in Channel : u \in usersIn[c] <=> users[u].us[c] # {}

\* An echo finds the instance its JOIN has made, unless a kick has taken it.
Echoed(u, ct) ==
  \E i \in DOMAIN chat_events :
    /\ chat_events[i].type = "JOIN_CHANNEL"
    /\ chat_events[i].uid = u
    /\ chat_events[i].ct = ct
Ready(u, ct) ==
  local_clients[<<u, ct>>].on = TRUE \/ (u \in kicked /\ Empty(u, ct))

CalmInv ==
  /\ \A u \in Uid : IndexOf(u) /\ AccountsOf(u)
  /\ updates \in Seq(AskedEvent)
  /\ \A u \in Uid, ct \in CT : Echoed(u, ct) => Ready(u, ct)
-----------------------------------------------------------------------------
(* Normalising.                                                            *)

\* Only the entries of the client at hand, and the counts of its user, change.
LEMMA NormalizeLeaves ==
  ASSUME localIn \in [Channel -> [Key -> Entry]], usersIn \in [Channel -> SUBSET Uid],
         NEW k \in Key, NEW obj, NEW clients, NEW c \in Channel
  PROVE  /\ \A j \in Key \ {k} : normalize_local(k, obj, clients)[c][j] = localIn[c][j]
         /\ \A v \in Uid \ {k[1]} : v \in normalize_users(k, obj, clients)[c] <=> v \in usersIn[c]
BY DEF normalize_local, normalize_users

\* A client with no instance and no entry gets none.
LEMMA NormalizeEmpty ==
  ASSUME localIn \in [Channel -> [Key -> Entry]], NEW k \in Key, NEW obj, NEW clients,
         ~ clients[k].on, NEW c \in Channel, localIn[c][k].in = "out"
  PROVE  normalize_local(k, obj, clients)[c][k].in = "out"
BY DEF normalize_local

\* With an instance, or with nothing to add, the walk gets to every channel.
LEMMA NormalizeReaches ==
  ASSUME NEW k \in Key, NEW obj, NEW clients,
         \/ clients[k].on
         \/ \A d \in Channel : localIn[d][k].in = "out" => k[2] \notin obj.us[d]
  PROVE  \A c \in Channel : Reached(c, k, obj, clients)
BY DEF Reached, NoInstance, channel_us_count_usr

\* The client then hears the channels its user is in through it.
LEMMA NormalizeExact ==
  ASSUME localIn \in [Channel -> [Key -> Entry]], usersIn \in [Channel -> SUBSET Uid],
         NEW k \in Key, NEW obj, NEW clients,
         \/ clients[k].on
         \/ \A d \in Channel : localIn[d][k].in = "out" => k[2] \notin obj.us[d],
         NEW c \in Channel
  PROVE  /\ normalize_local(k, obj, clients)[c][k].in = "out" <=> k[2] \notin obj.us[c]
         /\ k[1] \in normalize_users(k, obj, clients)[c] <=> obj.us[c] # {}
<1>1. Reached(c, k, obj, clients)
  BY NormalizeReaches
<1>2. k[1] \in normalize_users(k, obj, clients)[c] <=> obj.us[c] # {}
  BY <1>1 DEF normalize_users
<1>3. [localIn[c] EXCEPT ![k] = Out][k].in = "out" /\ [localIn[c] EXCEPT ![k] = Same][k].in = "same"
  BY DEF Out, Same
<1>4. normalize_local(k, obj, clients)[c][k].in = "out" <=> k[2] \notin obj.us[c]
  <2> DEFINE here == k[2] \in obj.us[c]
  <2>1. normalize_local(k, obj, clients)[c] =
          IF localIn[c][k].in # "out" /\ ~ here THEN [localIn[c] EXCEPT ![k] = Out]
          ELSE IF localIn[c][k].in = "out" /\ here /\ clients[k].on
               THEN [localIn[c] EXCEPT ![k] = Same]
          ELSE localIn[c]
    BY <1>1 DEF normalize_local, channel_us_count_usr
  <2> HIDE DEF here
  <2>2. localIn[c][k].in = "out" /\ here => clients[k].on
    BY DEF here
  <2>3. normalize_local(k, obj, clients)[c][k].in = "out" <=> ~ here
    BY <1>3, <2>1, <2>2
  <2> QED
    BY <2>3 DEF here
<1> QED
  BY <1>2, <1>4

\* The accounting after a write.
LEMMA Accounted ==
  ASSUME NEW u \in Uid, NEW obj, handle_stat_t_count(u, obj)
  PROVE  /\ u \in join_time' <=> InSomeChannel(obj.us)
         /\ \A v \in Uid \ {u} : v \in join_time' <=> v \in join_time
BY DEF handle_stat_t_count
-----------------------------------------------------------------------------
(* Steps that leave a user's memberships and entries alone.                *)

Untouched(u) ==
  /\ users'[u].us = users[u].us
  /\ \A c \in Channel, ct \in CT :
       localIn'[c][<<u, ct>>].in = "out" <=> localIn[c][<<u, ct>>].in = "out"
  /\ \/ \A c \in Channel : u \in usersIn'[c] <=> u \in usersIn[c]
     \/ \A c \in Channel : u \in usersIn'[c] <=> users[u].us[c] # {}
  /\ \/ u \in join_time' <=> u \in join_time
     \/ u \in join_time' <=> InSomeChannel(users[u].us)

LEMMA UntouchedKeeps ==
  ASSUME NEW u \in Uid, IndexOf(u), AccountsOf(u), Untouched(u),
         kicked \subseteq kicked', flushed \subseteq flushed'
  PROVE  IndexOf(u)' /\ AccountsOf(u)'
<1>1. ASSUME NEW ct \in CT
      PROVE  u \in flushed' \/ Exact(u, ct)' \/ (u \in kicked' /\ Empty(u, ct)')
  <2>1. Exact(u, ct) => Exact(u, ct)'
    BY DEF Exact, Untouched
  <2>2. Empty(u, ct) => Empty(u, ct)'
    BY DEF Empty, Untouched
  <2> QED
    BY <2>1, <2>2 DEF IndexOf
<1>2. AccountsOf(u)'
  BY DEF AccountsOf, Untouched
<1> QED
  BY <1>1, <1>2 DEF IndexOf

LEMMA ReadyKeeps ==
  ASSUME NEW u \in Uid, NEW ct \in CT, Ready(u, ct),
         local_clients[<<u, ct>>].on = TRUE => local_clients'[<<u, ct>>].on = TRUE,
         Untouched(u), kicked \subseteq kicked'
  PROVE  Ready(u, ct)'
<1>1. Empty(u, ct) => Empty(u, ct)'
  BY DEF Empty, Untouched
<1> QED
  BY <1>1 DEF Ready

\* What every step of the chat thread but the cleanup does to the users.
UsersStep ==
  \A u \in Uid :
    /\ IndexOf(u) /\ AccountsOf(u) => IndexOf(u)' /\ AccountsOf(u)'
    /\ \A ct \in CT : Ready(u, ct) => Ready(u, ct)'

LEMMA UntouchedStep ==
  ASSUME \A u \in Uid : Untouched(u),
         \A k \in Key : local_clients[k].on = TRUE => local_clients'[k].on = TRUE,
         kicked \subseteq kicked', flushed \subseteq flushed'
  PROVE  UsersStep
<1> SUFFICES ASSUME NEW u \in Uid
             PROVE  /\ IndexOf(u) /\ AccountsOf(u) => IndexOf(u)' /\ AccountsOf(u)'
                    /\ \A ct \in CT : Ready(u, ct) => Ready(u, ct)'
  BY DEF UsersStep
<1>1. IndexOf(u) /\ AccountsOf(u) => IndexOf(u)' /\ AccountsOf(u)'
  BY UntouchedKeeps
<1>2. ASSUME NEW ct \in CT, Ready(u, ct) PROVE Ready(u, ct)'
  <2>1. <<u, ct>> \in Key
    BY DEF Key
  <2> QED
    BY <1>2, <2>1, ReadyKeeps
<1> QED
  BY <1>1, <1>2
-----------------------------------------------------------------------------
(* The handlers.                                                           *)

\* A join or a part, for any choice of instances: the client at hand has an
\* instance, or its memberships shrink, or a kick has emptied its entries.
LEMMA NormalizeStep ==
  ASSUME TypeOK, NEW k \in Key, NEW obj, NEW clients,
         SetUser(k[1], obj),
         normalize_user_channels(k, obj, clients),
         handle_stat_t_count(k[1], obj),
         UNCHANGED <<kicked, flushed>>,
         \A ct \in CT \ {k[2]}, c \in Channel :
           ct \in obj.us[c] <=> ct \in users[k[1]].us[c],
         \/ clients[k].on = TRUE
         \/ \A c \in Channel : k[2] \in obj.us[c] => k[2] \in users[k[1]].us[c]
         \/ k[1] \in kicked /\ Empty(k[1], k[2]),
         \A j \in Key : local_clients[j].on = TRUE => clients[j].on = TRUE,
         \A j \in Key : clients[j].on = TRUE => local_clients'[j].on = TRUE,
         clients \in [Key -> Client]
  PROVE  UsersStep
<1> DEFINE u == k[1]
           wired == \/ clients[k].on
                    \/ \A d \in Channel : localIn[d][k].in = "out" => k[2] \notin obj.us[d]
<1>1. /\ localIn \in [Channel -> [Key -> Entry]]
      /\ usersIn \in [Channel -> SUBSET Uid]
      /\ users' = [users EXCEPT ![u] = obj]
      /\ users \in [Uid -> UserObj]
      /\ u \in Uid /\ k[2] \in CT /\ k = <<u, k[2]>>
  BY DEF TypeOK, ClientsOK, UsersOK, SetUser, Key
<1>2. users'[u] = obj /\ \A v \in Uid \ {u} : users'[v] = users[v]
  BY <1>1
<1>3. usersIn' = normalize_users(k, obj, clients) /\ localIn' = normalize_local(k, obj, clients)
  BY DEF normalize_user_channels
<1>4. \A c \in Channel : /\ \A j \in Key \ {k} : localIn'[c][j] = localIn[c][j]
                         /\ \A v \in Uid \ {u} : v \in usersIn'[c] <=> v \in usersIn[c]
  BY <1>1, <1>3, NormalizeLeaves
<1>5. wired => \A c \in Channel : /\ localIn'[c][k].in = "out" <=> k[2] \notin obj.us[c]
                                  /\ u \in usersIn'[c] <=> obj.us[c] # {}
  BY <1>1, <1>3, NormalizeExact
<1>6. ~ clients[k].on =>
        \A c \in Channel : localIn[c][k].in = "out" => localIn'[c][k].in = "out"
  BY <1>1, <1>3, NormalizeEmpty
<1>7. /\ u \in join_time' <=> InSomeChannel(obj.us)
      /\ \A v \in Uid \ {u} : v \in join_time' <=> v \in join_time
  BY <1>1, Accounted
<1>8. clients[k].on = TRUE \/ ~ clients[k].on
  BY DEF Client
<1> HIDE DEF u
<1>9. ASSUME NEW v \in Uid \ {u} PROVE Untouched(v)
  <2>1. \A ct \in CT : <<v, ct>> \in Key \ {k}
    BY <1>1 DEF Key
  <2> QED
    BY <1>2, <1>4, <1>7, <2>1 DEF Untouched
<1>10. ASSUME NEW v \in Uid \ {u}
       PROVE  /\ IndexOf(v) /\ AccountsOf(v) => IndexOf(v)' /\ AccountsOf(v)'
              /\ \A ct \in CT : Ready(v, ct) => Ready(v, ct)'
  <2>1. Untouched(v)
    BY <1>9
  <2>2. \A ct \in CT : <<v, ct>> \in Key
    BY DEF Key
  <2> QED
    BY <2>1, <2>2, UntouchedKeeps, ReadyKeeps
<1>11. ASSUME NEW ct \in CT \ {k[2]}
       PROVE  /\ Exact(u, ct) => Exact(u, ct)'
              /\ Empty(u, ct) => Empty(u, ct)'
  <2>1. <<u, ct>> \in Key \ {k}
    BY <1>1 DEF Key
  <2>2. \A c \in Channel : ct \in users'[u].us[c] <=> ct \in users[u].us[c]
    BY <1>2, <1>11 DEF u
  <2> QED
    BY <1>4, <2>1, <2>2 DEF Exact, Empty
<1>12. wired => Exact(u, k[2])'
  BY <1>1, <1>2, <1>5 DEF Exact
<1>13. ~ clients[k].on /\ Empty(u, k[2]) => Empty(u, k[2])'
  BY <1>1, <1>6 DEF Empty
<1>14. Exact(u, k[2]) => wired \/ (u \in kicked /\ Empty(u, k[2]))
  BY <1>1 DEF Exact, u
<1> HIDE DEF wired
<1>15. clients[k].on = TRUE => wired
  BY DEF wired
<1>16. IndexOf(u) /\ AccountsOf(u) => IndexOf(u)' /\ AccountsOf(u)'
  <2> SUFFICES ASSUME IndexOf(u), AccountsOf(u) PROVE IndexOf(u)' /\ AccountsOf(u)'
    OBVIOUS
  <2>1. u \in flushed' \/ Exact(u, k[2])' \/ (u \in kicked' /\ Empty(u, k[2])')
    BY <1>1, <1>8, <1>12, <1>13, <1>14, <1>15 DEF IndexOf
  <2>2. ASSUME NEW ct \in CT \ {k[2]}
        PROVE  u \in flushed' \/ Exact(u, ct)' \/ (u \in kicked' /\ Empty(u, ct)')
    BY <1>11 DEF IndexOf
  <2>3. IndexOf(u)'
    BY <2>1, <2>2 DEF IndexOf
  <2>4. AccountsOf(u)'
    <3>1. u \notin kicked \cup flushed => wired
      BY <1>1, <1>14 DEF IndexOf
    <3> QED
      BY <1>2, <1>5, <1>7, <3>1 DEF AccountsOf, wired
  <2> QED
    BY <2>3, <2>4
<1>17. ASSUME NEW ct \in CT, Ready(u, ct) PROVE Ready(u, ct)'
  <2>1. <<u, ct>> \in Key
    BY <1>1 DEF Key
  <2>2. local_clients[<<u, ct>>].on = TRUE => local_clients'[<<u, ct>>].on = TRUE
    BY <2>1
  <2>3. CASE ct = k[2]
    BY <1>1, <1>8, <1>13, <1>17, <2>2, <2>3 DEF Ready
  <2>4. CASE ct # k[2]
    BY <1>11, <1>17, <2>2, <2>4 DEF Ready
  <2> QED
    BY <2>3, <2>4
<1> QED
  BY <1>10, <1>16, <1>17 DEF UsersStep

\* A join touches the memberships of one kind of client only.
LEMMA JoinOfKind ==
  ASSUME NEW obj \in GoodObj, NEW ct \in CT, NEW ch \in Channel, NEW st \in Status
  PROVE  \A d \in CT \ {ct}, c \in Channel :
           d \in Joined(obj, ct, ch, st).us[c] <=> d \in obj.us[c]
<1> DEFINE new == IF ct = "irc" THEN channel_add(obj.us, "irc", ch)
                  ELSE www_channel_replace(obj.us, ch)
<1>1. obj.us \in ChannelUs /\ obj \in UserObj
  BY DEF GoodObj, UserObj
<1>2. Joined(obj, ct, ch, st) = [obj EXCEPT !.status = st, !.us = new]
  BY DEF Joined
<1>3. \A d \in CT \ {ct}, c \in Channel : d \in new[c] <=> d \in obj.us[c]
  BY <1>1 DEF channel_add, www_channel_replace, ChannelUs, CT
<1> HIDE DEF new
<1>4. [obj EXCEPT !.status = st, !.us = new].us = new
  BY <1>1 DEF UserObj
<1> QED
  BY <1>2, <1>3, <1>4

\* So does a part, and it adds none.
LEMMA PartOfKind ==
  ASSUME NEW obj \in GoodObj, NEW ct \in CT, NEW chans \in SUBSET Channel
  PROVE  LET new == [obj EXCEPT !.us = part_channels(@, chans, ct)] IN
         \A c \in Channel :
           /\ \A d \in CT \ {ct} : d \in new.us[c] <=> d \in obj.us[c]
           /\ ct \in new.us[c] => ct \in obj.us[c]
<1> DEFINE us == part_channels(obj.us, chans, ct)
<1>1. obj.us \in ChannelUs /\ obj \in UserObj
  BY DEF GoodObj, UserObj
<1>2. \A c \in Channel : /\ \A d \in CT \ {ct} : d \in us[c] <=> d \in obj.us[c]
                         /\ ct \in us[c] => ct \in obj.us[c]
  BY <1>1 DEF part_channels, ChannelUs
<1> HIDE DEF us
<1>3. [obj EXCEPT !.us = us].us = us
  BY <1>1 DEF UserObj
<1>4. [obj EXCEPT !.us = part_channels(@, chans, ct)] = [obj EXCEPT !.us = us]
  BY DEF us
<1> QED
  BY <1>2, <1>3, <1>4

LEMMA JOIN_Users ==
  ASSUME Inv, on_common_JOIN
  PROVE  /\ UsersStep
         /\ \A u \in Uid, ct \in CT : u = E.uid /\ ct = E.ct => Ready(u, ct)'
<1> DEFINE k == <<E.uid, E.ct>>
           clients == [local_clients EXCEPT ![k] = ClientOf(k)]
           new == Joined(get_user_p(k[1]), k[2], E.ch, E.status)
           list == nofix_list(clients[k], E.uid, E.ch, users', loaded')
<1>1. E.uid \in Uid /\ E.ct \in CT /\ E.ch \in Channel /\ E.status \in Status
  BY EventInHand, EventFields DEF Inv, on_common_JOIN
<1>2. k \in Key /\ k[1] = E.uid /\ k[2] = E.ct
  BY <1>1 DEF Key
<1>3. local_clients \in [Key -> Client]
  BY DEF Inv, TypeOK, ClientsOK
<1>4. ClientOf(k) \in Client /\ ClientOf(k).on = TRUE
  BY <1>2, <1>3, ClientFound DEF ClientOf, Client, NoClient
<1>5. on_JOIN_fix_lists(k, E.ch, E.status, clients)
  BY DEF on_common_JOIN
<1>6. local_clients' = [clients EXCEPT ![k].vis[E.ch] = list]
  BY DEF on_common_JOIN
<1>7. /\ SetUser(k[1], new)
      /\ normalize_user_channels(k, new, clients)
      /\ handle_stat_t_count(k[1], new)
      /\ UNCHANGED <<kicked, flushed>>
  BY <1>5 DEF on_JOIN_fix_lists
<1>8. \A ct \in CT \ {k[2]}, c \in Channel : ct \in new.us[c] <=> ct \in users[k[1]].us[c]
  BY <1>1, <1>2, UserFound, JoinOfKind DEF Inv
<1>9. /\ clients \in [Key -> Client]
      /\ clients[k].on = TRUE
      /\ \A j \in Key : local_clients[j].on = TRUE => clients[j].on = TRUE
  BY <1>2, <1>3, <1>4
<1> HIDE DEF k, clients, new, list
<1>10. \A j \in Key : clients[j].on = TRUE => local_clients'[j].on = TRUE
  BY <1>2, <1>6, <1>9 DEF Client
<1>11. UsersStep
  BY <1>2, <1>7, <1>8, <1>9, <1>10, NormalizeStep DEF Inv
<1>12. local_clients'[k].on = TRUE
  BY <1>2, <1>9, <1>10
<1>13. ASSUME NEW u \in Uid, NEW ct \in CT, u = E.uid, ct = E.ct PROVE Ready(u, ct)'
  BY <1>12, <1>13 DEF Ready, k
<1> QED
  BY <1>11, <1>13

LEMMA JOIN_CHANNEL_Users ==
  ASSUME Inv, do_JOIN_CHANNEL, Ready(E.uid, E.ct)
  PROVE  UsersStep
<1> DEFINE k == <<E.uid, E.ct>>
           new == Joined(get_user_p(k[1]), k[2], E.ch, E.status)
<1>1. E.uid \in Uid /\ E.ct \in CT /\ E.ch \in Channel /\ E.status \in Status
  BY EventInHand, EventFields DEF Inv, do_JOIN_CHANNEL
<1>2. k \in Key /\ k[1] = E.uid /\ k[2] = E.ct
  BY <1>1 DEF Key
<1>3. local_clients \in [Key -> Client] /\ local_clients' = local_clients
  BY DEF Inv, TypeOK, ClientsOK, do_JOIN_CHANNEL
<1>4. on_JOIN_fix_lists(k, E.ch, E.status, local_clients)
  BY DEF do_JOIN_CHANNEL
<1>5. /\ SetUser(k[1], new)
      /\ normalize_user_channels(k, new, local_clients)
      /\ handle_stat_t_count(k[1], new)
      /\ UNCHANGED <<kicked, flushed>>
  BY <1>4 DEF on_JOIN_fix_lists
<1>6. \A ct \in CT \ {k[2]}, c \in Channel : ct \in new.us[c] <=> ct \in users[k[1]].us[c]
  BY <1>1, <1>2, UserFound, JoinOfKind DEF Inv
<1>7. local_clients[k].on = TRUE \/ (k[1] \in kicked /\ Empty(k[1], k[2]))
  BY <1>2 DEF Ready
<1> HIDE DEF k, new
<1> QED
  BY <1>2, <1>3, <1>5, <1>6, <1>7, NormalizeStep DEF Inv

LEMMA PART_CHANNEL_Users ==
  ASSUME Inv, do_PART_CHANNEL
  PROVE  UsersStep
<1> DEFINE k == <<E.uid, E.ct>>
           new == [get_user_p(E.uid) EXCEPT !.us = part_channels(@, E.chans, E.ct)]
<1>1. E.uid \in Uid /\ E.ct \in CT /\ E.chans \in SUBSET Channel
  BY EventInHand, EventFields DEF Inv, do_PART_CHANNEL
<1>2. k \in Key /\ k[1] = E.uid /\ k[2] = E.ct
  BY <1>1 DEF Key
<1>3. local_clients \in [Key -> Client] /\ local_clients' = local_clients
  BY DEF Inv, TypeOK, ClientsOK, do_PART_CHANNEL
<1>4. /\ SetUser(k[1], new)
      /\ normalize_user_channels(k, new, local_clients)
      /\ handle_stat_t_count(k[1], new)
      /\ UNCHANGED <<kicked, flushed>>
  BY DEF do_PART_CHANNEL
<1>5. \A c \in Channel :
        /\ \A ct \in CT \ {k[2]} : ct \in new.us[c] <=> ct \in users[k[1]].us[c]
        /\ k[2] \in new.us[c] => k[2] \in users[k[1]].us[c]
  <2>1. get_user_p(E.uid) \in GoodObj /\ get_user_p(E.uid).us = users[E.uid].us
    BY <1>1, UserFound DEF Inv
  <2> QED
    BY <1>1, <1>2, <2>1, PartOfKind
<1> HIDE DEF k, new
<1> QED
  BY <1>2, <1>3, <1>4, <1>5, NormalizeStep DEF Inv

\* A handler that writes an object with the same memberships.
LEMMA WrittenStep ==
  ASSUME Inv, NEW u \in Uid, NEW obj, SetUser(u, obj), obj.us = users[u].us,
         handle_stat_t_count(u, obj) \/ UNCHANGED join_time,
         \A k \in Key : local_clients[k].on = TRUE => local_clients'[k].on = TRUE,
         UNCHANGED <<localIn, usersIn, kicked, flushed>>
  PROVE  UsersStep
<1>1. users' = [users EXCEPT ![u] = obj] /\ users \in [Uid -> UserObj]
  BY DEF SetUser, Inv, TypeOK, UsersOK
<1>2. \A v \in Uid : \/ v \in join_time' <=> v \in join_time
                     \/ v \in join_time' <=> InSomeChannel(users[v].us)
  BY Accounted
<1>3. \A v \in Uid : Untouched(v)
  BY <1>1, <1>2 DEF Untouched
<1> QED
  BY <1>3, UntouchedStep

LEMMA QuietHandlersUsers ==
  ASSUME Inv,
         \/ do_SET_STATUS
         \/ do_SET_NICK
         \/ do_CHANGE_CONTACT_MODE
         \/ on_UPDATE_CONTACT_LIST
         \/ on_CHAT_MESSAGES2
  PROVE  UsersStep
<1> DEFINE u == E.uid
           obj == get_user_p(u)
<1>1. u \in Uid
  BY EventInHand, EventFields DEF Inv, do_SET_STATUS, do_SET_NICK, do_CHANGE_CONTACT_MODE,
     on_UPDATE_CONTACT_LIST, on_CHAT_MESSAGES2
<1>2. obj \in GoodObj /\ obj.us = users[u].us
  BY <1>1, UserFound DEF Inv
<1>3. local_clients \in [Key -> Client]
  BY DEF Inv, TypeOK, ClientsOK
<1>4. CASE do_SET_STATUS
  <2> DEFINE new == [obj EXCEPT !.status = E.status]
  <2>1. SetUser(u, obj) \/ SetUser(u, new)
    BY <1>4 DEF do_SET_STATUS
  <2>2. new.us = obj.us
    BY <1>2 DEF GoodObj, UserObj
  <2>3. UNCHANGED <<local_clients, localIn, usersIn, join_time, kicked, flushed>>
    BY <1>4 DEF do_SET_STATUS
  <2> HIDE DEF u, obj, new
  <2> QED
    BY <1>1, <1>2, <2>1, <2>2, <2>3, WrittenStep
<1>5. CASE do_SET_NICK
  <2>1. /\ SetUser(u, obj)
        /\ handle_stat_t_count(u, obj) \/ UNCHANGED join_time
        /\ UNCHANGED <<local_clients, localIn, usersIn, kicked, flushed>>
    BY <1>5 DEF do_SET_NICK
  <2> HIDE DEF u, obj
  <2> QED
    BY <1>1, <1>2, <2>1, WrittenStep
<1>6. CASE do_CHANGE_CONTACT_MODE
  <2> DEFINE modes == IF E.on THEN obj.modes \cup {E.mode} ELSE obj.modes \ {E.mode}
             new == [obj EXCEPT !.modes = modes]
  <2>1. /\ SetUser(u, new)
        /\ handle_stat_t_count(u, new)
        /\ UNCHANGED <<local_clients, localIn, usersIn, kicked, flushed>>
    BY <1>6 DEF do_CHANGE_CONTACT_MODE
  <2> HIDE DEF modes
  <2>2. new.us = obj.us
    BY <1>2 DEF GoodObj, UserObj
  <2> HIDE DEF u, obj, new
  <2> QED
    BY <1>1, <1>2, <2>1, <2>2, WrittenStep
<1>7. CASE on_UPDATE_CONTACT_LIST
  <2> DEFINE k == <<u, E.ct>>
             cl == ClientOf(k)
             lists == [c \in Channel |-> IF obj.us[c] # {}
                                         THEN fix_list(cl, u, c, users', loaded')
                                         ELSE cl.vis[c]]
  <2>1. /\ SetUser(u, obj)
        /\ local_clients' = [local_clients EXCEPT ![k] = [cl EXCEPT !.vis = lists]]
        /\ UNCHANGED <<localIn, usersIn, join_time, kicked, flushed>>
    BY <1>7 DEF on_UPDATE_CONTACT_LIST
  <2>2. E.ct \in CT
    BY <1>7, EventInHand, EventFields DEF Inv, on_UPDATE_CONTACT_LIST
  <2>3. k \in Key
    BY <1>1, <2>2 DEF Key
  <2>4. cl \in Client /\ cl.on = TRUE
    BY <1>3, <2>3, ClientFound DEF ClientOf, Client, NoClient
  <2> HIDE DEF lists, cl, k, u, obj
  <2>5. [cl EXCEPT !.vis = lists].on = TRUE
    BY <2>4 DEF Client
  <2>6. \A j \in Key : local_clients[j].on = TRUE => local_clients'[j].on = TRUE
    BY <1>3, <2>1, <2>5
  <2> QED
    BY <1>1, <1>2, <2>1, <2>6, WrittenStep
<1>8. CASE on_CHAT_MESSAGES2
  <2> DEFINE k == <<u, "www">>
  <2>1. /\ SetUser(u, obj)
        /\ local_clients' = [local_clients EXCEPT ![k] = ClientOf(k)]
        /\ handle_stat_t_count(u, obj) \/ UNCHANGED join_time
        /\ UNCHANGED <<localIn, usersIn, kicked, flushed>>
    BY <1>8 DEF on_CHAT_MESSAGES2
  <2>2. k \in Key
    BY <1>1 DEF Key, CT
  <2>3. ClientOf(k).on = TRUE
    BY <1>3, <2>2 DEF ClientOf, Client, NoClient
  <2> HIDE DEF k, u, obj
  <2>4. \A j \in Key : local_clients[j].on = TRUE => local_clients'[j].on = TRUE
    BY <1>3, <2>1, <2>3
  <2> QED
    BY <1>1, <1>2, <2>1, <2>4, WrittenStep
<1> QED
  BY <1>4, <1>5, <1>6, <1>7, <1>8

LEMMA UPDATE_DATA_Users ==
  ASSUME Inv, on_UPDATE_DATA
  PROVE  UsersStep
<1> DEFINE u == E.uid
           modes == IF E.on THEN users[u].modes \cup {E.mode} ELSE users[u].modes \ {E.mode}
           new == IF E.field = "status" THEN [users[u] EXCEPT !.status = E.status]
                  ELSE [users[u] EXCEPT !.modes = modes]
<1>1. u \in Uid /\ users \in [Uid -> UserObj]
  BY EventInHand, EventFields DEF Inv, on_UPDATE_DATA, TypeOK, UsersOK
<1>2. /\ UNCHANGED users \/ users' = [users EXCEPT ![u] = new]
      /\ UNCHANGED <<local_clients, localIn, usersIn, join_time, kicked, flushed>>
  BY DEF on_UPDATE_DATA
<1> HIDE DEF modes
<1>3. new.us = users[u].us
  BY <1>1 DEF UserObj
<1> HIDE DEF u, new
<1>4. \A v \in Uid : users'[v].us = users[v].us
  BY <1>1, <1>2, <1>3
<1>5. \A v \in Uid : Untouched(v)
  BY <1>2, <1>4 DEF Untouched
<1> QED
  BY <1>2, <1>5, UntouchedStep

LEMMA KICK_USER_Users ==
  ASSUME Inv, do_KICK_USER, NEW u \in Uid, u = E.uid
  PROVE  UsersStep
<1> DEFINE chs == export_channels(get_user_p(u).us)
           hit(c, k) == c \in chs /\ k[1] # u /\ k[2] = "irc"
           Vis(k) == [c \in Channel |->
                       IF hit(c, k) /\ localIn[c][k].in = "same"
                       THEN [local_clients[k].vis[c] EXCEPT ![u] = "unseen"]
                       ELSE local_clients[k].vis[c]]
<1>1. \A cl \in Client : \A w : [cl EXCEPT !.vis = w].on = cl.on
  BY DEF Client
<1>2. /\ local_clients \in [Key -> Client]
      /\ localIn \in [Channel -> [Key -> Entry]]
      /\ users \in [Uid -> UserObj]
      /\ usersIn \in [Channel -> SUBSET Uid]
  BY DEF Inv, TypeOK, UsersOK, ClientsOK
<1>3. /\ users' = [users EXCEPT ![u] = NoUser]
      /\ usersIn' = [c \in Channel |-> usersIn[c] \ {u}]
      /\ kicked' = kicked \cup {u} /\ flushed' = flushed /\ join_time' = join_time
  BY DEF do_KICK_USER
<1>4. local_clients' = [k \in Key |-> IF k[1] = u THEN NoClient
                                      ELSE [local_clients[k] EXCEPT !.vis = Vis(k)]]
  BY DEF do_KICK_USER
<1>5. localIn' = [c \in Channel |-> [k \in Key |->
          IF k[1] = u THEN Out
          ELSE IF hit(c, k) /\ localIn[c][k].in = "old"
               THEN [localIn[c][k] EXCEPT !.vis[u] = "unseen"]
          ELSE localIn[c][k]]]
  BY DEF do_KICK_USER
<1> HIDE DEF chs, hit, Vis
<1>6. \A e \in Entry : [e EXCEPT !.vis[u] = "unseen"].in = e.in
  BY DEF Entry
<1>7. \A v \in Uid \ {u}, ct \in CT : <<v, ct>> \in Key /\ <<v, ct>>[1] = v
  BY DEF Key
<1>8. \A v \in Uid \ {u}, ct \in CT, c \in Channel :
        localIn'[c][<<v, ct>>].in = localIn[c][<<v, ct>>].in
  BY <1>2, <1>5, <1>6, <1>7
<1>9. \A v \in Uid \ {u}, ct \in CT :
        local_clients'[<<v, ct>>].on = local_clients[<<v, ct>>].on
  BY <1>1, <1>2, <1>4, <1>7
<1>10. \A v \in Uid \ {u} : Untouched(v)
  BY <1>2, <1>3, <1>8 DEF Untouched
<1>11. \A ct \in CT : Empty(u, ct)'
  <2>1. \A ct \in CT : <<u, ct>> \in Key /\ <<u, ct>>[1] = u
    BY DEF Key
  <2>2. Out.in = "out"
    BY DEF Out
  <2> QED
    BY <1>5, <2>1, <2>2 DEF Empty
<1>12. ASSUME NEW v \in Uid
       PROVE  /\ IndexOf(v) /\ AccountsOf(v) => IndexOf(v)' /\ AccountsOf(v)'
              /\ \A ct \in CT : Ready(v, ct) => Ready(v, ct)'
  <2>1. CASE v = u
    BY <1>3, <1>11, <2>1 DEF IndexOf, AccountsOf, Ready
  <2>2. CASE v # u
    <3>1. v \in Uid \ {u} /\ Untouched(v)
      BY <1>10, <2>2
    <3> QED
      BY <1>3, <1>9, <3>1, UntouchedKeeps, ReadyKeeps
  <2> QED
    BY <2>1, <2>2
<1> QED
  BY <1>12 DEF UsersStep

\* unload_user: the flush and the trash timer.
LEMMA UnloadUsers ==
  ASSUME Inv, NEW u \in Uid, unload_user(u)
  PROVE  UsersStep
<1>1. /\ local_clients \in [Key -> Client]
      /\ localIn \in [Channel -> [Key -> Entry]]
      /\ users \in [Uid -> UserObj]
      /\ users[u].us \in ChannelUs
  BY DEF Inv, TypeOK, UsersOK, ClientsOK, UserObj
<1>2. /\ users' = [users EXCEPT ![u] = NoUser]
      /\ local_clients' = OrphanClients(u)
      /\ localIn' = OrphanEntries(u)
      /\ flushed' = IF InSomeChannel(users[u].us) THEN flushed \cup {u} ELSE flushed
      /\ UNCHANGED <<usersIn, join_time, kicked>>
  BY DEF unload_user
<1>3. \A k \in Key : local_clients[k].on = TRUE => local_clients'[k].on = TRUE
  BY <1>1, <1>2 DEF OrphanClients, Client
<1>4. \A k \in Key, c \in Channel : localIn'[c][k].in = localIn[c][k].in
  BY <1>1, <1>2 DEF OrphanEntries, Entry
<1>5. \A v \in Uid, ct \in CT : <<v, ct>> \in Key
  BY DEF Key
<1>6. ~ InSomeChannel(users[u].us) => users[u].us = NoChannels
  BY <1>1, NotInChannels
<1>7. ASSUME NEW v \in Uid, v # u \/ ~ InSomeChannel(users[u].us) PROVE Untouched(v)
  BY <1>1, <1>2, <1>4, <1>5, <1>6, <1>7, InitialTypes DEF Untouched
<1>8. CASE ~ InSomeChannel(users[u].us)
  BY <1>2, <1>3, <1>7, <1>8, UntouchedStep
<1>9. CASE InSomeChannel(users[u].us)
  <2>1. u \in flushed' /\ flushed \subseteq flushed' /\ kicked' = kicked
    BY <1>2, <1>9
  <2>2. ASSUME NEW ct \in CT, Ready(u, ct) PROVE Ready(u, ct)'
    <3>1. Empty(u, ct) => Empty(u, ct)'
      BY <1>4, <1>5 DEF Empty
    <3> QED
      BY <1>3, <1>5, <2>1, <2>2, <3>1 DEF Ready
  <2>3. IndexOf(u)' /\ AccountsOf(u)'
    BY <2>1 DEF IndexOf, AccountsOf
  <2>4. ASSUME NEW v \in Uid \ {u}
        PROVE  /\ IndexOf(v) /\ AccountsOf(v) => IndexOf(v)' /\ AccountsOf(v)'
               /\ \A ct \in CT : Ready(v, ct) => Ready(v, ct)'
    <3>1. Untouched(v)
      BY <1>7
    <3> QED
      BY <1>3, <1>5, <2>1, <3>1, UntouchedKeeps, ReadyKeeps
  <2> QED
    BY <2>2, <2>3, <2>4 DEF UsersStep
<1> QED
  BY <1>8, <1>9
-----------------------------------------------------------------------------
(* The steps and the echoes.                                               *)

\* Every handler keeps it, the echo because it finds an instance.
LEMMA HandlersUsers ==
  ASSUME Inv, HandleEvent, Event("JOIN_CHANNEL") => Ready(E.uid, E.ct)
  PROVE  UsersStep
<1>1. CASE do_JOIN_CHANNEL
  BY <1>1, JOIN_CHANNEL_Users DEF do_JOIN_CHANNEL
<1>2. CASE do_KICK_USER
  <2>1. E.uid \in Uid
    BY <1>2, EventInHand, EventFields DEF Inv, do_KICK_USER
  <2> QED
    BY <1>2, <2>1, KICK_USER_Users
<1>3. CASE FLUSH_USER_DATA
  <2>1. E.uid \in Uid
    BY <1>3, EventInHand, EventFields DEF Inv, FLUSH_USER_DATA
  <2>2. CASE unload_user(E.uid)
    BY <2>1, <2>2, UnloadUsers
  <2>3. CASE UNCHANGED <<loaded, users, gstate, local_clients, localIn, usersIn,
                         dirty, marked, join_time, lostVars>>
    <3>1. \A u \in Uid : Untouched(u)
      BY <2>3 DEF Untouched
    <3> QED
      BY <2>3, <3>1, UntouchedStep
  <2> QED
    BY <1>3, <2>2, <2>3 DEF FLUSH_USER_DATA
<1> QED
  BY <1>1, <1>2, <1>3, JOIN_Users, PART_CHANNEL_Users, QuietHandlersUsers, UPDATE_DATA_Users
     DEF HandleEvent

\* Where the elements of a longer, and of a shorter sequence come from.
LEMMA FromEither ==
  ASSUME NEW T, NEW s \in Seq(T), NEW p \in Seq(T), NEW i \in DOMAIN (s \o p)
  PROVE  \/ \E j \in DOMAIN s : (s \o p)[i] = s[j]
         \/ \E j \in DOMAIN p : (s \o p)[i] = p[j]
<1>1. i \in 1..(Len(s) + Len(p)) /\ Len(s) \in Nat /\ Len(p) \in Nat
  OBVIOUS
<1>2. CASE i <= Len(s)
  BY <1>1, <1>2
<1>3. CASE i > Len(s)
  <2>1. i - Len(s) \in 1..Len(p) /\ (s \o p)[i] = p[i - Len(s)]
    BY <1>1, <1>3
  <2> QED
    BY <2>1
<1> QED
  BY <1>1, <1>2, <1>3

LEMMA FromTail ==
  ASSUME NEW T, NEW s \in Seq(T), s # << >>
  PROVE  /\ Tail(s) \in Seq(T)
         /\ \A i \in DOMAIN Tail(s) : \E j \in DOMAIN s : Tail(s)[i] = s[j]
<1>1. Tail(s) \in Seq(T) /\ Len(Tail(s)) = Len(s) - 1
  OBVIOUS
<1>2. ASSUME NEW i \in DOMAIN Tail(s) PROVE \E j \in DOMAIN s : Tail(s)[i] = s[j]
  <2>1. i + 1 \in DOMAIN s /\ Tail(s)[i] = s[i + 1]
    BY <1>1
  <2> QED
    BY <2>1
<1> QED
  BY <1>1, <1>2

\* Events that are taken out of the queue, and others pushed behind it.
LEMMA EchoesStay ==
  ASSUME Inv, CalmInv, UsersStep, updates' \in Seq(AskedEvent),
         NEW pushed \in Seq(ChatEvent),
         chat_events' = chat_events \o pushed
           \/ (chat_events # << >> /\ chat_events' = Tail(chat_events) \o pushed),
         \A i \in DOMAIN pushed : pushed[i].type = "JOIN_CHANNEL" =>
           \A u \in Uid, ct \in CT : u = pushed[i].uid /\ ct = pushed[i].ct => Ready(u, ct)'
  PROVE  CalmInv'
<1>1. chat_events \in Seq(ChatEvent)
  BY DEF Inv, TypeOK, QueuesOK
<1>2. \A i \in DOMAIN chat_events' :
        \/ \E j \in DOMAIN chat_events : chat_events'[i] = chat_events[j]
        \/ \E j \in DOMAIN pushed : chat_events'[i] = pushed[j]
  <2>1. CASE chat_events' = chat_events \o pushed
    BY <1>1, <2>1, FromEither
  <2>2. CASE chat_events # << >> /\ chat_events' = Tail(chat_events) \o pushed
    <3>1. Tail(chat_events) \in Seq(ChatEvent)
      BY <1>1, <2>2, FromTail
    <3>2. \A j \in DOMAIN Tail(chat_events) :
            \E h \in DOMAIN chat_events : Tail(chat_events)[j] = chat_events[h]
      BY <1>1, <2>2, FromTail
    <3>3. \A i \in DOMAIN chat_events' :
            \/ \E j \in DOMAIN Tail(chat_events) : chat_events'[i] = Tail(chat_events)[j]
            \/ \E j \in DOMAIN pushed : chat_events'[i] = pushed[j]
      BY <2>2, <3>1, FromEither
    <3> QED
      BY <3>2, <3>3
  <2> QED
    BY <2>1, <2>2
<1>3. ASSUME NEW u \in Uid, NEW ct \in CT, Echoed(u, ct)' PROVE Ready(u, ct)'
  <2>1. PICK i \in DOMAIN chat_events' : /\ chat_events'[i].type = "JOIN_CHANNEL"
                                         /\ chat_events'[i].uid = u
                                         /\ chat_events'[i].ct = ct
    BY <1>3 DEF Echoed
  <2>2. CASE \E j \in DOMAIN chat_events : chat_events'[i] = chat_events[j]
    <3>1. Echoed(u, ct)
      BY <2>1, <2>2 DEF Echoed
    <3> QED
      BY <3>1 DEF CalmInv, UsersStep
  <2>3. CASE \E j \in DOMAIN pushed : chat_events'[i] = pushed[j]
    BY <2>1, <2>3
  <2> QED
    BY <1>2, <2>2, <2>3
<1>4. \A u \in Uid : IndexOf(u)' /\ AccountsOf(u)'
  BY DEF CalmInv, UsersStep
<1> QED
  BY <1>3, <1>4 DEF CalmInv

LEMMA HandlerCalm ==
  ASSUME Inv, CalmInv, HandleEvent, UNCHANGED requestVars
  PROVE  CalmInv'
<1>1. /\ chat_events \in Seq(ChatEvent) /\ chat_events # << >> /\ batch > 0
      /\ updates' \in Seq(AskedEvent)
      /\ << >> \in Seq(ChatEvent)
  BY HandlersTake DEF Inv, TypeOK, QueuesOK, CalmInv, requestVars
<1>2. Event("JOIN_CHANNEL") => Ready(E.uid, E.ct)
  <2> SUFFICES ASSUME Event("JOIN_CHANNEL") PROVE Ready(E.uid, E.ct)
    OBVIOUS
  <2>1. E.uid \in Uid /\ E.ct \in CT /\ E.type = "JOIN_CHANNEL"
    BY EventInHand, EventFields DEF Inv
  <2>2. 1 \in DOMAIN chat_events /\ chat_events[1] = E
    BY <1>1 DEF E
  <2> QED
    BY <2>1, <2>2 DEF CalmInv, Echoed
<1>3. UsersStep
  BY <1>2, HandlersUsers
<1>4. CASE on_common_JOIN
  <2> DEFINE e == [E EXCEPT !.type = "JOIN_CHANNEL"]
  <2>1. E \in ChatEvent /\ E.type = "JOIN"
    BY <1>4, EventInHand DEF on_common_JOIN, Inv
  <2>2. e \in ChatEvent
    BY <2>1, EventFields
  <2>3. e.uid = E.uid /\ e.ct = E.ct
    BY <2>1 DEF ChatEvent
  <2>4. chat_events' = Tail(chat_events) \o <<e>>
    BY <1>4 DEF on_common_JOIN, Handled
  <2>5. \A u \in Uid, ct \in CT : u = e.uid /\ ct = e.ct => Ready(u, ct)'
    BY <1>4, <2>3, JOIN_Users
  <2> HIDE DEF e
  <2>6. <<e>> \in Seq(ChatEvent) /\ \A i \in DOMAIN <<e>> : <<e>>[i] = e
    BY <2>2
  <2> QED
    BY <1>1, <1>3, <2>4, <2>5, <2>6, EchoesStay
<1>5. CASE ~ on_common_JOIN
  <2>1. chat_events' = Tail(chat_events) \o << >>
    <3>1. CASE do_KICK_USER
      <4>1. chat_events' = Tail(chat_events) /\ Tail(chat_events) \in Seq(ChatEvent)
        BY <1>1, <3>1 DEF do_KICK_USER
      <4> QED
        BY <4>1
    <3>2. CASE ~ do_KICK_USER
      <4>1. Handled(<< >>)
        BY <1>5, <3>2 DEF HandleEvent, do_JOIN_CHANNEL, do_PART_CHANNEL, do_SET_STATUS,
           do_SET_NICK, do_CHANGE_CONTACT_MODE, on_UPDATE_CONTACT_LIST, on_CHAT_MESSAGES2,
           on_UPDATE_DATA, FLUSH_USER_DATA
      <4> QED
        BY <4>1 DEF Handled
    <3> QED
      BY <3>1, <3>2
  <2> DEFINE none == << >>
  <2>2. none \in Seq(ChatEvent) /\ DOMAIN none = {}
    BY <1>1
  <2> HIDE DEF none
  <2>3. chat_events' = Tail(chat_events) \o none
    BY <2>1 DEF none
  <2>4. \A i \in DOMAIN none : none[i].type = "JOIN_CHANNEL" =>
          \A u \in Uid, ct \in CT : u = none[i].uid /\ ct = none[i].ct => Ready(u, ct)'
    BY <2>2
  <2> QED
    BY <1>1, <1>3, <2>2, <2>3, <2>4, EchoesStay
<1> QED
  BY <1>4, <1>5

\* A step that leaves the events alone.
LEMMA SilentCalm ==
  ASSUME Inv, CalmInv, UsersStep, UNCHANGED <<chat_events, updates>>
  PROVE  CalmInv'
<1>1. \A u \in Uid, ct \in CT : Echoed(u, ct)' => Echoed(u, ct)
  BY DEF Echoed
<1> QED
  BY <1>1 DEF CalmInv, UsersStep

\* A step of the other threads leaves the chat thread's variables alone.
LEMMA OthersUsers ==
  ASSUME UNCHANGED threadVars
  PROVE  UsersStep
<1>1. \A u \in Uid : Untouched(u)
  BY DEF threadVars, Untouched
<1> QED
  BY <1>1, UntouchedStep DEF threadVars

LEMMA RefreshCalm ==
  ASSUME Inv, CalmInv, update_contact_lists, UNCHANGED requestVars
  PROVE  CalmInv'
<1>1. /\ local_clients \in [Key -> Client]
      /\ localIn \in [Channel -> [Key -> Entry]]
      /\ \A u \in Uid \ loaded : users[u].us = NoChannels
  BY InitialTypes DEF Inv, TypeOK, UsersOK, ClientsOK
<1>2. /\ usersIn' = [c \in Channel |-> {u \in loaded : users[u].us[c] # {}}]
      /\ loaded \subseteq Uid
      /\ UNCHANGED <<users, join_time, kicked, flushed, chat_events, updates>>
  BY DEF update_contact_lists, sharedVars, requestVars, Inv, TypeOK, UsersOK
<1>3. \A cl \in Client : \A w : [cl EXCEPT !.vis = w].on = cl.on
  BY DEF Client
<1>4. \A k \in Key : local_clients'[k].on = local_clients[k].on
  <2> DEFINE Vis(k) == [c \in Channel |->
        IF localIn[c][k].in = "same"
        THEN refreshed(local_clients[k].vis[c], c, k[1], local_clients[k].usr)
        ELSE local_clients[k].vis[c]]
  <2>1. local_clients' = [k \in Key |-> [local_clients[k] EXCEPT !.vis = Vis(k)]]
    BY DEF update_contact_lists
  <2> HIDE DEF Vis
  <2> QED
    BY <1>1, <1>3, <2>1
<1>5. \A k \in Key, c \in Channel : localIn'[c][k].in = localIn[c][k].in
  <2> DEFINE Vis(c, k) == refreshed(localIn[c][k].vis, c, k[1], localIn[c][k].usr)
  <2>1. localIn' = [c \in Channel |-> [k \in Key |->
          IF localIn[c][k].in = "old" THEN [localIn[c][k] EXCEPT !.vis = Vis(c, k)]
          ELSE localIn[c][k]]]
    BY DEF update_contact_lists
  <2>2. \A e \in Entry : \A w : [e EXCEPT !.vis = w].in = e.in
    BY DEF Entry
  <2> HIDE DEF Vis
  <2> QED
    BY <1>1, <2>1, <2>2
<1>6. \A u \in Uid, ct \in CT : <<u, ct>> \in Key
  BY DEF Key
<1>7. \A u \in Uid, c \in Channel : u \in usersIn'[c] <=> users[u].us[c] # {}
  BY <1>1, <1>2 DEF NoChannels
<1>8. \A u \in Uid : Untouched(u)
  BY <1>2, <1>5, <1>6, <1>7 DEF Untouched
<1>9. UsersStep
  BY <1>2, <1>4, <1>8, UntouchedStep
<1> QED
  BY <1>2, <1>9, SilentCalm

\* The cleanup takes instances away, but only when no echo is queued.
LEMMA CleanCalm ==
  ASSUME Inv, CalmInv, clean_local_clients, UNCHANGED requestVars
  PROVE  CalmInv'
<1>1. localIn \in [Channel -> [Key -> Entry]]
  BY DEF Inv, TypeOK, ClientsOK
<1>2. PICK gone \in SUBSET Key :
        localIn' = [c \in Channel |-> [k \in Key |->
          IF k \in gone /\ localIn[c][k].in = "same"
          THEN [in |-> "old", usr |-> local_clients[k].usr,
                vis |-> local_clients[k].vis[c]]
          ELSE localIn[c][k]]]
  BY DEF clean_local_clients
<1>3. UNCHANGED <<users, usersIn, join_time, kicked, flushed, updates, chat_events>>
  BY DEF clean_local_clients, sharedVars, requestVars
<1>4. \A k \in Key, c \in Channel : localIn'[c][k].in = "out" <=> localIn[c][k].in = "out"
  BY <1>1, <1>2
<1>5. \A u \in Uid, ct \in CT : <<u, ct>> \in Key
  BY DEF Key
<1>6. \A u \in Uid : Untouched(u)
  BY <1>3, <1>4, <1>5 DEF Untouched
<1>7. \A u \in Uid : IndexOf(u)' /\ AccountsOf(u)'
  BY <1>3, <1>6, UntouchedKeeps DEF CalmInv
<1>8. chat_events' = << >>
  BY <1>3 DEF clean_local_clients
<1>9. \A u \in Uid, ct \in CT : ~ Echoed(u, ct)'
  BY <1>8 DEF Echoed
<1> QED
  BY <1>3, <1>7, <1>9 DEF CalmInv

LEMMA TrashCalm ==
  ASSUME Inv, CalmInv, NEW u \in Uid, unload_trash(u), UNCHANGED requestVars
  PROVE  CalmInv'
<1>1. UNCHANGED <<chat_events, updates>>
  BY DEF unload_trash, requestVars
<1>2. CASE unload_user(u)
  BY <1>1, <1>2, UnloadUsers, SilentCalm
<1>3. CASE UNCHANGED <<loaded, users, gstate, local_clients, localIn, usersIn,
                       dirty, marked, join_time, lostVars>>
  <2>1. \A v \in Uid : Untouched(v)
    BY <1>3 DEF Untouched
  <2>2. UsersStep
    BY <1>3, <2>1, UntouchedStep
  <2> QED
    BY <1>1, <2>2, SilentCalm
<1> QED
  BY <1>2, <1>3 DEF unload_trash

\* The other threads push no echo.
LEMMA StepCalm ==
  ASSUME Inv, CalmInv, NEW t \in Thread, Step(t)
  PROVE  CalmInv'
<1>1. UsersStep
  BY OthersUsers DEF Step, push_back, send_update, WriteState, ChangeSessions,
     check_for_channel_cleanup, Done
<1>2. pend[t] # << >> => S(t) \in SafeStep
  BY StepInHand
<1>3. CASE push_back(t)
  <2> DEFINE e == S(t).event
  <2>1. e \in AskedEvent
    BY <1>2, <1>3, StepFields DEF push_back, Now, S
  <2>2. e \in ChatEvent /\ e.type # "JOIN_CHANNEL"
    BY <2>1 DEF AskedEvent
  <2>3. chat_events' = Append(chat_events, e) /\ updates' = updates
    BY <1>3 DEF push_back
  <2> HIDE DEF e
  <2>4. <<e>> \in Seq(ChatEvent) /\ \A i \in DOMAIN <<e>> : <<e>>[i] = e
    BY <2>2
  <2>5. chat_events' = chat_events \o <<e>>
    BY <2>2, <2>3 DEF Inv, TypeOK, QueuesOK
  <2> QED
    BY <1>1, <2>2, <2>3, <2>4, <2>5, EchoesStay DEF CalmInv
<1>4. CASE send_update(t)
  <2> DEFINE e == S(t).event
  <2>1. e \in AskedEvent
    BY <1>2, <1>4, StepFields DEF send_update, Now, S
  <2>2. chat_events' = chat_events /\ updates' = Append(updates, e)
    BY <1>4 DEF send_update
  <2> HIDE DEF e
  <2>3. updates' \in Seq(AskedEvent)
    BY <2>1, <2>2 DEF CalmInv
  <2>4. \A u \in Uid, ct \in CT : Echoed(u, ct)' => Echoed(u, ct)
    BY <2>2 DEF Echoed
  <2> QED
    BY <1>1, <2>3, <2>4 DEF CalmInv, UsersStep
<1>5. CASE WriteState(t) \/ ChangeSessions(t) \/ check_for_channel_cleanup(t)
  BY <1>1, <1>5, SilentCalm DEF WriteState, ChangeSessions, check_for_channel_cleanup, sharedVars
<1> QED
  BY <1>3, <1>4, <1>5 DEF Step

LEMMA UpdateCalm ==
  ASSUME Inv, CalmInv, UpdateProcessor
  PROVE  CalmInv'
<1> DEFINE e == Head(updates)
<1>1. UsersStep
  BY OthersUsers DEF UpdateProcessor
<1>2. e \in AskedEvent /\ updates' \in Seq(AskedEvent)
  BY DEF UpdateProcessor, CalmInv
<1>3. e \in ChatEvent /\ e.type # "JOIN_CHANNEL"
  BY <1>2 DEF AskedEvent
<1>4. chat_events' = Append(chat_events, e)
  BY DEF UpdateProcessor
<1> HIDE DEF e
<1>5. <<e>> \in Seq(ChatEvent) /\ \A i \in DOMAIN <<e>> : <<e>>[i] = e
  BY <1>3
<1>6. chat_events' = chat_events \o <<e>>
  BY <1>3, <1>4 DEF Inv, TypeOK, QueuesOK
<1> QED
  BY <1>1, <1>2, <1>3, <1>5, <1>6, EchoesStay

LEMMA CalmInit == Init => CalmInv
<1> SUFFICES ASSUME Init PROVE CalmInv
  OBVIOUS
<1>1. \A u \in Uid, ct \in CT : Exact(u, ct)
  <2>1. \A u \in Uid, ct \in CT : <<u, ct>> \in Key
    BY DEF Key
  <2>2. Out.in = "out"
    BY DEF Out
  <2> QED
    BY <2>1, <2>2, InitialTypes DEF Init, Exact, NoChannels
<1>2. \A u \in Uid : AccountsOf(u)
  <2>1. \A u \in Uid : users[u].us = NoChannels /\ ~ InSomeChannel(users[u].us)
    BY InitialTypes, NotInChannels, MembershipTypes DEF Init
  <2> QED
    BY <2>1 DEF Init, AccountsOf, NoChannels
<1>3. updates \in Seq(AskedEvent) /\ \A u \in Uid, ct \in CT : ~ Echoed(u, ct)
  BY DEF Init, Echoed
<1> QED
  BY <1>1, <1>2, <1>3 DEF CalmInv, IndexOf

LEMMA CalmNext == Inv /\ CalmInv /\ [Next]_vars => CalmInv'
<1> SUFFICES ASSUME Inv, CalmInv, [Next]_vars PROVE CalmInv'
  OBVIOUS
<1>1. CASE HandleEvent /\ UNCHANGED requestVars
  BY <1>1, HandlerCalm
<1>2. ASSUME NEW u \in Uid, unload_trash(u), UNCHANGED requestVars PROVE CalmInv'
  BY <1>2, TrashCalm
<1>3. CASE update_contact_lists /\ UNCHANGED requestVars
  BY <1>3, RefreshCalm
<1>4. CASE clean_local_clients /\ UNCHANGED requestVars
  BY <1>4, CleanCalm
<1>5. CASE ExtractAll /\ UNCHANGED requestVars
  BY <1>5, OthersUsers, SilentCalm DEF ExtractAll, sharedVars, requestVars
<1>6. ASSUME NEW t \in Thread, Request(t) PROVE CalmInv'
  <2>1. UNCHANGED <<threadVars, chat_events, updates>>
    BY <1>6 DEF Request, WwwJoin, IrcJoin, WwwExit, IrcPart, IrcDisconnect, WwwExpire, Kick,
       SetStatus, ChangeNick, ChangeMode, Login, Begin
  <2> QED
    BY <2>1, OthersUsers, SilentCalm
<1>7. ASSUME NEW t \in Thread, Step(t) PROVE CalmInv'
  BY <1>7, StepCalm
<1>8. CASE UpdateProcessor
  BY <1>8, UpdateCalm
<1>9. CASE UNCHANGED vars
  BY <1>9, OthersUsers, SilentCalm DEF vars, sharedVars, requestVars
<1> QED
  BY <1>1, <1>2, <1>3, <1>4, <1>5, <1>6, <1>7, <1>8, <1>9 DEF Next, ChatLoop

\* The index, the counts and the online time of a user agree with its
\* memberships until a kick or a flush, and an echo of a join finds an
\* instance or an index a kick has emptied.
THEOREM CalmInvariant == Spec => []CalmInv
<1>1. Inv /\ CalmInv /\ [Next]_vars => CalmInv'
  BY CalmNext
<1> QED
  BY <1>1, Invariance, CalmInit, PTL DEF Spec

\* Who has memberships is loaded.
LEMMA MembersLoaded ==
  ASSUME Inv, NEW u \in Uid, NEW c \in Channel
  PROVE  u \notin loaded => users[u].us[c] = {} /\ ~ InSomeChannel(users[u].us)
BY InitialTypes, NotInChannels, MembershipTypes DEF Inv, TypeOK, UsersOK, NoChannels

\* A client that receives a channel's messages is a member of it, unless a
\* login flushed its user: kicks, echoes and cleanups included.
THEOREM HearersAreMembers == Spec => []KickedHearNothing
<1>1. Inv /\ CalmInv => KickedHearNothing
  <2> SUFFICES ASSUME Inv, CalmInv, NEW k \in Key, k[1] \notin flushed, NEW c \in Channel,
                      localIn[c][k].in # "out"
               PROVE  k[1] \in loaded /\ k[2] \in users[k[1]].us[c]
    BY DEF KickedHearNothing
  <2>1. k[1] \in Uid /\ k[2] \in CT /\ k = <<k[1], k[2]>>
    BY DEF Key
  <2>2. Exact(k[1], k[2])
    BY <2>1 DEF CalmInv, IndexOf, Empty
  <2>3. k[2] \in users[k[1]].us[c]
    BY <2>1, <2>2 DEF Exact
  <2> QED
    BY <2>1, <2>3, MembersLoaded
<1> QED
  BY <1>1, Invariance, CalmInvariant, PTL

\* Of users who were not kicked or flushed the index, the online time and the
\* counts are exact.
THEOREM CalmIsExact == Spec => []CalmExact
<1>1. Inv /\ CalmInv => CalmExact
  <2> SUFFICES ASSUME Inv, CalmInv, NEW u \in Uid \ (kicked \cup flushed)
               PROVE  /\ \A ct \in CT : IndexExact(<<u, ct>>)
                      /\ JoinTimeExact(u)
                      /\ CountsExact(u)
    BY DEF CalmExact
  <2>1. \A ct \in CT : Exact(u, ct)
    BY DEF CalmInv, IndexOf
  <2>2. \A ct \in CT : IndexExact(<<u, ct>>)
    BY <2>1, MembersLoaded DEF Exact, IndexExact
  <2>3. AccountsOf(u) /\ u \notin kicked \cup flushed
    BY DEF CalmInv
  <2>4. InSomeChannel(users[u].us) => u \in loaded
    BY InitialTypes, NotInChannels, MembershipTypes DEF Inv, TypeOK, UsersOK
  <2>5. JoinTimeExact(u)
    BY <2>3, <2>4 DEF AccountsOf, JoinTimeExact
  <2>6. CountsExact(u)
    BY <2>3, MembersLoaded DEF AccountsOf, CountsExact, Member
  <2> QED
    BY <2>2, <2>5, <2>6
<1> QED
  BY <1>1, Invariance, CalmInvariant, PTL
=============================================================================
