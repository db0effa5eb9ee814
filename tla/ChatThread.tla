------------------------------ MODULE ChatThread ------------------------------
(***************************************************************************)
(* The chat thread (chatserver/chat_thread.cpp, user.cpp): one thread that *)
(* owns chat_thread_stuff, takes events from __chat_events in batches, and *)
(* between two batches refreshes the user lists of the connected clients,  *)
(* drops dead client instances and unloads idle users.                     *)
(*                                                                         *)
(* Objects.  __users$, client_instance::usr and update_contact_list_data   *)
(* hold counted pointers to the same chat_stuff_user.  Once the object has *)
(* left __users$ (kick, flush, trash) nothing writes to it any more, so a  *)
(* pointer is either to the loaded object ("live") or to an orphan, whose  *)
(* last value it then carries by itself.  The same holds of a client       *)
(* instance that has left local_clients but stays in the channel index.    *)
(*                                                                         *)
(* Statuses are the two classes the code tells apart: invisible stands for *)
(* st_invisible and st_offinvisible, online for every other one.  Nicks,   *)
(* texts and the announcement queues are not modelled.                     *)
(***************************************************************************)
EXTENDS UserState, Sequences

CONSTANTS Uid,
          Invisibility,            \* _invisibility of each user
          Gender,                  \* gender of each user
          Contacts                 \* contacts of each user

\* CH_ids are integers: the maps keyed by them are walked in their order.
ASSUME ChannelAssumption == Channel \subseteq Nat
ASSUME UserAssumption ==
  /\ Invisibility \in [Uid -> Nat]
  /\ Gender \in [Uid -> Nat]
  /\ Contacts \in [Uid -> SUBSET Uid]

Status == {"online", "invisible"}
Undef == "undef"                   \* status.id = UNDEF
Modes == {"C", "F", "M"}           \* ul_mode_contacts_only, hide_female, hide_male
Key == Uid \X CT                   \* pair<DB_id,CT>

VARIABLES loaded,                  \* keys of __users$
          users,                   \* the chat_stuff_user of each loaded user
          local_clients,           \* key -> client_instance
          localIn,                 \* __local_users_in_channels$
          usersIn,                 \* __users_in_channels$
          dirty,                   \* update_contact_list_data
          marked,                  \* update_contact_list_data_create_time # 0
          join_time, trash,        \* keys of the two maps
          chat_events,             \* __chat_events, the batch in hand first
          batch,                   \* events of the batch not handled yet
          gstate,                  \* global_state (module GlobalState)
          local_users,             \* keys of the container of sessions
          profile,                 \* the mode flags of each user_profile
          drift,                   \* history: see ListsAccurate
          kicked, flushed          \* history: users kicked, and users unloaded
                                   \* while in a channel

threadVars == <<loaded, users, local_clients, localIn, usersIn, dirty,
                marked, join_time, trash, drift, kicked, flushed>>
lostVars == <<drift, kicked, flushed>>
Lost == drift \cup kicked \cup flushed
sharedVars == <<chat_events, gstate, local_users, profile>>

UserObj == [us : ChannelUs, status : Status, modes : SUBSET Modes]
Viewer == [live : BOOLEAN, status : Status, modes : SUBSET Modes]
Seen == Status \cup {"unseen"}     \* vis_item.status, or no vis_item
Client == [on : BOOLEAN, usr : Viewer, vis : [Channel -> [Uid -> Seen]]]
Entry == [in : {"out", "same", "old"}, usr : Viewer, vis : [Uid -> Seen]]
GState == [us : ChannelUs, status : Status \cup {Undef}, named : BOOLEAN]

NoUser == [us |-> NoChannels, status |-> "online", modes |-> {}]
LiveViewer == [live |-> TRUE, status |-> "online", modes |-> {}]
SeesNobody == [z \in Uid |-> "unseen"]
NoClient == [on |-> FALSE, usr |-> LiveViewer, vis |-> [c \in Channel |-> SeesNobody]]
\* "same": the channel index holds the instance of local_clients; "old": it
\* holds an instance local_clients has dropped.
Out == [in |-> "out", usr |-> LiveViewer, vis |-> SeesNobody]
Same == [Out EXCEPT !.in = "same"]
NoState == [us |-> NoChannels, status |-> Undef, named |-> FALSE]
-----------------------------------------------------------------------------
(* Pieces of state the handlers share.                                     *)

\* Mutant: the channels are taken from global_state.
preload_user_global(u) == [NoUser EXCEPT !.us = gstate[u].us, !.modes = profile[u]]

\* preload_user: status st_online, the modes stored in the profile.
preload_user(u) == [NoUser EXCEPT !.modes = profile[u]]

\* get_user_p
get_user_p(u) == IF u \in loaded THEN users[u] ELSE preload_user(u)

\* Mutant: get_user_p does not insert the object it has preloaded.
SetUser_no_insert(u, obj) ==
  /\ users' = [users EXCEPT ![u] = obj]
  /\ UNCHANGED loaded

\* The object of u after a handler wrote obj to it.
SetUser(u, obj) ==
  /\ users' = [users EXCEPT ![u] = obj]
  /\ loaded' = loaded \cup {u}

\* global_state.set_user_state(uid, cstate)
StateOf(obj) == [us |-> obj.us, status |-> obj.status, named |-> TRUE]
Publish(u, obj) == gstate' = [gstate EXCEPT ![u] = StateOf(obj)]

\* Mutant: the kicked or unloaded user's state stays.
Forget_nothing(u) == UNCHANGED gstate

\* global_state.remove(uid)
Forget(u) == gstate' = [gstate EXCEPT ![u] = NoState]

\* A handler that publishes nothing itself: preload_user may have.
PublishIfPreloaded(u) ==
  IF u \in loaded THEN UNCHANGED gstate ELSE Publish(u, preload_user(u))

\* I_can_see_contact_list, for a viewer v with these modes and a user z.
CanSee(v, modes, z, status) ==
  \/ v = z
  \/ /\ ~ (status = "invisible" /\ Invisibility[z] > Invisibility[v])
     /\ \/ "C" \in modes /\ z \in Contacts[v]
        \/ /\ "M" \in modes => Gender[z] = 2
           /\ "F" \in modes => Gender[z] = 1

\* The modes of the user object an instance of v points to.
ViewerModes(usr, v, objs) == IF usr.live THEN objs[v].modes ELSE usr.modes

\* Mutants: a user who comes back stays in trash; one channel is taken for
\* none; the join time of a user who leaves is kept.
handle_stat_t_count_keeps_trash(u, obj) ==
  IF InSomeChannel(obj.us)
  THEN join_time' = join_time \cup {u} /\ UNCHANGED trash
  ELSE join_time' = join_time \ {u} /\ trash' = trash \cup {u}

handle_stat_t_count_off_by_one(u, obj) ==
  IF Cardinality(export_channels(obj.us)) > 1
  THEN join_time' = join_time \cup {u} /\ trash' = trash \ {u}
  ELSE join_time' = join_time \ {u} /\ UNCHANGED trash

handle_stat_t_count_keeps_time(u, obj) ==
  IF InSomeChannel(obj.us)
  THEN join_time' = join_time \cup {u} /\ trash' = trash \ {u}
  ELSE trash' = trash \cup {u} /\ UNCHANGED join_time

\* handle_stat_t_count
handle_stat_t_count(u, obj) ==
  IF InSomeChannel(obj.us)
  THEN join_time' = join_time \cup {u} /\ trash' = trash \ {u}
  ELSE join_time' = join_time \ {u} /\ trash' = trash \cup {u}

\* Mutant: nothing is marked.
MarkDirty_nothing(chs, u) == dirty

\* update_contact_list_all: an entry that is there is kept, whichever object
\* it points to.
MarkDirty(chs, u) ==
  [c \in Channel |-> IF c \in chs /\ dirty[c][u] = "clean"
                     THEN [dirty[c] EXCEPT ![u] = "live"] ELSE dirty[c]]

\* Mutant: the instance is not created.
ClientOf_found(k) == local_clients[k]

update_contact_list_all(chs, u) ==
  /\ dirty' = MarkDirty(chs, u)
  /\ marked' = TRUE

\* on_common_JOIN, on_UPDATE_CONTACT_LIST, on_CHAT_MESSAGES2: create the
\* client's instance if it is not in local_clients.
ClientOf(k) ==
  IF local_clients[k].on THEN local_clients[k] ELSE [NoClient EXCEPT !.on = TRUE]

\* normalize_user_channels walks the channels in order and returns at the
\* first one it must add to the index of a client that has no instance.
NoInstance(c, k, obj, clients) ==
  /\ localIn[c][k].in = "out"
  /\ channel_us_count_usr(obj.us, c, k[2])
  /\ ~ clients[k].on

Reached(c, k, obj, clients) ==
  \A d \in Channel : d < c => ~ NoInstance(d, k, obj, clients)

\* Mutants: what the user has left is not taken out.
normalize_users_adds(k, obj, clients) ==
  [c \in Channel |->
     IF Reached(c, k, obj, clients) /\ obj.us[c] # {} THEN usersIn[c] \cup {k[1]}
     ELSE usersIn[c]]

normalize_local_adds(k, obj, clients) ==
  [c \in Channel |->
     IF /\ Reached(c, k, obj, clients)
        /\ NoInstance(c, k, obj, [clients EXCEPT ![k].on = FALSE])
     THEN [localIn[c] EXCEPT ![k] = Same] ELSE localIn[c]]

normalize_users(k, obj, clients) ==
  [c \in Channel |->
     IF ~ Reached(c, k, obj, clients) THEN usersIn[c]
     ELSE IF obj.us[c] # {} THEN usersIn[c] \cup {k[1]}
     ELSE usersIn[c] \ {k[1]}]

normalize_local(k, obj, clients) ==
  [c \in Channel |->
     LET here == channel_us_count_usr(obj.us, c, k[2]) IN
     IF ~ Reached(c, k, obj, clients) THEN localIn[c]
     ELSE IF localIn[c][k].in # "out" /\ ~ here
          THEN [localIn[c] EXCEPT ![k] = Out]
     ELSE IF localIn[c][k].in = "out" /\ here /\ clients[k].on
          THEN [localIn[c] EXCEPT ![k] = Same]
     ELSE localIn[c]]

normalize_user_channels(k, obj, clients) ==
  /\ usersIn' = normalize_users(k, obj, clients)
  /\ localIn' = normalize_local(k, obj, clients)
-----------------------------------------------------------------------------
(* Objects that leave their container.                                     *)

\* The instances of u keep the object they point to.
Freeze(usr, u) ==
  IF usr.live THEN [live |-> FALSE, status |-> users[u].status,
                    modes |-> users[u].modes] ELSE usr

OrphanClients(u) ==
  [k \in Key |-> IF k[1] = u /\ local_clients[k].on
                 THEN [local_clients[k] EXCEPT !.usr = Freeze(@, u)]
                 ELSE local_clients[k]]

OrphanEntries(u) ==
  [c \in Channel |-> [k \in Key |->
     IF k[1] = u /\ localIn[c][k].in = "old"
     THEN [localIn[c][k] EXCEPT !.usr = Freeze(@, u)] ELSE localIn[c][k]]]

\* A dirty entry that pointed to the loaded object keeps that object's status.
OrphanDirty(d, u, status) ==
  [c \in Channel |-> IF d[c][u] = "live" THEN [d[c] EXCEPT ![u] = status] ELSE d[c]]

\* unload_user, for a loaded user: the channel indexes, local_clients,
\* update_contact_list_data and join_time are left as they are.
unload_user(u) ==
  /\ loaded' = loaded \ {u}
  /\ users' = [users EXCEPT ![u] = NoUser]
  /\ Forget(u)
  /\ local_clients' = OrphanClients(u)
  /\ localIn' = OrphanEntries(u)
  /\ dirty' = OrphanDirty(dirty, u, users[u].status)
  /\ drift' = IF InSomeChannel(users[u].us) THEN drift \cup {u} ELSE drift
  /\ flushed' = IF InSomeChannel(users[u].us) THEN flushed \cup {u} ELSE flushed
  /\ UNCHANGED <<usersIn, marked, join_time, kicked>>
-----------------------------------------------------------------------------
(* The handlers.  Each takes the first event of the batch in hand.         *)

Event(type) == batch > 0 /\ Head(chat_events).type = type
E == Head(chat_events)

Handled(pushed) ==
  /\ chat_events' = Tail(chat_events) \o pushed
  /\ batch' = batch - 1
  /\ UNCHANGED <<local_users, profile>>

\* extract_all
ExtractAll ==
  /\ batch = 0
  /\ chat_events # << >>
  /\ batch' = Len(chat_events)
  /\ UNCHANGED <<threadVars, sharedVars>>

\* The state JOIN gives the user: status and nick of the event, and the
\* channel, which replaces the web client's and is added to the IRC client's.
Joined(obj, ct, ch, status) ==
  [obj EXCEPT !.status = status,
              !.us = IF ct = "irc" THEN channel_add(@, "irc", ch)
                     ELSE www_channel_replace(@, ch)]

\* on_JOIN_fix_lists, after the caller has chosen the instances.
on_JOIN_fix_lists(k, ch, status, clients) ==
  LET u == k[1]
      old == get_user_p(u)
      new == Joined(old, k[2], ch, status) IN
  /\ SetUser(u, new)
  /\ Publish(u, new)
  /\ normalize_user_channels(k, new, clients)
  /\ update_contact_list_all(export_channels(old.us) \cup export_channels(new.us), u)
  /\ handle_stat_t_count(u, new)
  /\ UNCHANGED lostVars

\* update_my_contact_list_nofix_www_list: the list of ch, built anew.
nofix_list(cl, v, ch, objs, ld) ==
  [z \in Uid |->
     IF z = v THEN IF cl.usr.live THEN objs[v].status ELSE cl.usr.status
     ELSE IF /\ z \in ld
             /\ objs[z].us[ch] # {}
             /\ CanSee(v, ViewerModes(cl.usr, v, objs), z, objs[z].status)
          THEN objs[z].status ELSE "unseen"]

\* on_common_JOIN: join, show the channel's list to the client, and push a
\* second JOIN_CHANNEL event that will apply the join again.
on_common_JOIN ==
  /\ Event("JOIN")
  /\ LET k == <<E.uid, E.ct>>
         clients == [local_clients EXCEPT ![k] = ClientOf(k)] IN
     /\ on_JOIN_fix_lists(k, E.ch, E.status, clients)
     /\ local_clients' = [clients EXCEPT
          ![k].vis[E.ch] = nofix_list(clients[k], E.uid, E.ch, users', loaded')]
  /\ Handled(<<[E EXCEPT !.type = "JOIN_CHANNEL"]>>)

\* do_set_user_state(JOIN_CHANNEL): no instance is created.
do_JOIN_CHANNEL ==
  /\ Event("JOIN_CHANNEL")
  /\ on_JOIN_fix_lists(<<E.uid, E.ct>>, E.ch, E.status, local_clients)
  /\ Handled(<< >>)
  /\ UNCHANGED local_clients

\* do_set_user_state(PART_CHANNEL)
do_PART_CHANNEL ==
  /\ Event("PART_CHANNEL")
  /\ LET u == E.uid
         old == get_user_p(u)
         new == [old EXCEPT !.us = part_channels(@, E.chans, E.ct)] IN
     /\ SetUser(u, new)
     /\ Publish(u, new)
     /\ normalize_user_channels(<<u, E.ct>>, new, local_clients)
     /\ update_contact_list_all(export_channels(old.us), u)
     /\ handle_stat_t_count(u, new)
  /\ Handled(<< >>)
  /\ UNCHANGED <<local_clients, lostVars>>

\* do_set_user_state(SET_STATUS): a user in no channel only gets loaded.
do_SET_STATUS ==
  /\ Event("SET_STATUS")
  /\ LET u == E.uid
         old == get_user_p(u)
         new == [old EXCEPT !.status = E.status] IN
     \/ /\ ~ InSomeChannel(old.us)
        /\ SetUser(u, old)
        /\ PublishIfPreloaded(u)
        /\ UNCHANGED <<dirty, marked>>
     \/ /\ InSomeChannel(old.us)
        /\ SetUser(u, new)
        /\ Publish(u, new)
        /\ update_contact_list_all(export_channels(old.us), u)
  /\ Handled(<< >>)
  /\ UNCHANGED <<local_clients, localIn, usersIn, join_time, trash, lostVars>>

\* do_set_user_state(SET_NICK), the nick itself left out.
do_SET_NICK ==
  /\ Event("SET_NICK")
  /\ LET u == E.uid
         obj == get_user_p(u) IN
     /\ SetUser(u, obj)
     /\ \/ /\ ~ InSomeChannel(obj.us)
           /\ PublishIfPreloaded(u)
           /\ UNCHANGED <<dirty, marked, join_time, trash>>
        \/ /\ InSomeChannel(obj.us)
           /\ Publish(u, obj)
           /\ update_contact_list_all(export_channels(obj.us), u)
           /\ handle_stat_t_count(u, obj)
  /\ Handled(<< >>)
  /\ UNCHANGED <<local_clients, localIn, usersIn, lostVars>>

\* do_set_user_state(KICK_USER): everything the thread knows of the user
\* goes, but join_time and trash; the list updates come with the refresh,
\* except the IRC clients', which update_contact_list_all_kicked makes here.
do_KICK_USER ==
  /\ Event("KICK_USER")
  /\ LET u == E.uid
         obj == get_user_p(u)
         chs == export_channels(obj.us)
         hit(c, k) == c \in chs /\ k[1] # u /\ k[2] = "irc"
     IN
     /\ loaded' = loaded \ {u}
     /\ users' = [users EXCEPT ![u] = NoUser]
     /\ Forget(u)
     /\ local_clients' = [k \in Key |->
          IF k[1] = u THEN NoClient
          ELSE [local_clients[k] EXCEPT !.vis = [c \in Channel |->
                  IF hit(c, k) /\ localIn[c][k].in = "same"
                  THEN [@[c] EXCEPT ![u] = "unseen"] ELSE @[c]]]]
     /\ localIn' = [c \in Channel |-> [k \in Key |->
          IF k[1] = u THEN Out
          ELSE IF hit(c, k) /\ localIn[c][k].in = "old"
               THEN [localIn[c][k] EXCEPT !.vis[u] = "unseen"]
          ELSE localIn[c][k]]]
     /\ usersIn' = [c \in Channel |-> usersIn[c] \ {u}]
     /\ dirty' = OrphanDirty(MarkDirty(chs, u), u, obj.status)
     /\ marked' = TRUE
     /\ local_users' = local_users \ {<<u, "www">>, <<u, "irc">>}
  /\ chat_events' = Tail(chat_events)
  /\ batch' = batch - 1
  /\ kicked' = kicked \cup {E.uid}
  /\ UNCHANGED <<join_time, trash, profile, drift, flushed>>

\* do_set_user_state(CHANGE_CONTACT_MODE)
do_CHANGE_CONTACT_MODE ==
  /\ Event("CHANGE_CONTACT_MODE")
  /\ LET u == E.uid
         old == get_user_p(u)
         new == [old EXCEPT !.modes = IF E.on THEN @ \cup {E.mode}
                                              ELSE @ \ {E.mode}] IN
     /\ SetUser(u, new)
     /\ PublishIfPreloaded(u)
     /\ handle_stat_t_count(u, new)
  /\ Handled(<< >>)
  /\ UNCHANGED <<local_clients, localIn, usersIn, dirty, marked, lostVars>>

\* Mutant: who is no more to be seen stays in the list.
fix_list_keeps(cl, v, ch, objs, ld) ==
  [z \in Uid |->
     IF z \in ld /\ objs[z].us[ch] = {} THEN "unseen" ELSE cl.vis[ch][z]]

\* update_my_contact_list_fix_www_list: only the loaded users are looked at,
\* and the item of a user who stays in the list is kept.
fix_list(cl, v, ch, objs, ld) ==
  [z \in Uid |->
     IF z \notin ld THEN cl.vis[ch][z]
     ELSE IF \/ objs[z].us[ch] = {}
             \/ ~ CanSee(v, ViewerModes(cl.usr, v, objs), z, objs[z].status)
          THEN "unseen"
     ELSE IF cl.vis[ch][z] = "unseen" THEN objs[z].status
     ELSE cl.vis[ch][z]]

\* on_UPDATE_CONTACT_LIST
on_UPDATE_CONTACT_LIST ==
  /\ Event("UPDATE_CONTACT_LIST")
  /\ LET u == E.uid
         k == <<u, E.ct>>
         obj == get_user_p(u)
         cl == ClientOf(k) IN
     /\ SetUser(u, obj)
     /\ PublishIfPreloaded(u)
     /\ local_clients' = [local_clients EXCEPT ![k] =
          [cl EXCEPT !.vis = [c \in Channel |->
             IF obj.us[c] # {} THEN fix_list(cl, u, c, users', loaded') ELSE @[c]]]]
  /\ Handled(<< >>)
  /\ UNCHANGED <<localIn, usersIn, dirty, marked, join_time, trash, lostVars>>

\* on_CHAT_MESSAGES2: when the web client is not in the channel its page
\* asks for, CHANGE_CHANNEL does nothing but the accounting every
\* do_set_user_state ends with.
on_CHAT_MESSAGES2 ==
  /\ Event("CHAT_MESSAGES2")
  /\ LET u == E.uid
         obj == get_user_p(u) IN
     /\ SetUser(u, obj)
     /\ local_clients' = [local_clients EXCEPT ![<<u, "www">>] = ClientOf(<<u, "www">>)]
     /\ \/ /\ channel_us_count_usr(obj.us, E.ch, "www")
           /\ PublishIfPreloaded(u)
           /\ UNCHANGED <<join_time, trash>>
        \/ /\ ~ channel_us_count_usr(obj.us, E.ch, "www")
           /\ Publish(u, obj)
           /\ handle_stat_t_count(u, obj)
  /\ Handled(<< >>)
  /\ UNCHANGED <<localIn, usersIn, dirty, marked, lostVars>>

\* on_UPDATE_DATA, chat_thread$set_status$3 and user_profile$ul_mode_*$3: a
\* field of a loaded user is overwritten; no list is marked.
on_UPDATE_DATA ==
  /\ Event("UPDATE_DATA")
  /\ LET u == E.uid
         new == IF E.field = "status"
                THEN [users[u] EXCEPT !.status = E.status]
                ELSE [users[u] EXCEPT !.modes = IF E.on THEN @ \cup {E.mode}
                                                        ELSE @ \ {E.mode}] IN
     \/ /\ u \notin loaded
        /\ UNCHANGED <<users, drift>>
     \/ /\ u \in loaded
        /\ users' = [users EXCEPT ![u] = new]
        /\ drift' = IF new # users[u] THEN drift \cup {u} ELSE drift
  /\ Handled(<< >>)
  /\ UNCHANGED <<loaded, local_clients, localIn, usersIn, dirty, marked, join_time,
                 trash, gstate, kicked, flushed>>

\* FLUSH_USER_DATA
FLUSH_USER_DATA ==
  /\ Event("FLUSH_USER_DATA")
  /\ \/ E.uid \in loaded /\ unload_user(E.uid)
     \/ /\ E.uid \notin loaded
        /\ UNCHANGED <<loaded, users, gstate, local_clients, localIn, usersIn,
                       dirty, marked, join_time, lostVars>>
  /\ Handled(<< >>)
  /\ UNCHANGED trash
-----------------------------------------------------------------------------
(* What the loop does between two batches.                                 *)

\* A dirty entry is refreshed from the object it points to.
DirtyStatus(c, u) == IF dirty[c][u] = "live" THEN users[u].status ELSE dirty[c][u]

\* Mutants: the viewer's rights are not asked; nobody is taken out.
refreshed_shows_all(vis, c, v, usr) ==
  [z \in Uid |->
     IF dirty[c][z] = "clean" THEN vis[z]
     ELSE IF z \in loaded /\ users[z].us[c] # {} THEN DirtyStatus(c, z)
     ELSE "unseen"]

refreshed_only_adds(vis, c, v, usr) ==
  [z \in Uid |->
     IF /\ dirty[c][z] # "clean"
        /\ z \in loaded
        /\ users[z].us[c] # {}
     THEN DirtyStatus(c, z) ELSE vis[z]]

refreshed(vis, c, v, usr) ==
  [z \in Uid |->
     IF dirty[c][z] = "clean" THEN vis[z]
     ELSE IF /\ z \in loaded
             /\ users[z].us[c] # {}
             /\ CanSee(v, ViewerModes(usr, v, users), z, DirtyStatus(c, z))
          THEN DirtyStatus(c, z) ELSE "unseen"]

\* __update_contact_list_all: run when the queue is empty, or 10 s after the
\* first mark whatever the queue holds.
update_contact_lists ==
  /\ batch = 0
  /\ \/ chat_events = << >>
     \/ marked
  /\ usersIn' = [c \in Channel |-> {u \in loaded : users[u].us[c] # {}}]
  /\ local_clients' = [k \in Key |->
       [local_clients[k] EXCEPT !.vis = [c \in Channel |->
          IF localIn[c][k].in = "same"
          THEN refreshed(@[c], c, k[1], local_clients[k].usr) ELSE @[c]]]]
  /\ localIn' = [c \in Channel |-> [k \in Key |->
       IF localIn[c][k].in = "old"
       THEN [localIn[c][k] EXCEPT !.vis = refreshed(@, c, k[1], localIn[c][k].usr)]
       ELSE localIn[c][k]]]
  /\ dirty' = [c \in Channel |-> [u \in Uid |-> "clean"]]
  /\ marked' = FALSE
  /\ drift' = drift \cup {u \in loaded : \E c \in Channel : dirty[c][u] \in Status}
  /\ UNCHANGED <<loaded, users, join_time, trash, kicked, flushed, batch, sharedVars>>

\* The cleanup of local_clients, every 200 s if the queue is empty: the
\* instances of clients in no channel, and of those whose session is gone.
clean_local_clients ==
  LET gone == {k \in Key : /\ local_clients[k].on
                           /\ \/ \A c \in Channel : localIn[c][k].in = "out"
                              \/ k \notin local_users} IN
  /\ batch = 0
  /\ chat_events = << >>
  /\ gone # {}
  /\ local_clients' = [k \in Key |-> IF k \in gone THEN NoClient ELSE local_clients[k]]
  /\ localIn' = [c \in Channel |-> [k \in Key |->
       IF k \in gone /\ localIn[c][k].in = "same"
       THEN [in |-> "old", usr |-> local_clients[k].usr,
             vis |-> local_clients[k].vis[c]]
       ELSE localIn[c][k]]]
  /\ UNCHANGED <<loaded, users, usersIn, dirty, marked, join_time, trash, lostVars, batch,
                 sharedVars>>

\* The 600 s timer: a user 3 hours in trash is unloaded, if loaded.  It comes
\* after the refresh, which an empty queue does not let the loop skip.
unload_trash(u) ==
  /\ batch = 0
  /\ chat_events = << >> => ~ marked
  /\ u \in trash
  /\ trash' = trash \ {u}
  /\ \/ u \in loaded /\ unload_user(u)
     \/ /\ u \notin loaded
        /\ UNCHANGED <<loaded, users, gstate, local_clients, localIn, usersIn,
                       dirty, marked, join_time, lostVars>>
  /\ UNCHANGED <<chat_events, batch, local_users, profile>>

HandleEvent ==
  \/ on_common_JOIN
  \/ do_JOIN_CHANNEL
  \/ do_PART_CHANNEL
  \/ do_SET_STATUS
  \/ do_SET_NICK
  \/ do_KICK_USER
  \/ do_CHANGE_CONTACT_MODE
  \/ on_UPDATE_CONTACT_LIST
  \/ on_CHAT_MESSAGES2
  \/ on_UPDATE_DATA
  \/ FLUSH_USER_DATA

ChatLoop ==
  \/ ExtractAll
  \/ HandleEvent
  \/ update_contact_lists
  \/ clean_local_clients
  \/ \E u \in Uid : unload_trash(u)
=============================================================================
