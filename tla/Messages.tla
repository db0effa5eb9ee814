------------------------------- MODULE Messages ------------------------------
(* The messages of the chat: what is written and announced on the channels,   *)
(* the history (chat_thread_stuff::_$messages) that a page shows again when   *)
(* it is reloaded, and what is pushed to the pages that are open.             *)
(*                                                                            *)
(* A message is a record: its kind, its channel, who wrote it and to whom;    *)
(* "nobody" is DB_id 0.  Of a text it is kept whether it is fit, foul (for    *)
(* the filter) or unfit to be sent.  The words, the lines sent to IRC clients *)
(* and the count of messages a page shows (100 at most) are left out.  Klaps, *)
(* the ignore lists, levels and the filter's settings do not change here; the *)
(* channel index is the members with a web client (CalmExact).                *)
EXTENDS UserState, Sequences, SequencesExt

CONSTANTS
  Uid,
  Ignores,       \* <<u, z>>: u ignores z
  Invisibility,  \* chat_stuff_user::_invisibility
  Admins,        \* users of level am_admin
  Klapped,       \* <<u, c>>: u is under a klap on c
  Filtered,      \* the censored channels, with the channel a user is moved to
  RequestThread,
  MaxRequests    \* requests made (bound)

ASSUME MessagesAssumption ==
  /\ Channel \subseteq Nat
  /\ "nobody" \notin Uid
  /\ Ignores \subseteq Uid \X Uid /\ \A u \in Uid : <<u, u>> \notin Ignores  \* url_ignore_user
  /\ Klapped \subseteq Uid \X Channel
  /\ Admins \subseteq Uid
  /\ DOMAIN Filtered \subseteq Channel
  /\ MaxRequests \in Nat

VARIABLES
  m,           \* the chat thread's tables and what it shares, see MessagesInit
  m_events,    \* __chat_events
  m_chat,      \* the chat thread's loop: [at, batch, copied]
  m_todo,      \* what is left to do of each request
  m_requests,
  m_lost       \* notices pushed while the chat thread clears (history)

messagesVars == <<m, m_events, m_chat, m_todo, m_requests, m_lost>>

Private == {"PRIV", "SYSPRIV", "INVITE"}
Ignorable == {"STDTO", "MAKEIT", "PRIV", "INVITE"}
Partings == {"QUIT", "KICK", "CHROOM"}

Stranger == [loaded |-> FALSE, us |-> NoChannels, vis |-> TRUE, voice |-> {}]
NoState == [us |-> NoChannels, vis |-> TRUE]
NoNick == [entry |-> "none", vis |-> TRUE]

\* No page, or one whose socket the session does not know yet.
NewPage == [socket |-> FALSE, served |-> FALSE, shown |-> {}]

Message(s, kind, c, from, to) ==
  [id |-> s.said + 1, kind |-> kind, ch |-> c, from |-> from, to |-> to]

\* Everybody has a page open on some channel, or nobody is there.
MessagesInit(homes) ==
  LET members == {u \in Uid : homes[u] \in Channel}
      greeted == {[id |-> 0, kind |-> "GREETING", ch |-> homes[u],
                   from |-> u, to |-> "nobody"] : u \in members}
      us(u) == [c \in Channel |-> IF c = homes[u] THEN {"www"} ELSE {}] IN
  /\ m = [users |-> [u \in Uid |-> IF u \in members
                       THEN [Stranger EXCEPT !.loaded = TRUE, !.us = us(u)] ELSE Stranger],
          nicks |-> [u \in Uid |-> IF u \in members
                       THEN [NoNick EXCEPT !.entry = "object"] ELSE NoNick],
          global |-> [u \in Uid |-> [us |-> us(u), vis |-> TRUE]],
          clients |-> members,
          moderated |-> {},
          history |-> greeted,
          pending |-> << >>,
          sessions |-> Uid,
          screen |-> [u \in Uid |-> IF u \in members
                       THEN [socket |-> TRUE, served |-> TRUE,
                             shown |-> {e \in greeted : e.ch = homes[u]}] ELSE NewPage],
          external |-> {},
          said |-> 0,
          loose |-> {},
          kicked |-> {}]
  /\ m_events = << >>
  /\ m_chat = [at |-> "look", batch |-> 0, copied |-> {}]
  /\ m_todo = [t \in RequestThread |-> << >>]
  /\ m_requests = 0
  /\ m_lost = {}
-----------------------------------------------------------------------------
(* Messages, pages and users, as functions of the tables s.                   *)

\* chat_msg_PRIV::make, chat_msg_SYSPRIV::make
BetweenThem(e, u) == u \in {e.from, e.to}

\* The make of what is written, of the announcements and of the changes of
\* the channel: the words depend on the reader, whether there are any does not.
Written == {"STDTO", "MAKEIT", "SYS"}
Announced == {"GREETING"} \cup Partings
OfTheChannel == {"MAT", "CHTOPIC", "MODE"}

\* chat_msg$::make: whether the message says anything to u on channel c.
make(e, c, u) ==
  /\ e.ch = c
  /\ e.kind \in Written \cup Announced \cup OfTheChannel \/ BetweenThem(e, u)

\* chat_msg$::is_ignored
is_ignored(e, u) == e.kind \in Ignorable /\ <<u, e.from>> \in Ignores

\* save_chat_msg
save_chat_msg(s, e) == [s EXCEPT !.history = @ \cup {e}, !.said = e.id]

\* What a page shows when the messages es are pushed to it: nothing more
\* without a persistent_socket.
Pushed(page, es) == IF page.socket THEN [page EXCEPT !.shown = @ \cup es] ELSE page

\* data_push_back_www
data_push_back_www(s, us, e) ==
  [s EXCEPT !.screen = [u \in Uid |-> IF u \in us THEN Pushed(@[u], {e}) ELSE @[u]]]

\* __local_users_in_channels$
ClientsIn(s, c) == {u \in s.clients : "www" \in s.users[u].us[c]}

\* Mutant: those who ignore the writer are shown the message too.
Hears_all(s, e) == ClientsIn(s, e.ch)

\* Whom push_back_channel_msg sends a message.
Hears(s, e) == {u \in ClientsIn(s, e.ch) : u = e.from \/ <<u, e.from>> \notin Ignores}

say(s, e) == data_push_back_www(save_chat_msg(s, e), Hears(s, e), e)

\* Mutant: the private messages of a channel are shown to all who reload.
get_n_messages_all(s, c, u) == {e \in s.history : e.ch = c /\ ~is_ignored(e, u)}

\* LK_chat_channel_get_n_messages: what a page shows when it is loaded.
get_n_messages(s, c, u) == {e \in s.history : make(e, c, u) /\ ~is_ignored(e, u)}

\* get_user_p, preload_user: the nick's entry may be an older one.
get_user_p(s, u) ==
  IF s.users[u].loaded THEN s
  ELSE [s EXCEPT !.users[u] = [Stranger EXCEPT !.loaded = TRUE],
                 !.nicks[u] = IF @.entry = "none" THEN [@ EXCEPT !.entry = "object"] ELSE @,
                 !.global[u] = NoState]

\* The state of u that find_nick leads to.
NickVisible(s, u) == IF s.nicks[u].entry = "object" THEN s.users[u].vis ELSE s.nicks[u].vis

\* I_can_see_other, asked about the object the nick leads to.
I_can_see_other(s, u, z) ==
  u = z \/ NickVisible(s, z) \/ Invisibility[z] <= Invisibility[u]

\* send_syspriv_msg: shown at once, kept for the chat thread to put in the
\* history.  The second half is external_$messages.push_back.
NoticeTo(s, u) ==
  Message(s, "SYSPRIV", CHOOSE c \in get_channel(s.global[u].us, "www") : TRUE, "nobody", u)
CanNotice(s, u) == u \in s.sessions /\ get_channel(s.global[u].us, "www") # {}
send_syspriv_msg(s, u) ==
  IF CanNotice(s, u)
  THEN LET e == NoticeTo(s, u) IN
       [data_push_back_www(s, {u}, e) EXCEPT !.external = @ \cup {e}, !.said = e.id]
  ELSE s

\* greeting_msgs_channels and the others, in the order of the map.
announce(s, kind, u, chans) ==
  [s EXCEPT !.pending = @ \o [i \in 1..Cardinality(chans) |->
     [kind |-> kind, u |-> u,
      ch |-> CHOOSE c \in chans : Cardinality({d \in chans : d <= c}) = i]]]
-----------------------------------------------------------------------------
(* The events of the chat thread, as functions of the tables.                 *)

\* Mutant: who reloads the page is greeted again.
Greeted_again(old, c, vis) == vis

\* When on_JOIN_fix_lists greets the user on the channel.
Greeted(old, c, vis) == vis /\ (old.us[c] = {} \/ ~old.vis)

\* on_JOIN_fix_lists.  A user seen on other channels too who comes back under
\* another visibility is announced on this one only.
on_JOIN_fix_lists(s, e) ==
  LET old == s.users[e.u]
      us == IF e.ct = "irc" THEN channel_add(old.us, "irc", e.ch)
            ELSE www_channel_replace(old.us, e.ch)
      joined == [s EXCEPT !.users[e.u] = [@ EXCEPT !.us = us, !.vis = e.vis],
                          !.global[e.u] = [us |-> us, vis |-> e.vis],
                          !.loose = IF old.vis # e.vis /\ export_channels(us) # {e.ch}
                                    THEN @ \cup {e.u} ELSE @]
      greeted == IF Greeted(old, e.ch, e.vis)
                 THEN announce(joined, "GREETING", e.u, {e.ch}) ELSE joined IN
  IF old.us[e.ch] # {} /\ old.vis /\ ~e.vis
  THEN announce(greeted, "QUIT", e.u, {e.ch}) ELSE greeted

\* on_common_JOIN, but for the event it sends the chat thread itself.
on_common_JOIN(s, e) ==
  LET l == get_user_p(s, e.u) IN
  on_JOIN_fix_lists([l EXCEPT !.clients = IF e.ct = "www" THEN @ \cup {e.u} ELSE @], e)

\* CHROOM
on_CHROOM(s, e) == announce(get_user_p(s, e.u), "CHROOM", e.u, {e.ch})

\* The user and the web client, made if they are not there.
with_client(s, u) == [get_user_p(s, u) EXCEPT !.clients = @ \cup {u}]

\* on_CHAT_MESSAGES2: the page is served if it shows one channel.
on_CHAT_MESSAGES2(s, e) ==
  LET u == e.u
      l == with_client(s, u)
      g == IF channel_us_count_usr(l.users[u].us, e.ch, "www") THEN l
           ELSE [l EXCEPT !.global[u] = [us |-> l.users[u].us, vis |-> l.users[u].vis]]
      chans == get_channel(l.users[u].us, "www") IN
  IF Cardinality(chans) # 1 THEN g
  ELSE LET c == CHOOSE x \in chans : TRUE
           n == IF <<u, c>> \in Klapped THEN send_syspriv_msg(g, u) ELSE g IN
       IF ~n.screen[u].socket THEN n
       ELSE [n EXCEPT !.screen[u].served = TRUE,
                      !.screen[u].shown = @ \cup get_n_messages(n, c, u)]

\* do_set_user_state: SET_STATUS, PART_CHANNEL, KICK_USER; JOIN_CHANNEL is
\* on_JOIN_fix_lists once more.
on_SET_STATUS(s, e) ==
  LET old == s.users[e.u]
      chans == export_channels(old.us)
      set == [s EXCEPT !.users[e.u].vis = e.vis,
                       !.global[e.u] = [us |-> old.us, vis |-> e.vis]] IN
  IF chans = {} THEN s
  ELSE IF e.vis = old.vis THEN set
  ELSE announce(set, IF e.vis THEN "GREETING" ELSE "QUIT", e.u, chans)

\* Mutant: the farewell is said on every channel named.
Leaves_all(us, chans, ct) == IF chans = {} THEN export_channels(us) ELSE chans

\* Where a user who parts is seen no more.
Leaves(us, chans, ct) == parted_channels(us, chans, ct)

on_PART_CHANNEL(s, e) ==
  LET old == s.users[e.u]
      us == part_channels(old.us, e.chans, e.ct)
      set == [s EXCEPT !.users[e.u].us = us, !.global[e.u] = [us |-> us, vis |-> old.vis]] IN
  IF old.vis THEN announce(set, "QUIT", e.u, Leaves(old.us, e.chans, e.ct)) ELSE set

\* The nick's entry is left, and leads to the object thrown away.
on_KICK_USER(s, e) ==
  LET u == e.u
      old == s.users[u]
      said == IF old.vis THEN announce(s, "KICK", u, export_channels(old.us)) ELSE s IN
  [said EXCEPT !.users[u] = Stranger,
               !.nicks[u] = IF @.entry = "object" THEN [entry |-> "orphan", vis |-> old.vis] ELSE @,
               !.global[u] = NoState,
               !.clients = @ \ {u},
               !.sessions = @ \ {u},
               !.screen[u] = NewPage,
               !.kicked = @ \cup {u}]

on_SET_user_state(s, e) ==
  LET l == get_user_p(s, e.u) IN
  CASE e.type = "JOIN_CHANNEL" -> on_JOIN_fix_lists(l, e)
    [] e.type = "SET_STATUS" -> on_SET_STATUS(l, e)
    [] e.type = "PART_CHANNEL" -> on_PART_CHANNEL(l, e)
    [] e.type = "KICK_USER" -> on_KICK_USER(l, e)
    [] OTHER -> l

\* Mutant: the nicks of a user who is unloaded stay.
NicksAfter_stay(s, u) == s.nicks[u]

\* What unload_user makes of the nick: any entry is erased.
NicksAfter(s, u) == NoNick

\* unload_user.  Nobody is told of a member who is forgotten.
unload_user(s, e) ==
  LET u == e.u IN
  IF ~s.users[u].loaded THEN s
  ELSE [s EXCEPT !.users[u] = Stranger,
                 !.nicks[u] = NicksAfter(s, u),
                 !.global[u] = NoState,
                 !.loose = IF InSomeChannel(s.users[u].us) THEN @ \cup {u} ELSE @]

\* user_process_send_message_priv: one message when both are on the same
\* channels, or else one on a channel of each.
First(chans) == CHOOSE c \in chans : \A d \in chans : c <= d

\* Mutant: the reader who ignores the writer is shown the message.
Reads_all(s, u, z, kind) == z \in s.sessions

Reads(s, u, z, kind) == z \in s.sessions /\ (kind = "PRIV" => <<z, u>> \notin Ignores)

\* Nothing is sent for somebody who is nowhere, nor an unfit text.
SendsPriv(s, u, text) == InSomeChannel(s.users[u].us) /\ text # "unfit"

send_message_priv(s, u, z, kind, text) ==
  LET usc == get_channel(s.users[u].us, "www")
      zsc == export_channels(s.users[z].us)
      readers == IF Reads(s, u, z, kind) THEN {z} ELSE {}
      copy(r, c, who) == LET e == Message(r, kind, c, u, z) IN
                         data_push_back_www(save_chat_msg(r, e), who \cap r.sessions, e)
      own == IF usc = {} THEN s ELSE copy(s, First(usc), {u}) IN
  IF ~SendsPriv(s, u, text) THEN s
  ELSE IF usc = zsc /\ zsc # {} THEN copy(s, First(usc), {u} \cup readers)
  ELSE IF zsc = {} THEN own ELSE copy(own, First(zsc), readers)

\* What a text is sent as: only an administrator's may be a system message.
KindOf(u, kind) == IF kind = "MAKEIT" \/ (kind = "SYS" /\ u \in Admins) THEN kind ELSE "STDTO"

\* user_process_send_message_to_channel; the writer need not be on it.  A text
\* is unfit if it is blank, too long or the writer's last one again.
send_message_to_channel(s, e) ==
  LET u == e.u
      kind == KindOf(u, e.kind)
      foul == e.text = "foul" /\ e.ch \in DOMAIN Filtered
      moved == Filtered[e.ch] \in Channel
      c == IF foul /\ moved THEN Filtered[e.ch] ELSE e.ch
      there == IF foul /\ moved /\ channel_us_count_usr(s.users[u].us, c, "www")
               THEN [s EXCEPT !.global[u] = [us |-> s.users[u].us, vis |-> s.users[u].vis]]
               ELSE s IN
  IF e.text = "unfit" THEN s
  ELSE IF ~s.users[u].vis /\ kind # "SYS" THEN send_syspriv_msg(s, u)
  ELSE IF e.ch \in s.moderated /\ e.ch \notin s.users[u].voice THEN send_syspriv_msg(s, u)
  ELSE IF foul /\ ~moved THEN say(s, Message(s, "MAT", e.ch, "nobody", "nobody"))
  ELSE say(there, Message(there, kind, c, u, "nobody"))

\* on_SEND_MESSAGE.  The test for floods compares a second with a period and
\* never succeeds.
on_SEND_MESSAGE(s, e) ==
  LET l == get_user_p(s, e.u) IN
  IF ~InSomeChannel(l.users[e.u].us) THEN l
  ELSE IF <<e.u, e.ch>> \in Klapped THEN send_syspriv_msg(l, e.u)
  ELSE IF e.to = "nobody" THEN send_message_to_channel(l, e)
  ELSE IF l.nicks[e.to].entry = "none" \/ ~I_can_see_other(l, e.u, e.to)
  THEN send_syspriv_msg(l, e.u)
  ELSE send_message_priv(get_user_p(l, e.to), e.u, e.to,
                         IF KindOf(e.u, e.kind) = "SYS" THEN "SYSPRIV" ELSE "PRIV", e.text)

\* on_INVITE: when the invitation is declined for the user (by a status, or
\* because it comes too soon) it becomes a message; the writer sees it only
\* after a reload.
on_INVITE(s, e) ==
  LET l == get_user_p(get_user_p(s, e.u), e.to)
      sc == get_channel(l.users[e.u].us, "www") IN
  IF Cardinality(sc) # 1 \/ <<e.to, e.u>> \in Ignores \/ ~e.declined THEN l
  ELSE LET msg == Message(l, "INVITE", CHOOSE c \in sc : TRUE, e.u, e.to) IN
       send_syspriv_msg(
         data_push_back_www(save_chat_msg(l, msg), {e.to} \cap l.sessions, msg), e.u)

\* on_CHMODE, on_CHTOPIC: everybody on the channel is told.
tell(s, kind, c) ==
  LET e == Message(s, kind, c, "nobody", "nobody") IN
  data_push_back_www(save_chat_msg(s, e), ClientsIn(s, c), e)

on_CHMODE(s, e) ==
  tell([get_user_p(s, e.u) EXCEPT !.moderated =
          IF e.ch \in @ THEN @ \ {e.ch} ELSE @ \cup {e.ch}], "MODE", e.ch)

on_CHTOPIC(s, e) ==
  LET l == get_user_p(s, e.u) IN
  IF <<e.u, e.ch>> \in Klapped THEN send_syspriv_msg(send_syspriv_msg(l, e.u), e.u)
  ELSE tell(l, "CHTOPIC", e.ch)

\* on_CHVOICE: the state of the user who gets the voice is published as that
\* of the user who gives it.
on_CHVOICE(s, e) ==
  LET l == get_user_p(s, e.u)
      z == e.to
      voice == IF e.ch \in l.users[z].voice THEN l.users[z].voice \ {e.ch}
               ELSE l.users[z].voice \cup {e.ch}
      given == [l EXCEPT !.users[z].voice = voice,
                         !.global[e.u] = [us |-> l.users[z].us, vis |-> l.users[z].vis],
                         !.loose = IF z # e.u THEN @ \cup {e.u} ELSE @] IN
  IF e.u \notin Admins \/ ~l.users[z].loaded THEN send_syspriv_msg(l, e.u)
  ELSE tell(given, "MODE", e.ch)

on_event(s, e) ==
  CASE e.type = "JOIN" -> on_common_JOIN(s, e)
    [] e.type = "CHROOM" -> on_CHROOM(s, e)
    [] e.type = "CHAT_MESSAGES2" -> on_CHAT_MESSAGES2(s, e)
    [] e.type = "SEND_MESSAGE" -> on_SEND_MESSAGE(s, e)
    [] e.type = "INVITE" -> on_INVITE(s, e)
    [] e.type = "CHMODE" -> on_CHMODE(s, e)
    [] e.type = "CHVOICE" -> on_CHVOICE(s, e)
    [] e.type = "CHTOPIC" -> on_CHTOPIC(s, e)
    [] e.type = "FLUSH_USER_DATA" -> unload_user(s, e)
    [] OTHER -> on_SET_user_state(s, e)
-----------------------------------------------------------------------------
(* The chat thread.                                                           *)

ChatAt(step) == m_chat.at = step
OthersWait == UNCHANGED <<m_todo, m_requests>>

\* chat_processor::handler copies the notices of the other threads, and
\* clears their container in a second call.
copy_external ==
  /\ ChatAt("look")
  /\ m.external # {}
  /\ m_chat' = [m_chat EXCEPT !.at = "clear", !.copied = m.external]
  /\ OthersWait /\ UNCHANGED <<m, m_events, m_lost>>

\* Mutant: the notices copied are not put in the history.
Merged_not(s, copied) == s.history

\* The history with the notices copied.
Merged(s, copied) == s.history \cup copied

clear_external ==
  /\ ChatAt("clear")
  /\ m_lost' = m_lost \cup (m.external \ m_chat.copied)
  /\ m' = [m EXCEPT !.external = {}, !.history = Merged(m, m_chat.copied)]
  /\ m_chat' = [at |-> "events", batch |-> Len(m_events), copied |-> {}]
  /\ OthersWait /\ UNCHANGED m_events

\* handle_chat_events: __chat_events.extract_all
extract_all ==
  /\ ChatAt("look")
  /\ m.external = {}
  /\ m_events # << >> \/ m.pending # << >>
  /\ m_chat' = [m_chat EXCEPT !.at = "events", !.batch = Len(m_events)]
  /\ OthersWait /\ UNCHANGED <<m, m_events, m_lost>>

\* A JOIN is sent once more, as a change of the user's state.
Echo(e) == IF e.type = "JOIN" THEN << [e EXCEPT !.type = "JOIN_CHANNEL"] >> ELSE << >>

handle_event ==
  /\ ChatAt("events")
  /\ m_chat.batch > 0
  /\ m' = on_event(m, Head(m_events))
  /\ m_events' = Tail(m_events) \o Echo(Head(m_events))
  /\ m_chat' = [m_chat EXCEPT !.batch = @ - 1]
  /\ OthersWait /\ UNCHANGED m_lost

\* The announcements are made kind by kind, whatever their order was: the place
\* of each of those pending.
Turn == [GREETING |-> 1, QUIT |-> 2, CHROOM |-> 3, KICK |-> 4]
Announcing(pending) == {i \in DOMAIN pending : pending[i].kind \in Announced}
Place(pending, i) ==
  Cardinality({j \in Announcing(pending) :
    \/ Turn[pending[j].kind] < Turn[pending[i].kind]
    \/ pending[j].kind = pending[i].kind /\ j <= i})

\* handle_room_event_messages, if no event has come meanwhile.
handle_room_event_messages ==
  LET said == {[id |-> m.said + Place(m.pending, i), kind |-> m.pending[i].kind,
                ch |-> m.pending[i].ch, from |-> m.pending[i].u, to |-> "nobody"] :
                 i \in Announcing(m.pending)}
      shown(u) == {e \in said : u \in ClientsIn(m, e.ch)} IN
  /\ ChatAt("events")
  /\ m_chat.batch = 0
  /\ m_chat' = [m_chat EXCEPT !.at = "look"]
  /\ m' = IF m_events # << >> THEN m
          ELSE [m EXCEPT !.history = @ \cup said,
                         !.said = @ + Cardinality(said),
                         !.pending = << >>,
                         !.screen = [u \in Uid |-> Pushed(@[u], shown(u))]]
  /\ OthersWait /\ UNCHANGED <<m_events, m_lost>>

ChatSteps ==
  \/ copy_external
  \/ clear_external
  \/ extract_all
  \/ handle_event
  \/ handle_room_event_messages
-----------------------------------------------------------------------------
(* The requests: each is a list of calls, made one at a time.                 *)

\* An event with its fields, for send_chat_event$push_back.
Push(type, u, fields) ==
  [op |-> "push", u |-> u,
   event |-> [k \in {"type", "u"} \cup DOMAIN fields |->
                IF k = "type" THEN type ELSE IF k = "u" THEN u ELSE fields[k]]]

\* Whether something of u is under way: a request, or an event of it.
Unsettled(u) ==
  \/ \E t \in RequestThread : m_todo[t] # << >> /\ Head(m_todo[t]).u = u
  \/ \E i \in DOMAIN m_events : m_events[i].u = u

\* ghost: whose announcements and page nothing is promised about, because of
\* two requests at a time, or of a page beside an IRC client.
Begin(t, u, steps, mixes) ==
  /\ m_todo[t] = << >>
  /\ m_requests < MaxRequests
  /\ m_requests' = m_requests + 1
  /\ m_todo' = [m_todo EXCEPT ![t] = steps]
  /\ m' = [m EXCEPT !.loose = IF Unsettled(u) \/ mixes THEN @ \cup {u} ELSE @]
  /\ UNCHANGED <<m_events, m_chat, m_lost>>

\* Mutant: the move of a user is told whoever sees the user.
TellsMove_invisible(state, c) ==
  LET chans == export_channels(state.us) IN
  Cardinality(chans) = 1 /\ c \notin chans

\* Whether url_chat_messages2 announces the move on the former channel.
TellsMove(state, c) ==
  LET chans == export_channels(state.us) IN
  /\ Cardinality(chans) = 1
  /\ c \notin chans
  /\ \A d \in chans : Cardinality(state.us[d]) = 1
  /\ state.vis

\* url_chat_messages2.  The page is new: the session's socket is an old one
\* until the request's last step.
url_chat_messages2(t, u, c, vis) ==
  LET state == m.global[u] IN
  /\ u \in m.sessions
  /\ m_todo[t] = << >>
  /\ m_requests < MaxRequests
  /\ m_requests' = m_requests + 1
  /\ m' = [m EXCEPT !.screen[u] = NewPage,
                    !.loose = IF Unsettled(u) \/ get_channel(state.us, "irc") # {}
                              THEN @ \cup {u} ELSE @]
  /\ m_todo' = [m_todo EXCEPT ![t] =
       (IF TellsMove(state, c)
        THEN << Push("CHROOM", u, [ch |-> CHOOSE d \in export_channels(state.us) : TRUE]) >>
        ELSE << >>)
       \o << [op |-> "set_user_state", u |-> u,
              state |-> [us |-> www_channel_replace(state.us, c), vis |-> vis]],
             Push("JOIN", u, [ct |-> "www", ch |-> c, vis |-> vis]),
             Push("CHAT_MESSAGES2", u, [ch |-> c]),
             [op |-> "persistent_socket", u |-> u] >>]
  /\ UNCHANGED <<m_events, m_chat, m_lost>>

\* irc_cmd_JOIN
irc_cmd_JOIN(t, u, c) ==
  Begin(t, u, << Push("JOIN", u, [ct |-> "irc", ch |-> c, vis |-> TRUE]) >>,
        get_channel(m.users[u].us, "www") # {})

\* us_PART_CHANNEL
us_PART_CHANNEL(u, ct, chans) ==
  << Push("PART_CHANNEL", u, [ct |-> ct, chans |-> chans]),
     [op |-> "part_channels", u |-> u, ct |-> ct, chans |-> chans] >>
part(t, u, ct, chans) ==
  /\ ct = "irc" => get_channel(m.global[u].us, "irc") # {}
  /\ Begin(t, u, us_PART_CHANNEL(u, ct, chans), FALSE)

\* us_SET_STATUS
us_SET_STATUS(t, u, vis) ==
  Begin(t, u, << Push("SET_STATUS", u, [vis |-> vis]),
                 [op |-> "set_status", u |-> u, vis |-> vis] >>, FALSE)

\* The timer thread drops an idle web session and looks after its channels.
expire(t, u) ==
  u \in m.sessions
  /\ Begin(t, u, << [op |-> "erase$", u |-> u], [op |-> "cleanup", u |-> u] >>, FALSE)

\* kick_user
kick_user(t, u) == Begin(t, u, << Push("KICK_USER", u, << >>) >>, FALSE)

\* create_reg_user: the thread forgets the user, a session is added.
create_reg_user(t, u) ==
  Begin(t, u, << Push("FLUSH_USER_DATA", u, << >>), [op |-> "insert$", u |-> u] >>, FALSE)

\* url_chat_sendmessage: on the channel global_state says the user is on, or
\* a notice that there is none, or that the user is under a klap there.
url_chat_sendmessage(t, u, to, kind, text) ==
  LET chans == get_channel(m.global[u].us, "www") IN
  /\ u \in m.sessions
  /\ \E c \in chans :
       Begin(t, u, IF <<u, c>> \in Klapped THEN << [op |-> "notice", u |-> u] >>
                   ELSE << Push("SEND_MESSAGE", u,
                             [to |-> to, kind |-> kind, text |-> text, ch |-> c]) >>, FALSE)

\* irc_cmd_PRIVMSG: on any channel, or to a nick and then on channel 0.
irc_cmd_PRIVMSG(t, u, to, c) ==
  Begin(t, u, << Push("SEND_MESSAGE", u, [to |-> to, kind |-> "STDTO", text |-> "fit",
                                          ch |-> IF to = "nobody" THEN c ELSE 0]) >>, FALSE)

\* Any thread may have something to tell a user.
notice(t, u) == CanNotice(m, u) /\ Begin(t, u, << [op |-> "notice", u |-> u] >>, FALSE)

\* url_invite, url_set_topic, and the commands +m and +v.
url_invite(t, u, z, declined) ==
  Begin(t, u, << Push("INVITE", u, [to |-> z, declined |-> declined]) >>, FALSE)
url_set_topic(t, u) ==
  \E c \in get_channel(m.global[u].us, "www") :
    Begin(t, u, << Push("CHTOPIC", u, [ch |-> c]) >>, FALSE)
channel_mode(t, u, c) == Begin(t, u, << Push("CHMODE", u, [ch |-> c]) >>, FALSE)
channel_voice(t, u, z, c) == Begin(t, u, << Push("CHVOICE", u, [to |-> z, ch |-> c]) >>, FALSE)

\* The next call of a request.
Call(t) == Head(m_todo[t])
Goes(t) == m_todo' = [m_todo EXCEPT ![t] = Tail(@)]
ToDo(t, op) == m_todo[t] # << >> /\ Call(t).op = op

send_chat_event_push_back(t) ==
  /\ ToDo(t, "push")
  /\ m_events' = Append(m_events, Call(t).event)
  /\ Goes(t)
  /\ UNCHANGED <<m, m_chat, m_requests, m_lost>>

\* The calls on global_state.
write_global_state(t) ==
  LET u == Call(t).u IN
  /\ \/ ToDo(t, "set_user_state") /\ m' = [m EXCEPT !.global[u] = Call(t).state]
     \/ ToDo(t, "set_status") /\ m' = [m EXCEPT !.global[u].vis = Call(t).vis]
     \/ /\ ToDo(t, "part_channels")
        /\ m' = [m EXCEPT !.global[u].us = part_channels(@, Call(t).chans, Call(t).ct)]
  /\ Goes(t)
  /\ UNCHANGED <<m_events, m_chat, m_requests, m_lost>>

\* www_local_user_check_for_channel_cleanup
check_for_channel_cleanup(t) ==
  LET u == Call(t).u IN
  /\ ToDo(t, "cleanup")
  /\ m_todo' = [m_todo EXCEPT ![t] = IF InSomeChannel(m.global[u].us)
                                     THEN us_PART_CHANNEL(u, "www", {}) ELSE << >>]
  /\ UNCHANGED <<m, m_events, m_chat, m_requests, m_lost>>

\* The sessions: the end of url_chat_messages2, a login, an expiry.
write_session(t) ==
  LET u == Call(t).u IN
  /\ \/ /\ ToDo(t, "persistent_socket")
        /\ m' = [m EXCEPT !.screen[u].socket = u \in m.sessions]
     \/ ToDo(t, "insert$") /\ m' = [m EXCEPT !.sessions = @ \cup {u}]
     \/ ToDo(t, "erase$") /\ m' = [m EXCEPT !.sessions = @ \ {u}]
  /\ Goes(t)
  /\ UNCHANGED <<m_events, m_chat, m_requests, m_lost>>

\* send_syspriv_msg in two calls: the page, then external_$messages.
show_notice(t) ==
  LET u == Call(t).u
      e == NoticeTo(m, u) IN
  /\ ToDo(t, "notice")
  /\ IF CanNotice(m, u)
     THEN /\ m' = [data_push_back_www(m, {u}, e) EXCEPT !.said = e.id]
          /\ m_todo' = [m_todo EXCEPT ![t] = << [op |-> "external", u |-> u, msg |-> e] >>]
     ELSE Goes(t) /\ UNCHANGED m
  /\ UNCHANGED <<m_events, m_chat, m_requests, m_lost>>

push_external(t) ==
  /\ ToDo(t, "external")
  /\ m' = [m EXCEPT !.external = @ \cup {Call(t).msg}]
  /\ Goes(t)
  /\ UNCHANGED <<m_events, m_chat, m_requests, m_lost>>

RequestSteps(t) ==
  \/ send_chat_event_push_back(t)
  \/ write_global_state(t)
  \/ write_session(t)
  \/ check_for_channel_cleanup(t)
  \/ show_notice(t)
  \/ push_external(t)

\* What users ask for through their clients, and what is asked about them.
Requests(t) ==
  \E u, z \in Uid, c \in Channel :
    \/ \E vis \in BOOLEAN : url_chat_messages2(t, u, c, vis) \/ us_SET_STATUS(t, u, vis)
    \/ irc_cmd_JOIN(t, u, c) \/ part(t, u, "irc", {c}) \/ part(t, u, "www", {})
    \/ expire(t, u) \/ kick_user(t, u) \/ create_reg_user(t, u) \/ notice(t, u)
    \/ \E text \in {"fit", "foul", "unfit"} :
         \/ \E kind \in Written : url_chat_sendmessage(t, u, "nobody", kind, text)
         \/ \E kind \in {"PRIV", "SYS"} : url_chat_sendmessage(t, u, z, kind, text)
    \/ irc_cmd_PRIVMSG(t, u, "nobody", c) \/ irc_cmd_PRIVMSG(t, u, z, c)
    \/ \E declined \in BOOLEAN : url_invite(t, u, z, declined)
    \/ url_set_topic(t, u) \/ channel_mode(t, u, c) \/ channel_voice(t, u, z, c)

MessagesNext == ChatSteps \/ \E t \in RequestThread : RequestSteps(t) \/ Requests(t)
MessagesSpec ==
  (\E homes \in [Uid -> Nat] : MessagesInit(homes)) /\ [][MessagesNext]_messagesVars
-----------------------------------------------------------------------------
(* Properties.                                                                *)

\* What is greeted and said goodbye to balances: on every channel a user was
\* announced once more than taken leave of if the user is seen there, and as
\* often if not, counting what is still to be announced, once the user's
\* requests are done.  Not so for users
\* with two requests at a time, a page beside an IRC client, a login in
\* another client or a change of visibility by a JOIN: the server has no
\* announcement for these.
AnnouncementsBalance ==
  \A u \in Uid \ m.loose, c \in Channel :
    LET told(kinds) ==
          Cardinality({e \in m.history : e.kind \in kinds /\ e.from = u /\ e.ch = c})
          + Cardinality({i \in DOMAIN m.pending : /\ m.pending[i].kind \in kinds
                                                  /\ m.pending[i].u = u
                                                  /\ m.pending[i].ch = c})
        seen == m.users[u].us[c] # {} /\ m.users[u].vis IN
    Unsettled(u) \/ told({"GREETING"}) = told(Partings) + (IF seen THEN 1 ELSE 0)

\* A page that has been served and is left alone shows, of its own channel,
\* what it would show if it were loaded again: nothing is only on the screen
\* and nothing is only in the history, except notices on their way to the history or lost there, a
\* system message of somebody the user ignores, and an invitation that became
\* a message.
SameScreen ==
  \A u \in m.clients \ m.loose :
    LET page == m.screen[u]
        onTheWay == m.external \cup m_chat.copied \cup m_lost
                    \cup {m_todo[t][1].msg : t \in {x \in RequestThread : ToDo(x, "external")}} IN
    page.served /\ ~(\E i \in DOMAIN m_events : m_events[i].u = u) =>
      \A c \in get_channel(m.users[u].us, "www") :
        LET again == get_n_messages(m, c, u)
            unlike(e) == e.kind = "INVITE" \/ (e.kind = "SYS" /\ <<u, e.from>> \in Ignores) IN
        /\ \A e \in page.shown \ again : unlike(e) \/ e \in onTheWay \/ e.ch # c
        /\ \A e \in again \ page.shown : unlike(e)

\* A private message is on the pages of the two it is between, and nobody
\* is shown what an ignored user writes.
OnlyForThem ==
  \A u \in Uid : \A e \in m.screen[u].shown :
    /\ e.kind \in Private => u \in {e.from, e.to}
    /\ ~is_ignored(e, u)

\* The nick of a user leads to the user's present object, and of one who is
\* not loaded to none, unless the user has been kicked.
NickFindsItsUser ==
  \A u \in Uid \ m.kicked : (m.nicks[u].entry = "object") = m.users[u].loaded

\* A page shows what it should, and to nobody else.
PagesTrue == SameScreen /\ OnlyForThem
=============================================================================
