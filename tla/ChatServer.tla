------------------------------ MODULE ChatServer ------------------------------
(***************************************************************************)
(* The chat thread with the threads that feed it: HTTP handlers, IRC       *)
(* dialogs, the timer thread and the update processor.  A request is a     *)
(* short program of steps that other threads interleave with: it pushes    *)
(* events, writes global_state directly, changes local_users, and leaves   *)
(* commands for the update processor, which turns them into events later.  *)
(***************************************************************************)
EXTENDS ChatThread

CONSTANTS Thread,                  \* request threads
          Kind,                    \* the requests this instance makes
          HasInv,                  \* users for whom has_inv() holds
          MaxRequests              \* bound: requests started in a behaviour

VARIABLES pend,                    \* thread -> the steps it has left
          requests,                \* requests started so far
          updates,                 \* update_commands
          last_status              \* user_profile::last_status_id

requestVars == <<pend, requests, updates, last_status>>
vars == <<threadVars, batch, sharedVars, requestVars>>

Init ==
  /\ loaded = Uid
  /\ users = [u \in Uid |-> NoUser]
  /\ local_clients = [k \in Key |-> NoClient]
  /\ localIn = [c \in Channel |-> [k \in Key |-> Out]]
  /\ usersIn = [c \in Channel |-> {}]
  /\ dirty = [c \in Channel |-> [u \in Uid |-> "clean"]]
  /\ marked = FALSE
  /\ join_time = {}
  /\ trash = {}
  /\ chat_events = << >>
  /\ batch = 0
  /\ gstate = [u \in Uid |-> StateOf(NoUser)]
  /\ local_users = Key
  /\ profile = [u \in Uid |-> {}]
  /\ drift = {} /\ kicked = {} /\ flushed = {}
  /\ pend = [t \in Thread |-> << >>]
  /\ requests = 0
  /\ updates = << >>
  /\ last_status = [u \in Uid |-> "online"]
-----------------------------------------------------------------------------
(* Events and steps.                                                       *)

JoinEvent(u, ct, ch, st) ==
  [type |-> "JOIN", uid |-> u, ct |-> ct, ch |-> ch, status |-> st]
PartEvent(u, ct, chans) ==
  [type |-> "PART_CHANNEL", uid |-> u, ct |-> ct, chans |-> chans]
UserEvent(type, u) == [type |-> type, uid |-> u]
StatusUpdate(u, st) ==
  [type |-> "UPDATE_DATA", uid |-> u, field |-> "status", status |-> st]

Push(e) == [op |-> "push", event |-> e]
Update(e) == [op |-> "update", event |-> e]

\* us_PART_CHANNEL: the event first, global_state directly after it.
us_PART_CHANNEL(u, ct, chans) ==
  << Push(PartEvent(u, ct, chans)),
     [op |-> "part_channels", uid |-> u, ct |-> ct, chans |-> chans] >>

\* us_SET_STATUS: the update is sent when st_update is destroyed, last.
us_SET_STATUS(u, st) ==
  << Push([type |-> "SET_STATUS", uid |-> u, status |-> st]),
     [op |-> "set_status", uid |-> u, status |-> st],
     Update(StatusUpdate(u, st)) >>

\* us_SET_NICK
us_SET_NICK(u) ==
  << Push(UserEvent("SET_NICK", u)), [op |-> "set_nick", uid |-> u] >>

Begin(t, steps) ==
  /\ pend[t] = << >>
  /\ requests < MaxRequests
  /\ requests' = requests + 1
  /\ pend' = [pend EXCEPT ![t] = steps]
  /\ UNCHANGED <<threadVars, batch, chat_events, gstate, local_users, updates>>
-----------------------------------------------------------------------------
(* The requests.                                                           *)

\* url_chat_messages2, the page of a web client: a copy of the user's global
\* state is changed and, after the database work, written back whole.
WwwJoin(t, u, ch) ==
  /\ "www_join" \in Kind
  /\ <<u, "www">> \in local_users
  /\ \E st \in Status :
       LET copy == gstate[u]
           kept == IF copy.status = Undef THEN "online" ELSE copy.status IN
       /\ u \notin HasInv => st = kept
       /\ Begin(t, << [op |-> "set_user_state", uid |-> u,
                       state |-> [us |-> www_channel_replace(copy.us, ch),
                                  status |-> st, named |-> TRUE]],
                      Push(JoinEvent(u, "www", ch, st)),
                      Push([type |-> "CHAT_MESSAGES2", uid |-> u, ch |-> ch]) >>
                   \o IF st = last_status[u] THEN << >>
                      ELSE << Update(StatusUpdate(u, st)) >>)
       /\ last_status' = [last_status EXCEPT ![u] = st]
  /\ UNCHANGED profile

\* irc_cmd_JOIN: refused when global_state has no nick for the user.
IrcJoin(t, u, ch) ==
  /\ "irc_join" \in Kind
  /\ gstate[u].named
  /\ Begin(t, << Push(JoinEvent(u, "irc", ch, "online")) >>)
  /\ UNCHANGED <<profile, last_status>>

\* url_chat_exit: the web client leaves its channel.
WwwExit(t, u) ==
  /\ "part" \in Kind
  /\ Begin(t, us_PART_CHANNEL(u, "www", {}))
  /\ UNCHANGED <<profile, last_status>>

\* irc_cmd_PART, for one channel: refused when global_state.inchat$irc says
\* that the user is in no channel.
IrcPart(t, u, ch) ==
  /\ "part" \in Kind
  /\ get_channel(gstate[u].us, "irc") # {}
  /\ Begin(t, us_PART_CHANNEL(u, "irc", {ch}))
  /\ UNCHANGED <<profile, last_status>>

\* __irc_sessions::erase: the IRC connection is gone.
IrcDisconnect(t, u) ==
  /\ "expire" \in Kind
  /\ Begin(t, us_PART_CHANNEL(u, "irc", {})
                \o << [op |-> "erase$", key |-> <<u, "irc">>] >>)
  /\ UNCHANGED <<profile, last_status>>

\* The timer thread visits a web session: www_local_user_handle_max_
\* inactive_time may erase it, and www_local_user_check_for_channel_cleanup
\* looks whether it must be parted, because it is erased or offline too long.
WwwExpire(t, u) ==
  /\ "expire" \in Kind
  /\ <<u, "www">> \in local_users
  /\ \/ Begin(t, << [op |-> "cleanup", uid |-> u] >>)
     \/ Begin(t, << [op |-> "erase$", key |-> <<u, "www">>],
                    [op |-> "cleanup", uid |-> u] >>)
  /\ UNCHANGED <<profile, last_status>>

\* kick_user, killsession
Kick(t, u) ==
  /\ "kick" \in Kind
  /\ Begin(t, << Push(UserEvent("KICK_USER", u)) >>)
  /\ UNCHANGED <<profile, last_status>>

\* url_set_user_status, www_local_user_handle_offline_status
SetStatus(t, u, st) ==
  /\ "status" \in Kind
  /\ u \in HasInv \/ st = "online"
  /\ Begin(t, us_SET_STATUS(u, st))
  /\ UNCHANGED <<profile, last_status>>

\* irc_change_nick
ChangeNick(t, u) ==
  /\ "nick" \in Kind
  /\ Begin(t, << [op |-> "set_nick", uid |-> u] >> \o us_SET_NICK(u))
  /\ UNCHANGED <<profile, last_status>>

\* url_change_contact_mode, url_change_female_mode, url_change_male_mode: the
\* profile is switched, then the thread is told, then the list is rebuilt.
ChangeMode(t, u, mode) ==
  LET on == mode \notin profile[u]
      tell(type) == [type |-> type, uid |-> u, field |-> "mode",
                     mode |-> mode, on |-> on] IN
  /\ mode \in Kind
  /\ Begin(t, << Push(tell("CHANGE_CONTACT_MODE")),
                 Push([type |-> "UPDATE_CONTACT_LIST", uid |-> u, ct |-> "www"]),
                 Update(tell("UPDATE_DATA")) >>)
  /\ profile' = [profile EXCEPT ![u] = IF on THEN @ \cup {mode} ELSE @ \ {mode}]
  /\ UNCHANGED last_status

\* create_reg_user and the IRC login: the thread is told to forget the user,
\* whatever its other client is doing.
Login(t, u, ct) ==
  /\ "login" \in Kind
  /\ <<u, ct>> \notin local_users
  /\ Begin(t, << Push(UserEvent("FLUSH_USER_DATA", u)),
                 [op |-> "insert$", key |-> <<u, ct>>] >>
                \o IF ct = "irc" THEN us_SET_NICK(u) ELSE << >>)
  /\ UNCHANGED <<profile, last_status>>

Request(t) ==
  \E u \in Uid :
    \/ \E ch \in Channel : WwwJoin(t, u, ch)
    \/ \E ch \in Channel : IrcJoin(t, u, ch)
    \/ WwwExit(t, u)
    \/ \E ch \in Channel : IrcPart(t, u, ch)
    \/ IrcDisconnect(t, u)
    \/ WwwExpire(t, u)
    \/ Kick(t, u)
    \/ \E st \in Status : SetStatus(t, u, st)
    \/ ChangeNick(t, u)
    \/ \E mode \in Modes : ChangeMode(t, u, mode)
    \/ \E ct \in CT : Login(t, u, ct)
-----------------------------------------------------------------------------
(* The steps of a request: each is one call under one mutex.               *)

Now(t, op) == pend[t] # << >> /\ Head(pend[t]).op = op
S(t) == Head(pend[t])
Done(t) ==
  /\ pend' = [pend EXCEPT ![t] = Tail(@)]
  /\ UNCHANGED <<threadVars, batch, profile, requests, last_status>>

\* send_chat_event_push_back
push_back(t) ==
  /\ Now(t, "push")
  /\ chat_events' = Append(chat_events, S(t).event)
  /\ Done(t)
  /\ UNCHANGED <<gstate, local_users, updates>>

\* __send_update_d3, when its st_update is destroyed
send_update(t) ==
  /\ Now(t, "update")
  /\ updates' = Append(updates, S(t).event)
  /\ Done(t)
  /\ UNCHANGED <<chat_events, gstate, local_users>>

\* The direct writes to global_state; the field's absent entry is created.
WriteState(t) ==
  LET u == S(t).uid
      old == gstate[u] IN
  /\ pend[t] # << >>
  /\ \/ /\ S(t).op = "set_user_state"
        /\ gstate' = [gstate EXCEPT ![u] = S(t).state]
     \/ /\ S(t).op = "part_channels"
        /\ gstate' = [gstate EXCEPT ![u].us = part_channels(@, S(t).chans, S(t).ct)]
     \/ /\ S(t).op = "set_status"
        /\ gstate' = [gstate EXCEPT ![u].status = S(t).status]
     \/ /\ S(t).op = "set_nick"
        /\ gstate' = [gstate EXCEPT ![u].named = TRUE]
  /\ Done(t)
  /\ UNCHANGED <<chat_events, local_users, updates>>

\* chat_users_container::insert$ and erase$
ChangeSessions(t) ==
  /\ \/ Now(t, "insert$") /\ local_users' = local_users \cup {S(t).key}
     \/ Now(t, "erase$") /\ local_users' = local_users \ {S(t).key}
  /\ Done(t)
  /\ UNCHANGED <<chat_events, gstate, updates>>

\* www_local_user_check_for_channel_cleanup: channel_size decides.
check_for_channel_cleanup(t) ==
  /\ Now(t, "cleanup")
  /\ pend' = [pend EXCEPT ![t] =
       (IF InSomeChannel(gstate[S(t).uid].us)
        THEN us_PART_CHANNEL(S(t).uid, "www", {}) ELSE << >>) \o Tail(@)]
  /\ UNCHANGED <<threadVars, batch, sharedVars, requests, updates, last_status>>

Step(t) ==
  \/ push_back(t)
  \/ send_update(t)
  \/ WriteState(t)
  \/ ChangeSessions(t)
  \/ check_for_channel_cleanup(t)

\* update_processor: the next command becomes an event of the chat thread.
UpdateProcessor ==
  /\ updates # << >>
  /\ chat_events' = Append(chat_events, Head(updates))
  /\ updates' = Tail(updates)
  /\ UNCHANGED <<threadVars, batch, gstate, local_users, profile, pend,
                 requests, last_status>>

Next ==
  \/ ChatLoop /\ UNCHANGED requestVars
  \/ \E t \in Thread : Request(t)
  \/ \E t \in Thread : Step(t)
  \/ UpdateProcessor

Spec == Init /\ [][Next]_vars
=============================================================================
