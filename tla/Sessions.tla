------------------------------ MODULE Sessions -------------------------------
(* The sessions of one user: local_users, the container with one web and one  *)
(* IRC entry for each user; the web requests that find or make a session; IRC *)
(* connections, their irc_session and their logins; and the loop of           *)
(* users_handler that watches sockets, times out sessions and cleans up.      *)
(* A method of a container is one action; what calls several is several.      *)
EXTENDS Integers, Sequences, FiniteSets, SequencesExt

CONSTANTS
  Request,      \* web worker threads
  Conn,         \* IRC connections, each used once
  MaxSessions   \* chat_user objects (bound)

ASSUME SessionsAssumption == MaxSessions \in Nat

Session == 1..MaxSessions
NoSession == 0
Kind == {"www", "irc"}

VARIABLES
  s_local,    \* local_users: the session of each kind
  s_user,     \* the chat_user objects
  s_in,       \* global_state: the kinds through which the user is in the channel
  s_status,   \* global_state: "online" or "offline"
  s_request,  \* web threads: what each does next, for which session, and the
              \* part of the user_state that it has read
  s_posted,   \* sessions whose CHAT_MESSAGES2 the chat thread has not handled
  s_conn,     \* IRC connections and irc_sessions
  s_walk,     \* local_users_iterate: the sessions to visit, what comes next for
              \* the first, and then the kinds __clean$ is to look at
  s_orphan    \* history: the timer has taken a session out of local_users that a
              \* page had asked for since the check, and none was made since then

sessionVars ==
  <<s_local, s_user, s_in, s_status, s_request, s_posted, s_conn, s_walk, s_orphan>>

\* sock: persistent_socket: "none" until the first (www_inchat is set with
\* it), "up" while it is connected.  away: www_offline_time, 0 or
\* less or more than the timeouts ago.  sent: www_offline_status_sent.  stale:
\* last_access_time is longer ago than user_max_inactive_time_sec.
NewUserOf(ct) ==
  [ct |-> ct, erased |-> FALSE, sock |-> "none", away |-> "no", sent |-> FALSE,
   stale |-> FALSE]

\* open: the socket is connected.  login: what process_command is doing.
\* user: irc_session::__U.
NewConn == [open |-> FALSE, login |-> "no", user |-> NoSession]

NoRequest == [at |-> "idle", by |-> NoSession, sta |-> {}]
Resting == [todo |-> <<>>, next |-> "rest", kinds |-> {}]

SessionsInit ==
  /\ s_local = [k \in Kind |-> NoSession]
  /\ s_user = [s \in Session |-> NewUserOf("www")]
  /\ s_in = {} /\ s_status = "offline"
  /\ s_request = [r \in Request |-> NoRequest]
  /\ s_posted = {}
  /\ s_conn = [c \in Conn |-> NewConn]
  /\ s_walk = Resting
  /\ s_orphan = FALSE
-----------------------------------------------------------------------------
(* chat_users_container.                                                     *)

\* insert$: map::insert keeps what is there.
insert(l, k, s) == [l EXCEPT ![k] = IF @ = NoSession THEN s ELSE @]
erase(l, k) == [l EXCEPT ![k] = NoSession]
Connected(s) == s_user[s].sock = "up"

\* The chat_user objects some pointer leads to.
Used ==
  {s_local[k] : k \in Kind} \cup {s_request[r].by : r \in Request} \cup s_posted
  \cup {s_conn[c].user : c \in Conn} \cup Range(s_walk.todo)

\* A new object takes the first place nobody points to.
Unused == {s \in Session \ Used : \A q \in Session \ Used : s <= q}

\* ~chat_user: the last pointer is gone.
destroy(s) ==
  /\ s \notin Used
  /\ s_user[s] # NewUserOf("www")
  /\ s_user' = [s_user EXCEPT ![s] = NewUserOf("www")]
  /\ UNCHANGED <<s_local, s_in, s_status, s_request, s_posted, s_conn, s_walk, s_orphan>>
-----------------------------------------------------------------------------
(* Web requests: app_connection::process_web with a valid PHP session.       *)

process_web(r) ==
  /\ s_request[r].at = "idle"
  /\ IF s_local["www"] = NoSession
     THEN /\ s_request' = [s_request EXCEPT ![r].at = "create"]
          /\ UNCHANGED s_user
     ELSE /\ s_request' = [s_request EXCEPT ![r].at = "serve", ![r].by = s_local["www"]]
          /\ s_user' = [s_user EXCEPT ![s_local["www"]].stale = FALSE]
  /\ UNCHANGED <<s_local, s_in, s_status, s_posted, s_conn, s_walk, s_orphan>>

\* create_reg_user: two requests may both have found no session.
create_reg_user(r) ==
  /\ s_request[r].at = "create"
  /\ \E s \in Unused :
       /\ s_user' = [s_user EXCEPT ![s] = NewUserOf("www")]
       /\ s_local' = insert(s_local, "www", s)
       /\ s_request' = [s_request EXCEPT ![r].at = "serve", ![r].by = s]
       /\ s_orphan' = (s_orphan /\ s_local["www"] # NoSession)
  /\ UNCHANGED <<s_in, s_status, s_posted, s_conn, s_walk>>

Doing(r, step) == s_request[r].at = step
Next_is(r, step) == s_request' = [s_request EXCEPT ![r].at = step]

\* url_chat_messages2: the endless answer of the chat window.  It reads the
\* user_state, works on its copy, and stores all of it.
read_user_state(r) ==
  /\ Doing(r, "serve")
  /\ s_request' = [s_request EXCEPT ![r].at = "fresh", ![r].sta = s_in]
  /\ UNCHANGED <<s_local, s_user, s_in, s_status, s_posted, s_conn, s_walk, s_orphan>>

reset_offline_time(r) ==
  /\ Doing(r, "fresh")
  /\ s_user' = [s_user EXCEPT ![s_request[r].by].away = "no"]
  /\ Next_is(r, "store")
  /\ UNCHANGED <<s_local, s_in, s_status, s_posted, s_conn, s_walk, s_orphan>>

set_user_state(r) ==
  /\ Doing(r, "store")
  /\ s_in' = s_request[r].sta \cup {"www"}
  /\ s_status' = "online"
  /\ Next_is(r, "push")
  /\ UNCHANGED <<s_local, s_user, s_posted, s_conn, s_walk, s_orphan>>

push_events(r) ==
  /\ Doing(r, "push")
  /\ s_posted' = s_posted \cup {s_request[r].by}
  /\ Next_is(r, "answer")
  /\ UNCHANGED <<s_local, s_user, s_in, s_status, s_conn, s_walk, s_orphan>>

\* persistent_socket is the socket of the request, which may have gone by now.
keep_socket(r) ==
  /\ Doing(r, "answer")
  /\ \E sock \in {"up", "down"} :
       s_user' = [s_user EXCEPT ![s_request[r].by].sock = sock, ![s_request[r].by].away = "no"]
  /\ s_request' = [s_request EXCEPT ![r] = NoRequest]
  /\ UNCHANGED <<s_local, s_in, s_status, s_posted, s_conn, s_walk, s_orphan>>

\* A query throws, before the state is stored.
page_fails(r) ==
  /\ s_request[r].at \in {"serve", "fresh", "store"}
  /\ s_request' = [s_request EXCEPT ![r] = NoRequest]
  /\ UNCHANGED <<s_local, s_user, s_in, s_status, s_posted, s_conn, s_walk, s_orphan>>

url_chat_messages2(r) ==
  \/ read_user_state(r) \/ reset_offline_time(r) \/ set_user_state(r)
  \/ push_events(r) \/ keep_socket(r) \/ page_fails(r)

\* Any other page; chat_exit.tse leaves the channel.
other_page(r, exits) ==
  /\ Doing(r, "serve")
  /\ s_in' = IF exits THEN s_in \ {"www"} ELSE s_in
  /\ s_request' = [s_request EXCEPT ![r] = NoRequest]
  /\ UNCHANGED <<s_local, s_user, s_status, s_posted, s_conn, s_walk, s_orphan>>

\* The chat thread's part of opening the chat window; www_inchat may be set
\* here before there is a socket.
on_CHAT_MESSAGES2(s) ==
  /\ s \in s_posted
  /\ s_user' = [s_user EXCEPT ![s].sent = FALSE, ![s].away = "no",
                              ![s].sock = IF @ = "none" THEN "down" ELSE @]
  /\ s_posted' = s_posted \ {s}
  /\ UNCHANGED <<s_local, s_in, s_status, s_request, s_conn, s_walk, s_orphan>>

socket_lost(s) ==
  /\ s_user[s].ct = "www" /\ s \in Used /\ Connected(s)
  /\ s_user' = [s_user EXCEPT ![s].sock = "down"]
  /\ UNCHANGED <<s_local, s_in, s_status, s_request, s_posted, s_conn, s_walk, s_orphan>>

\* Time: a session out of touch passes its timeouts one after the other, and an
\* open window touches nothing.  A request is shorter than the time after which
\* a session is dropped, so those that were running at its last access are over.
time_passes(s) ==
  /\ s_user[s].ct = "www" /\ s \in Used
  /\ \/ /\ s_user[s].away = "short"
        /\ s_user' = [s_user EXCEPT ![s].away = "long"]
     \/ /\ s_user[s].away # "short" /\ ~ s_user[s].stale
        /\ \A r \in Request : s_request[r] = NoRequest
        /\ s_user' = [s_user EXCEPT ![s].stale = TRUE]
  /\ UNCHANGED <<s_local, s_in, s_status, s_request, s_posted, s_conn, s_walk, s_orphan>>
-----------------------------------------------------------------------------
(* IRC.                                                                      *)

\* NICK, USER and PASS have been accepted: whoever is logged in is
\* disconnected first.
irc_login(c) ==
  LET old == s_local["irc"] IN
  /\ s_conn[c].login = "no"
  /\ s_conn' = [d \in Conn |->
       IF d = c THEN [NewConn EXCEPT !.open = TRUE, !.login = "checked"]
       ELSE IF old # NoSession /\ s_conn[d].user = old /\ Connected(old)
            THEN [s_conn[d] EXCEPT !.open = FALSE]
            ELSE s_conn[d]]
  /\ s_user' = IF old = NoSession THEN s_user ELSE [s_user EXCEPT ![old].sock = "down"]
  /\ UNCHANGED <<s_local, s_in, s_status, s_request, s_posted, s_walk, s_orphan>>

irc_login_ends(c) ==
  /\ s_conn[c].login = "checked"
  /\ \E s \in Unused :
       /\ s_user' = [s_user EXCEPT ![s] = [NewUserOf("irc") EXCEPT !.sock = "up"]]
       /\ s_conn' = [s_conn EXCEPT ![c].user = s, ![c].login = "done"]
       /\ s_local' = insert(s_local, "irc", s)
  /\ UNCHANGED <<s_in, s_status, s_request, s_posted, s_walk, s_orphan>>

irc_JOIN(c) ==
  /\ s_conn[c].user # NoSession /\ s_conn[c].open
  /\ s_in' = s_in \cup {"irc"}
  /\ UNCHANGED <<s_local, s_user, s_status, s_request, s_posted, s_conn, s_walk, s_orphan>>

\* Mutant: the session goes, the channel stays.
Left_not == s_in

\* us_PART_CHANNEL(T_IRC, uid)
Left == s_in \ {"irc"}

\* irc_sessions.erase: the user parts and leaves local_users, whichever session
\* is there.
irc_session_erase(c) ==
  /\ IF s_conn[c].user # NoSession
     THEN s_in' = Left /\ s_local' = erase(s_local, "irc")
     ELSE UNCHANGED <<s_in, s_local>>
  /\ s_conn' = [s_conn EXCEPT ![c].user = NoSession, ![c].login = "done", ![c].open = FALSE]

irc_QUIT(c) ==
  /\ s_conn[c].user # NoSession /\ s_conn[c].open
  /\ s_user' = [s_user EXCEPT ![s_conn[c].user].erased = TRUE, ![s_conn[c].user].sock = "down"]
  /\ irc_session_erase(c)
  /\ UNCHANGED <<s_status, s_request, s_posted, s_walk, s_orphan>>

connection_lost(c) ==
  /\ s_conn[c].open
  /\ s_conn' = [s_conn EXCEPT ![c].open = FALSE]
  /\ s_user' = [s \in Session |->
       IF s = s_conn[c].user /\ Connected(s) THEN [s_user[s] EXCEPT !.sock = "down"] ELSE s_user[s]]
  /\ UNCHANGED <<s_local, s_in, s_status, s_request, s_posted, s_walk, s_orphan>>

\* __irc_sessions::iterate, and on_delete for a lost connection.
irc_iterate(c) ==
  /\ s_conn[c].user # NoSession
  /\ ~ s_conn[c].open \/ s_user[s_conn[c].user].erased
  /\ irc_session_erase(c)
  /\ UNCHANGED <<s_user, s_status, s_request, s_posted, s_walk, s_orphan>>
-----------------------------------------------------------------------------
(* Kicks and killed sessions.                                                *)

\* on_KICK_USER in the chat thread: erase$ for both kinds.
kick ==
  /\ s_local # [k \in Kind |-> NoSession]
  /\ s_local' = [k \in Kind |-> NoSession]
  /\ s_in' = {} /\ s_status' = "offline"
  /\ UNCHANGED <<s_user, s_request, s_posted, s_conn, s_walk, s_orphan>>

\* "killsession" of the administration page: user_destroy for every session.
killsession ==
  /\ \E k \in Kind : s_local[k] # NoSession
  /\ s_user' = [s \in Session |->
       IF s \in {s_local[k] : k \in Kind}
       THEN [s_user[s] EXCEPT !.erased = TRUE, !.sock = IF @ = "none" THEN @ ELSE "down"] ELSE s_user[s]]
  /\ UNCHANGED <<s_local, s_in, s_status, s_request, s_posted, s_conn, s_walk, s_orphan>>
-----------------------------------------------------------------------------
(* local_users_iterate.                                                      *)

At(step) == s_walk.next = step /\ s_walk.todo # <<>>
Visited == Head(s_walk.todo)
Then(step) == s_walk' = [s_walk EXCEPT !.next = step]

\* values$
start_walk ==
  /\ s_walk.next = "rest"
  /\ s_walk' = [todo |-> SetToSeq({s_local[k] : k \in Kind} \ {NoSession}),
                next |-> "status", kinds |-> {}]
  /\ UNCHANGED <<s_local, s_user, s_in, s_status, s_request, s_posted, s_conn, s_orphan>>

\* Mutant: only who was marked offline is shown online again.
Back_sent(s) == Connected(s) /\ s_status = "offline" /\ s_user[s].sent

Back(s) == Connected(s) /\ s_status = "offline"

\* www_local_user_handle_offline_status: the socket is looked at and the session
\* is marked first, and the status is set after that.
handle_offline_status ==
  LET s == Visited
      u == s_user[s]
      active == Connected(s)
      away == IF active THEN "no" ELSE u.away
      cond == ~ u.sent /\ away = "long" /\ u.sock = "down" IN
  /\ At("status")
  /\ s_user' = [s_user EXCEPT
       ![s].away = IF ~ active /\ away = "no" THEN "short" ELSE away,
       ![s].sent = @ \/ cond,
       ![s].stale = @ /\ ~ cond]
  /\ Then(IF cond THEN "set_offline" ELSE IF Back(s) THEN "set_online" ELSE "inactive")
  /\ UNCHANGED <<s_local, s_in, s_status, s_request, s_posted, s_conn, s_orphan>>

set_status ==
  /\ \/ At("set_offline") /\ s_status' = "offline"
     \/ At("set_online") /\ s_status' = "online"
  /\ Then("inactive")
  /\ UNCHANGED <<s_local, s_user, s_in, s_request, s_posted, s_conn, s_orphan>>

\* www_local_user_handle_max_inactive_time: the session is looked at, its user
\* is asked for in the database, which may fail and end the visit, and then it
\* is marked and the web entry goes, whatever has happened since.  (An IRC
\* session is never that old: without an answer to its PINGs it ends sooner.)
max_inactive_check ==
  LET s == Visited IN
  /\ At("inactive")
  /\ Then(IF s_user[s].stale /\ ~ Connected(s) THEN "query" ELSE "cleanup")
  /\ UNCHANGED <<s_local, s_user, s_in, s_status, s_request, s_posted, s_conn, s_orphan>>

NextVisit == s_walk' = [s_walk EXCEPT !.todo = Tail(@), !.next = "status"]

query_fails ==
  /\ At("query")
  /\ NextVisit
  /\ UNCHANGED <<s_local, s_user, s_in, s_status, s_request, s_posted, s_conn, s_orphan>>

query_answers ==
  /\ At("query")
  /\ Then("mark")
  /\ UNCHANGED <<s_local, s_user, s_in, s_status, s_request, s_posted, s_conn, s_orphan>>

max_inactive_mark ==
  /\ At("mark")
  /\ s_user' = [s_user EXCEPT ![Visited].erased = TRUE]
  /\ Then("erase")
  /\ UNCHANGED <<s_local, s_in, s_status, s_request, s_posted, s_conn, s_orphan>>

max_inactive_erase ==
  LET s == s_local["www"] IN
  /\ At("erase")
  /\ s_local' = erase(s_local, "www")
  /\ s_orphan' = (s_orphan \/ (s # NoSession /\ ~ s_user[s].stale))
  /\ Then("cleanup")
  /\ UNCHANGED <<s_user, s_in, s_status, s_request, s_posted, s_conn>>

handle_max_inactive_time ==
  \/ max_inactive_check \/ query_fails \/ query_answers
  \/ max_inactive_mark \/ max_inactive_erase

\* Mutant: only sessions that time out are taken out of the channel.
Cleaned_timeout(s) == s_user[s].away = "long" /\ ~ Connected(s)

Cleaned(s) == s_user[s].erased \/ (s_user[s].away = "long" /\ ~ Connected(s))

\* www_local_user_check_for_channel_cleanup: what is read, and then the parting,
\* which may meet a page that has come in between, and the touch.
cleanup_check ==
  /\ At("cleanup")
  /\ IF s_user[Visited].ct = "www" /\ s_in # {} /\ Cleaned(Visited)
     THEN Then("part") ELSE NextVisit
  /\ UNCHANGED <<s_local, s_user, s_in, s_status, s_request, s_posted, s_conn, s_orphan>>

cleanup_part ==
  /\ At("part")
  /\ s_in' = s_in \ {"www"}
  /\ Then("touch")
  /\ UNCHANGED <<s_local, s_user, s_status, s_request, s_posted, s_conn, s_orphan>>

cleanup_touch ==
  /\ At("touch")
  /\ s_user' = [s_user EXCEPT ![Visited].stale = FALSE]
  /\ NextVisit
  /\ UNCHANGED <<s_local, s_in, s_status, s_request, s_posted, s_conn, s_orphan>>

check_for_channel_cleanup == cleanup_check \/ cleanup_part \/ cleanup_touch

\* __clean$: the keys, and then each of them in turn.
clean_keys ==
  /\ s_walk.next = "status" /\ s_walk.todo = <<>>
  /\ s_walk' = [s_walk EXCEPT !.next = "clean",
                              !.kinds = {k \in Kind : s_local[k] # NoSession}]
  /\ UNCHANGED <<s_local, s_user, s_in, s_status, s_request, s_posted, s_conn, s_orphan>>

\* Mutant: only after the user was shown offline.
NeedClean_offline(s) == s_user[s].erased /\ s_user[s].sent

NeedClean(s) == s_user[s].erased

clean_key(k) ==
  /\ s_walk.next = "clean" /\ k \in s_walk.kinds
  /\ s_local' = IF s_local[k] # NoSession /\ NeedClean(s_local[k])
                THEN erase(s_local, k) ELSE s_local
  /\ s_walk' = [s_walk EXCEPT !.kinds = @ \ {k}]
  /\ UNCHANGED <<s_user, s_in, s_status, s_request, s_posted, s_conn, s_orphan>>

end_walk ==
  /\ s_walk.next = "clean" /\ s_walk.kinds = {}
  /\ s_walk' = Resting
  /\ UNCHANGED <<s_local, s_user, s_in, s_status, s_request, s_posted, s_conn, s_orphan>>

users_handler ==
  \/ start_walk \/ handle_offline_status \/ set_status \/ handle_max_inactive_time
  \/ check_for_channel_cleanup \/ clean_keys \/ end_walk
  \/ \E k \in Kind : clean_key(k)

Page(r) == process_web(r) \/ create_reg_user(r) \/ \E exits \in BOOLEAN : other_page(r, exits)
Window(r) == Page(r) \/ url_chat_messages2(r)

Client ==
  \E s \in Session : on_CHAT_MESSAGES2(s) \/ socket_lost(s) \/ time_passes(s)

IrcNext ==
  \E c \in Conn :
    irc_login(c) \/ irc_login_ends(c) \/ irc_JOIN(c) \/ irc_QUIT(c)
    \/ connection_lost(c) \/ irc_iterate(c)

Forced == kick \/ killsession

\* The loops of users_handler and of the chat thread go on, time passes, and a
\* query that is repeated does not fail for ever.
SessionsFairness ==
  /\ SF_sessionVars(query_answers)
  /\ WF_sessionVars(users_handler)
  /\ WF_sessionVars(\E c \in Conn : irc_iterate(c))
  /\ WF_sessionVars(\E s \in Session : on_CHAT_MESSAGES2(s))
  /\ WF_sessionVars(\E s \in Session : time_passes(s))
-----------------------------------------------------------------------------
Held == {s_local[k] : k \in Kind} \ {NoSession}
Watching == s_local["www"] # NoSession /\ Connected(s_local["www"])
Asked == \E r \in Request : s_request[r] # NoRequest

\* A session that was killed, timed out or has quit does not stay in
\* local_users.
ErasedLeave ==
  []<>(\A s \in Held : ~ s_user[s].erased)

\* Whose connection is gone leaves the channel in the end.
IrcGoneLeave ==
  []<>("irc" \notin s_in \/ \E c \in Conn : s_conn[c].open)
=============================================================================
