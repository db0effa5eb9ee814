------------------------------ MODULE MCSessions -----------------------------
(* A web client who opens the chat window, one who asks for another page at   *)
(* the same time, an IRC client, and a web client with an administrator who   *)
(* ends sessions; the parts that do not run are left out.                    *)
EXTENDS Sessions

CONSTANT Windows   \* the requests that open the chat window (bound)
VARIABLE sload

SessionsLoadInit == SessionsInit /\ sload \in {"web", "pair", "irc", "forced"}

\* An object nobody points to is destroyed at once.
Settled == \A s \in Session : s \in Used \/ s_user[s] = NewUserOf("www")

\* With the other page: the window is the first one, or runs already.
FirstWindow(r) == s_request[r] # NoRequest \/ s_local["www"] = NoSession

\* With the administrator: before the session times out.
InTime == \A s \in Session : s_user'[s].away # "long" /\ ~ s_user'[s].stale

SessionsLoadNext ==
  /\ UNCHANGED sload
  /\ \/ \E s \in Session : destroy(s)
     \/ /\ Settled
        /\ \/ sload = "web" /\ (Client \/ \E r \in Windows : Window(r))
           \/ sload = "pair" /\ (Client \/ \E r \in Windows : FirstWindow(r) /\ Window(r))
           \/ sload = "pair" /\ \E r \in Request \ Windows : Page(r)
           \/ sload = "irc" /\ IrcNext
           \/ sload = "forced" /\ (Client \/ \E r \in Windows : Window(r)) /\ InTime
           \/ sload \in {"irc", "forced"} /\ Forced
           \/ users_handler

SessionsLoadSpec == SessionsLoadInit /\ [][SessionsLoadNext]_<<sessionVars, sload>> /\ SessionsFairness

\* A page that is closed, or whose phone is off, leaves the channel: nobody has
\* asked for it any more (cleanup, offline_status, max_inactive).
GoneLeave ==
  []<>(sload \in {"web", "pair"} => "www" \notin s_in \/ Watching \/ Asked \/ s_orphan)

\* Who comes back before being dropped is shown online again (rn,
\* url_chat_messages2).
WatchersOnline ==
  []<>(sload \in {"web", "pair"} => ~ Watching \/ s_status = "online")

\* A session follows its client: who is gone leaves the channel, a session that
\* was ended leaves local_users, and who watches is shown online.
SessionsFollow == WatchersOnline /\ GoneLeave /\ ErasedLeave /\ IrcGoneLeave
=============================================================================
