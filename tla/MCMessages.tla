------------------------------ MODULE MCMessages -----------------------------
(* Two loads on the history and the announcements: one user who comes, goes,  *)
(* hides and is kicked; and two users, on pages, who write to each other.     *)
EXTENDS Messages

CONSTANTS u1, u2

VARIABLE mload

MCIgnores == {<<u1, u2>>}
MCInvisibility == u1 :> 1 @@ u2 :> 0
MCKlapped == {<<u2, 2>>}
MCFiltered == 1 :> 2 @@ 2 :> 0

MessagesLoadInit ==
  \/ mload = "announce" /\ MessagesInit(u1 :> 0 @@ u2 :> 0)
  \/ mload = "write" /\ \E c \in Channel : MessagesInit(u1 :> 1 @@ u2 :> c)

\* One user comes and goes.
Comings(t) ==
  \/ \E c \in Channel, vis \in BOOLEAN : url_chat_messages2(t, u1, c, vis)
  \/ \E c \in Channel : irc_cmd_JOIN(t, u1, c)
  \/ part(t, u1, "www", {})
  \/ \E c \in Channel : part(t, u1, "irc", {c})
  \/ \E vis \in BOOLEAN : us_SET_STATUS(t, u1, vis)
  \/ kick_user(t, u1)
  \/ expire(t, u1)
  \/ u1 \notin m.sessions /\ create_reg_user(t, u1)

\* Two users write; the one who may be invisible is ignored by nobody.
Writings(t) ==
  \E u \in Uid : \E z \in Uid \ {u} :
    \/ \E c \in Channel : url_chat_messages2(t, u, c, TRUE)
    \/ \E text \in {"fit", "foul", "unfit"} :
         url_chat_sendmessage(t, u, "nobody", "STDTO", text)
    \/ \E kind \in {"MAKEIT", "SYS"} : url_chat_sendmessage(t, u, "nobody", kind, "fit")
    \/ \E kind \in {"PRIV", "SYS"} : url_chat_sendmessage(t, u, z, kind, "fit")
    \/ \E to \in {"nobody", z} : irc_cmd_PRIVMSG(t, u, to, 2)
    \/ notice(t, u)
    \/ url_invite(t, u, z, TRUE)
    \/ url_set_topic(t, u)
    \/ u \in Admins /\ us_SET_STATUS(t, u, FALSE)
    \/ u \in Admins /\ channel_mode(t, u, 1)
    \/ channel_voice(t, u, z, 1)

\* Two requests at any moment; when these are done, a user opens a page.
AtRest ==
  /\ \A t \in RequestThread : m_todo[t] = << >>
  /\ m_events = << >> /\ m.external = {} /\ ChatAt("look")

MessagesLoadNext ==
  /\ UNCHANGED mload
  /\ \/ ChatSteps
     \/ \E t \in RequestThread : RequestSteps(t)
     \/ \E t \in RequestThread :
          \/ mload = "announce" /\ u1 \notin m.loose /\ Comings(t)
          \/ mload = "write" /\ m_requests < 2 /\ Writings(t)
          \/ mload = "write" /\ m_requests = 2 /\ AtRest
             /\ \E u \in Uid \ Admins, c \in Channel : url_chat_messages2(t, u, c, TRUE)

MessagesLoadSpec == MessagesLoadInit /\ [][MessagesLoadNext]_<<messagesVars, mload>>

\* The threads are interchangeable.
ThreadSymmetry == Permutations(RequestThread)
=============================================================================
