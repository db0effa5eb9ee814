---------------------------- MODULE ChatServerProps ----------------------------
(* The properties of ChatServer that its runs check. *)
EXTENDS ChatServer

\* What the queues may hold.
ChatEvent ==
  [type : {"JOIN", "JOIN_CHANNEL"}, uid : Uid, ct : CT, ch : Channel, status : Status]
  \cup [type : {"PART_CHANNEL"}, uid : Uid, ct : CT, chans : SUBSET Channel]
  \cup [type : {"SET_NICK", "KICK_USER", "FLUSH_USER_DATA"}, uid : Uid]
  \cup [type : {"SET_STATUS"}, uid : Uid, status : Status]
  \cup [type : {"CHANGE_CONTACT_MODE", "UPDATE_DATA"}, uid : Uid,
        field : {"mode"}, mode : Modes, on : BOOLEAN]
  \cup [type : {"UPDATE_DATA"}, uid : Uid, field : {"status"}, status : Status]
  \cup [type : {"UPDATE_CONTACT_LIST"}, uid : Uid, ct : CT]
  \cup [type : {"CHAT_MESSAGES2"}, uid : Uid, ch : Channel]

RequestStep ==
  [op : {"push", "update"}, event : ChatEvent]
  \cup [op : {"set_user_state"}, uid : Uid, state : GState]
  \cup [op : {"part_channels"}, uid : Uid, ct : CT, chans : SUBSET Channel]
  \cup [op : {"set_status"}, uid : Uid, status : Status]
  \cup [op : {"set_nick", "cleanup"}, uid : Uid]
  \cup [op : {"insert$", "erase$"}, key : Key]

UsersOK ==
  /\ loaded \subseteq Uid
  /\ users \in [Uid -> UserObj]
  /\ \A u \in Uid \ loaded : users[u] = NoUser
  /\ join_time \subseteq Uid
  /\ trash \subseteq Uid
  /\ Lost \subseteq Uid

ClientsOK ==
  /\ local_clients \in [Key -> Client]
  /\ localIn \in [Channel -> [Key -> Entry]]
  /\ usersIn \in [Channel -> SUBSET Uid]
  /\ dirty \in [Channel -> [Uid -> Status \cup {"clean", "live"}]]
  /\ marked \in BOOLEAN

QueuesOK ==
  /\ chat_events \in Seq(ChatEvent)
  /\ batch \in 0..Len(chat_events)
  /\ updates \in Seq(ChatEvent)
  /\ pend \in [Thread -> Seq(RequestStep)]
  /\ requests \in Nat

SharedOK ==
  /\ gstate \in [Uid -> GState]
  /\ local_users \subseteq Key
  /\ profile \in [Uid -> SUBSET Modes]
  /\ last_status \in [Uid -> Status]

\* Every variable stays in its type, and an unloaded user has no object.
TypeOK == UsersOK /\ ClientsOK /\ QueuesOK /\ SharedOK

\* Nothing is in flight: no event, no request half done, no list to refresh.
Settled ==
  /\ chat_events = << >>
  /\ updates = << >>
  /\ \A t \in Thread : pend[t] = << >>
  /\ ~ marked

Member(u, c) == u \in loaded /\ users[u].us[c] # {}

\* A web client is in at most one channel, in the thread's objects and in
\* every copy of them in global_state: the page shows one channel, and
\* on_CHAT_MESSAGES2 gives up when it finds another number.
WwwExclusive ==
  \A u \in Uid : OneWwwChannel(users[u].us) /\ OneWwwChannel(gstate[u].us)

\* Who waits in trash is in no channel: the 3-hour timer never unloads a user
\* who has come back.
TrashIsIdle == \A u \in trash : users[u].us = NoChannels

\* A user in a channel has a join time: its online time is being counted.
JoinTimeCovers == \A u \in loaded : InSomeChannel(users[u].us) => u \in join_time

\* When everything has settled, global_state claims no membership the chat
\* thread does not know of, whatever the direct writes and the whole-copy
\* writes of the web pages raced with.
GlobalNotAhead ==
  Settled => \A u \in Uid, c \in Channel : gstate[u].us[c] \subseteq users[u].us[c]

\* Who the client k hears is where its user is through it, and the other way
\* round.
IndexExact(k) ==
  \A c \in Channel :
    localIn[c][k].in # "out" <=> k[1] \in loaded /\ k[2] \in users[k[1]].us[c]

\* A client that receives a channel's messages is a member of it through that
\* kind of client, unless a login flushed the user under its feet.  (Not the
\* other way round after a kick: see the finding FatalUnreachable.)
KickedHearNothing ==
  \A k \in Key : k[1] \notin flushed =>
    \A c \in Channel :
      localIn[c][k].in # "out" => k[1] \in loaded /\ k[2] \in users[k[1]].us[c]

\* Online time is counted for the users in a channel and for no one else.
JoinTimeExact(u) == u \in join_time <=> u \in loaded /\ InSomeChannel(users[u].us)

\* The counts broadcast to the clients are those of the members.
CountsExact(u) == \A c \in Channel : u \in usersIn[c] <=> Member(u, c)

\* Of users who were not kicked or flushed, who receives a channel's messages is a
\* member, every member's client receives them, online time is counted for
\* members only, and they are counted where they are.
CalmExact ==
  \A u \in Uid \ (kicked \cup flushed) :
    /\ \A ct \in CT : IndexExact(<<u, ct>>)
    /\ JoinTimeExact(u)
    /\ CountsExact(u)

\* The instance a client's entry in a channel's index stands for.
ViewerOf(c, k) ==
  IF localIn[c][k].in = "same" THEN local_clients[k].usr ELSE localIn[c][k].usr

ShownTo(c, k) ==
  IF localIn[c][k].in = "same" THEN local_clients[k].vis[c] ELSE localIn[c][k].vis

\* When everything has settled, each client's list of a channel shows exactly
\* the members its user may see, with their present status.  Users in drift
\* are those whose object the thread changed or replaced without marking
\* their lists: a late UPDATE_DATA, a refresh from an orphan, a flush.
ListsAccurate ==
  Settled =>
    \A c \in Channel, k \in Key :
      (localIn[c][k].in # "out" /\ ViewerOf(c, k).live /\ k[1] \notin drift) =>
        \A z \in Uid \ drift :
          ShownTo(c, k)[z] =
            IF Member(z, c) /\ CanSee(k[1], users[k[1]].modes, z, users[z].status)
            THEN users[z].status ELSE "unseen"

MoveStep ==
  \A u \in Uid, c \in Channel :
    /\ \/ users'[u].us[c] \subseteq users[u].us[c]
       \/ /\ Event("JOIN") \/ Event("JOIN_CHANNEL")
          /\ E.uid = u
          /\ E.ch = c
    /\ \/ users[u].us[c] \subseteq users'[u].us[c]
       \/ /\ batch > 0
          /\ E.uid = u

\* A membership appears only when the thread handles a JOIN of that user to
\* that channel, and disappears only when it handles an event of that user: no
\* timer, refresh, or event of someone else moves anyone.
MembershipMoves == [][MoveStep]_vars

\* user.cpp:2449 calls it FATAL when normalize_user_channels must put a client
\* in a channel's index and the client has no instance.  JOIN_CHANNEL is the
\* event that gets there.
FatalUnreachable ==
  Event("JOIN_CHANNEL") =>
    LET k == <<E.uid, E.ct>>
        new == Joined(get_user_p(E.uid), E.ct, E.ch, E.status) IN
    \A c \in Channel : ~ NoInstance(c, k, new, local_clients)

\* A client whose list shows someone who has left the channel is eventually
\* told, unless that user comes back.
LeaversDisappear ==
  \A c \in Channel, k \in Key, z \in Uid :
    []<>(ShownTo(c, k)[z] = "unseen" \/ Member(z, c))
=============================================================================
