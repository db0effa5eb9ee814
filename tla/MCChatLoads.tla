----------------------------- MODULE MCChatLoads -----------------------------
(* Three loads of one user's requests on the chat thread, checked side by     *)
(* side: everything, from two threads; kicks, a request after the other, but  *)
(* more of them; and neither kicks nor logins, for what these are known to    *)
(* leave behind.  And, apart from them, what other programs ask of the chat   *)
(* server, and the requests the web server reads.                             *)
EXTENDS MCChatServer, ExtEvents, Web

VARIABLE load

May(kind) ==
  \/ load = "everything"
  \/ load = "kicks" /\ kind \in {"join", "part", "kick"}
  \/ load = "calm" /\ kind \in {"join", "part", "expire"}

LoadRequest(t, u) ==
  /\ load # "kicks" => requests < 3
  /\ load = "kicks" => \A x \in Thread : pend[x] = << >>
  /\ load = "kicks" /\ requests = 3 => chat_events = << >>
  /\ \/ \E ch \in Channel : May("join") /\ WwwJoin(t, u, ch)
     \/ \E ch \in Channel : May("join") /\ IrcJoin(t, u, ch)
     \/ May("part") /\ WwwExit(t, u)
     \/ \E ch \in Channel : May("part") /\ IrcPart(t, u, ch)
     \/ May("expire") /\ IrcDisconnect(t, u)
     \/ May("expire") /\ WwwExpire(t, u)
     \/ May("kick") /\ Kick(t, u)
     \/ May("nick") /\ ChangeNick(t, u)
     \/ \E ct \in CT : May("login") /\ Login(t, u, ct)

LoadsNext ==
  /\ load \notin {"events", "requests"}
  /\ \/ ChatLoop /\ UNCHANGED requestVars
     \/ \E t \in Thread, u \in Uid : LoadRequest(t, u)
     \/ \E t \in Thread : Step(t)
     \/ UpdateProcessor
  /\ UNCHANGED <<load, extVars, webVars>>

EventsLoad == load = "events" /\ ExtEventsNext /\ UNCHANGED <<vars, load, webVars>>
RequestsLoad == load = "requests" /\ WebNext /\ UNCHANGED <<vars, load, extVars>>

\* Requests with and without a body, whole and malformed.
MCRequests == {
  <<"GET", "eol", "host", "eol", "eol">>,
  <<"file", "eol", "host", "eol", "eol">>,
  <<"POST", "eol", "length", "eol", "host", "eol", "eol", "b1", "b2", "eol">>,
  <<"POST", "eol", "multipart", "eol", "eol", "boundary", "b1", "boundary", "b2", "end", "eol">>,
  <<"POST", "eol", "multipart", "eol", "eol", "boundary", "text", "end", "eol">>,
  <<"POST", "eol", "host", "eol", "eol">>,
  <<"HEAD", "eol", "host", "eol", "eol">>,
  <<"GET", "eol", "host", "eol", "text", "eol", "eol">>,
  <<"text", "eol", "eol">>, <<"dots", "eol", "eol">> }
AnyRequest == CHOOSE r \in MCRequests : TRUE

LoadsInit ==
  /\ Init /\ ExtEventsInit /\ WebInit
  /\ load \in {"everything", "kicks", "calm", "events", "requests"}
  /\ load # "requests" => w_sent = AnyRequest
LoadsSpec ==
  LoadsInit /\ [][LoadsNext \/ EventsLoad \/ RequestsLoad]_<<vars, load, extVars, webVars>>
=============================================================================
