------------------------------- MODULE Sender -------------------------------
(***************************************************************************)
(* sender2 (core-web/tcp_sender.cpp): the one thread that writes the       *)
(* output of all connections.  Any thread appends output to the buffer of  *)
(* a c_socket and queues an event; the sender keeps ccc, the sockets with  *)
(* something to send by file descriptor, and polls them.                   *)
(*                                                                         *)
(* The difficulty is that descriptors are reused.  A connection is closed  *)
(* by whoever reads it, without a word to the sender, and the next accept  *)
(* gets the same number while ccc, the queue, or the poll results in hand  *)
(* still mean the old connection.                                          *)
(*                                                                         *)
(* Each access to a c_socket holds its lock, and ccc, todo and visit are   *)
(* the sender's own: each action is one locked section of one thread.      *)
(***************************************************************************)
EXTENDS Integers, Sequences, FiniteSets

CONSTANTS Sock,                    \* connections, one c_socket each
          Fd,                      \* file descriptors
          NoFd,                    \* -1: m__sock of a closed c_socket
          NoSock,
          Writer,                  \* threads that write output
          Cap,                     \* units the kernel buffers for a peer
          MaxUnits                 \* bound: units written to one connection

ASSUME SenderAssumption ==
  /\ NoFd \notin Fd
  /\ NoSock \notin Sock
  /\ Cap \in Nat \ {0}
  /\ MaxUnits \in Nat

VARIABLES owner,                   \* kernel: the connection behind each fd
          hung,                    \* kernel: connections closed by the peer
          unread,                  \* kernel: units the peer has not read
          sent,                    \* units the kernel took for each peer
          phase,                   \* how far the listener is with each one
          m__sock,                 \* c_socket::m__sock
          send_buf,                \* c_socket::send_buf
          held,                    \* c_sockets with a pointer outside sender
          pushing,                 \* write_data between its two halves
          events,                  \* sender2::events
          todo,                    \* handle_events: d
          ccc,                     \* sender_proc: ccc
          pc,                      \* sender_proc: where it is
          visit                    \* keys of ccc the walk has yet to visit

writing == <<pushing, send_buf>>
peers == <<hung, unread, sent>>
descriptors == <<owner, m__sock>>
vars == <<descriptors, peers, phase, writing, held, events, todo, ccc, pc,
          visit>>

Key == Fd \cup {NoFd}
Unit == Sock \X Nat
ADD_DATA(s) == [type |-> "ADD_DATA", S |-> s]
REMOVE_SOCK(f) == [type |-> "REMOVE_SOCK", fd |-> f]
Event == {ADD_DATA(s) : s \in Sock} \cup {REMOVE_SOCK(f) : f \in Fd}

TypeOK ==
  /\ owner \in [Fd -> Sock \cup {NoSock}]
  /\ hung \subseteq Sock
  /\ unread \in [Sock -> 0..Cap]
  /\ sent \in [Sock -> Seq(Unit)]
  /\ phase \in [Sock -> {"none", "accepted", "announced", "made"}]
  /\ m__sock \in [Sock -> Key]
  /\ send_buf \in [Sock -> Seq(Unit)]
  /\ held \subseteq Sock
  /\ pushing \in [Writer -> Sock \cup {NoSock}]
  /\ events \in Seq(Event)
  /\ todo \in Seq(Event)
  /\ DOMAIN ccc \subseteq Key
  /\ ccc \in [DOMAIN ccc -> Sock]
  /\ pc \in {"send", "cleanup", "handle"}
  /\ DOMAIN visit \subseteq Key
  /\ visit \in [DOMAIN visit -> {"look", "err", "out"}]

Init ==
  /\ owner = [f \in Fd |-> NoSock]
  /\ hung = {}
  /\ unread = [s \in Sock |-> 0]
  /\ sent = [s \in Sock |-> <<>>]
  /\ phase = [s \in Sock |-> "none"]
  /\ m__sock = [s \in Sock |-> NoFd]
  /\ send_buf = [s \in Sock |-> <<>>]
  /\ held = {}
  /\ pushing = [w \in Writer |-> NoSock]
  /\ events = <<>>
  /\ todo = <<>>
  /\ ccc = [k \in {} |-> NoSock]
  /\ pc = "send"
  /\ visit = [k \in {} |-> "look"]
-----------------------------------------------------------------------------
\* The event e waits in the queue or in the batch taken from it.
Pending(e) == \/ \E i \in DOMAIN todo : todo[i] = e
              \/ \E i \in DOMAIN events : events[i] = e

\* The c_sockets some counted pointer points to.
Referenced ==
  {s \in Sock : \/ s \in held
                \/ \E w \in Writer : pushing[w] = s
                \/ Pending(ADD_DATA(s))
                \/ \E k \in DOMAIN ccc : ccc[k] = s}

\* disconnect__sk of the sockets D, and of those whose last pointer this
\* step drops (~c_socket).
Close(D) ==
  LET shut == D \cup {s \in Sock : s \notin Referenced'} IN
  /\ m__sock' = [s \in Sock |-> IF s \in shut THEN NoFd ELSE m__sock[s]]
  /\ owner' = [f \in Fd |-> IF \E s \in shut : m__sock[s] = f THEN NoSock
                             ELSE owner[f]]

Erased(k) == [j \in DOMAIN ccc \ {k} |-> ccc[j]]

\* The walk over the sockets leaves k behind.
Passed(k) == [j \in DOMAIN visit \ {k} |-> visit[j]]
-----------------------------------------------------------------------------
(* The other threads.                                                      *)

\* accept: the kernel picks a free descriptor.
accept(s, f) ==
  /\ phase[s] = "none"
  /\ owner[f] = NoSock
  /\ owner' = [owner EXCEPT ![f] = s]
  /\ phase' = [phase EXCEPT ![s] = "accepted"]
  /\ UNCHANGED <<peers, m__sock, writing, held, events, todo, ccc, pc, visit>>

\* Mutant: it tells the sender the descriptor the c_socket does not have yet.
on_socket_create_early(s) ==
  /\ phase[s] = "accepted"
  /\ events' = Append(events, REMOVE_SOCK(m__sock[s]))
  /\ phase' = [phase EXCEPT ![s] = "announced"]
  /\ UNCHANGED <<descriptors, peers, writing, held, todo, ccc, pc, visit>>

\* Mutant: the listener says nothing to the sender.
on_socket_create_silent(s) ==
  /\ phase[s] = "accepted"
  /\ phase' = [phase EXCEPT ![s] = "announced"]
  /\ UNCHANGED <<descriptors, peers, writing, held, events, todo, ccc, pc,
                 visit>>

\* on_socket_create: the sender must forget what the descriptor meant before.
on_socket_create(s) ==
  /\ phase[s] = "accepted"
  /\ \E f \in Fd :
       /\ owner[f] = s
       /\ events' = Append(events, REMOVE_SOCK(f))
  /\ phase' = [phase EXCEPT ![s] = "announced"]
  /\ UNCHANGED <<descriptors, peers, writing, held, todo, ccc, pc, visit>>

\* new c_socket(ns, ...): from here other threads can write to it.
new_c_socket(s) ==
  /\ phase[s] = "announced"
  /\ \E f \in Fd :
       /\ owner[f] = s
       /\ m__sock' = [m__sock EXCEPT ![s] = f]
  /\ phase' = [phase EXCEPT ![s] = "made"]
  /\ held' = held \cup {s}
  /\ UNCHANGED <<owner, peers, writing, events, todo, ccc, pc, visit>>

\* disconnect(__S), or a reader that finds the connection broken.
disconnect(s) ==
  /\ s \in held
  /\ m__sock[s] # NoFd
  /\ UNCHANGED <<peers, phase, writing, held, events, todo, ccc, pc, visit>>
  /\ Close({s})

\* The last pointer outside the sender goes: the connection's handler ends.
release(s) ==
  /\ s \in held
  /\ held' = held \ {s}
  /\ UNCHANGED <<peers, phase, writing, events, todo, ccc, pc, visit>>
  /\ Close({})

\* write_data, under the lock of the socket: s->send_buf += buf.
write_data(w, s) ==
  /\ pushing[w] = NoSock
  /\ s \in held
  /\ Len(sent[s]) + Len(send_buf[s]) < MaxUnits
  /\ send_buf' = [send_buf EXCEPT ![s] =
                    Append(@, <<s, Len(sent[s]) + Len(@) + 1>>)]
  /\ pushing' = [pushing EXCEPT ![w] = s]
  /\ UNCHANGED <<descriptors, peers, phase, held, events, todo, ccc, pc, visit>>

\* write_data, its second half: the event.
push_ADD_DATA(w) ==
  /\ pushing[w] # NoSock
  /\ events' = Append(events, ADD_DATA(pushing[w]))
  /\ pushing' = [pushing EXCEPT ![w] = NoSock]
  /\ UNCHANGED <<descriptors, peers, phase, send_buf, held, todo, ccc, pc,
                 visit>>

peer_reads(s) ==
  /\ unread[s] > 0
  /\ unread' = [unread EXCEPT ![s] = @ - 1]
  /\ UNCHANGED <<descriptors, hung, sent, phase, writing, held, events, todo,
                 ccc, pc, visit>>

peer_hangs(s) ==
  /\ phase[s] # "none"
  /\ s \notin hung
  /\ hung' = hung \cup {s}
  /\ UNCHANGED <<descriptors, unread, sent, phase, writing, held, events, todo,
                 ccc, pc, visit>>
-----------------------------------------------------------------------------
(* sender_proc.                                                            *)

\* One time in 10000 the loop starts with cleanup_sockets.
cleanup_sockets ==
  /\ pc = "send"
  /\ DOMAIN visit = {}
  /\ pc' = "cleanup"
  /\ visit' = [k \in DOMAIN ccc |-> "look"]
  /\ UNCHANGED <<descriptors, peers, phase, writing, held, events, todo, ccc>>

\* cleanup_sockets, at one entry.
cleanup_socket(k) ==
  /\ pc = "cleanup"
  /\ k \in DOMAIN visit
  /\ visit' = Passed(k)
  /\ UNCHANGED <<peers, phase, writing, held, events, todo, pc>>
  /\ \/ /\ k # NoFd
        /\ m__sock[ccc[k]] = k
        /\ UNCHANGED <<descriptors, ccc>>
     \/ /\ k # NoFd => m__sock[ccc[k]] # k
        /\ ccc' = Erased(k)
        /\ Close({ccc[k]})

\* handle_events: extract_all.
extract_all ==
  /\ pc \in {"send", "cleanup"}
  /\ DOMAIN visit = {}
  /\ todo' = events
  /\ events' = <<>>
  /\ pc' = "handle"
  /\ UNCHANGED <<descriptors, peers, phase, writing, held, ccc, visit>>

\* map::insert: an entry that is there stays.
Inserted(k, s) ==
  [j \in DOMAIN ccc \cup {k} |-> IF j \in DOMAIN ccc THEN ccc[j] ELSE s]

handle_ADD_DATA(s) ==
  /\ pc = "handle"
  /\ todo # <<>>
  /\ Head(todo) = ADD_DATA(s)
  /\ ccc' = Inserted(m__sock[s], s)
  /\ todo' = Tail(todo)
  /\ UNCHANGED <<peers, phase, writing, held, events, pc, visit>>
  /\ Close({})

handle_REMOVE_SOCK(f) ==
  /\ pc = "handle"
  /\ todo # <<>>
  /\ Head(todo) = REMOVE_SOCK(f)
  /\ ccc' = Erased(f)
  /\ todo' = Tail(todo)
  /\ UNCHANGED <<peers, phase, writing, held, events, pc, visit>>
  /\ Close({})

\* What poll says of a descriptor; one that is not open is POLLNVAL, a
\* negative one is ignored.
revents(k) ==
  IF k = NoFd THEN {}
  ELSE IF owner[k] = NoSock \/ owner[k] \in hung THEN {"err"}
  ELSE IF unread[owner[k]] < Cap THEN {"out"} ELSE {}

\* do_poll_and_send: poll.  full: all descriptors without an error are
\* treated as writable, if poll reports any at all.
do_poll(full) ==
  /\ pc = "handle"
  /\ todo = <<>>
  /\ LET ready == {k \in DOMAIN ccc : revents(k) # {}} IN
       visit' = [k \in IF full /\ ready # {} THEN DOMAIN ccc ELSE ready |->
                   IF "err" \in revents(k) THEN "err" ELSE "out"]
  /\ pc' = "send"
  /\ UNCHANGED <<descriptors, peers, phase, writing, held, events, todo, ccc>>

\* poll returns -1.
poll_fails ==
  /\ pc = "handle"
  /\ todo = <<>>
  /\ pc' = "send"
  /\ UNCHANGED <<descriptors, peers, phase, writing, held, events, todo, ccc,
                 visit>>

\* POLLERR, POLLHUP or POLLNVAL.
drop_socket(k) ==
  /\ pc = "send"
  /\ k \in DOMAIN visit
  /\ visit[k] = "err"
  /\ visit' = Passed(k)
  /\ ccc' = Erased(k)
  /\ UNCHANGED <<peers, phase, writing, held, events, todo, pc>>
  /\ Close({ccc[k]})

\* Mutant: send_to_socket trusts its map.
Ours_unchecked(k) == TRUE

\* s->get_socket_fd()==fd
Ours(k) == m__sock[ccc[k]] = k

\* send_to_socket, when the entry is of a connection closed since.
skip_closed(k) ==
  /\ pc = "send"
  /\ k \in DOMAIN visit
  /\ visit[k] = "out"
  /\ ~ Ours(k)
  /\ visit' = Passed(k)
  /\ ccc' = Erased(k)
  /\ UNCHANGED <<peers, phase, writing, held, events, todo, pc>>
  /\ Close({})

\* Mutant: what was not taken is sent again from the start.
Rest_all(s, n) == IF n = Len(send_buf[s]) THEN <<>> ELSE send_buf[s]

\* s->send_buf.substr(res, size-res)
Rest(s, n) == SubSeq(send_buf[s], n + 1, Len(send_buf[s]))

\* Mutant: the entry goes after any successful send.
Kept_never(k, n) == FALSE

\* The entry stays as long as something is left to send.
Kept(k, n) == n # Len(send_buf[ccc[k]])

\* send_to_socket: the connection behind the descriptor takes n units.
send_to_socket(k, n) ==
  /\ pc = "send"
  /\ k \in DOMAIN visit \ {NoFd}
  /\ visit[k] = "out"
  /\ Ours(k)
  /\ owner[k] # NoSock
  /\ LET s == ccc[k]
         t == owner[k] IN
       /\ t \notin hung
       /\ n \in 0..Len(send_buf[s])
       /\ n <= Cap - unread[t]
       /\ n = 0 => send_buf[s] = <<>>
       /\ sent' = [sent EXCEPT ![t] = @ \o SubSeq(send_buf[s], 1, n)]
       /\ unread' = [unread EXCEPT ![t] = @ + n]
       /\ send_buf' = [send_buf EXCEPT ![s] = Rest(s, n)]
  /\ visit' = Passed(k)
  /\ ccc' = IF Kept(k, n) THEN ccc ELSE Erased(k)
  /\ UNCHANGED <<hung, phase, pushing, held, events, todo, pc>>
  /\ Close({})

\* send returns -1 with EAGAIN.
send_EAGAIN(k) ==
  /\ pc = "send"
  /\ k \in DOMAIN visit \ {NoFd}
  /\ visit[k] = "out"
  /\ Ours(k)
  /\ owner[k] \notin hung \cup {NoSock}
  /\ unread[owner[k]] = Cap
  /\ send_buf[ccc[k]] # <<>>
  /\ visit' = Passed(k)
  /\ UNCHANGED <<descriptors, peers, phase, writing, held, events, todo, ccc, pc>>

\* send returns -1 with EPIPE, ECONNRESET or, for a closed socket, EBADF.
send_fails(k) ==
  /\ pc = "send"
  /\ k \in DOMAIN visit
  /\ visit[k] = "out"
  /\ Ours(k)
  /\ k # NoFd => owner[k] \in hung \cup {NoSock}
  /\ visit' = Passed(k)
  /\ ccc' = Erased(k)
  /\ UNCHANGED <<peers, phase, writing, held, events, todo, pc>>
  /\ Close({ccc[k]})
-----------------------------------------------------------------------------
Others ==
  \/ \E s \in Sock, f \in Fd : accept(s, f)
  \/ \E s \in Sock : \/ on_socket_create(s)
                     \/ new_c_socket(s)
                     \/ disconnect(s)
                     \/ release(s)
                     \/ peer_reads(s)
                     \/ peer_hangs(s)
  \/ \E w \in Writer : push_ADD_DATA(w) \/ \E s \in Sock : write_data(w, s)

Walk ==
  \E k \in Key : \/ cleanup_socket(k)
                 \/ drop_socket(k)
                 \/ skip_closed(k)
                 \/ \E n \in 0..Cap : send_to_socket(k, n)
                 \/ send_EAGAIN(k)
                 \/ send_fails(k)

Handle ==
  \/ \E s \in Sock : handle_ADD_DATA(s)
  \/ \E f \in Fd : handle_REMOVE_SOCK(f)

Poll == \E full \in BOOLEAN : do_poll(full)

Next == Others \/ cleanup_sockets \/ extract_all \/ Handle \/ Poll
          \/ poll_fails \/ Walk

Spec == Init /\ [][Next]_vars
-----------------------------------------------------------------------------
\* An open connection with output left is in the hands of someone who will
\* bring it to the sender's attention: its descriptor's entry in ccc, an
\* event in the queue, or a writer about to push one.
Attended(s, f) ==
  \/ f \in DOMAIN ccc /\ ccc[f] = s
  \/ Pending(ADD_DATA(s))
  \/ \E w \in Writer : pushing[w] = s

NoLostWakeup ==
  \A s \in Sock :
    m__sock[s] # NoFd /\ send_buf[s] # <<>> => Attended(s, m__sock[s])

\* Once only the sender holds a connection, it is closed when its output has
\* been sent or its peer has gone, and not before.
UnsentStep ==
  \A s \in Sock :
    m__sock[s] # NoFd /\ m__sock'[s] = NoFd /\ s \notin held' =>
      s \in hung \/ send_buf'[s] = <<>>

KeepsUnsent == [][UnsentStep]_vars

\* The units a peer is given are those written to its connection, in order.
Stream == INSTANCE StreamAbs WITH out <- [s \in Sock |-> sent[s] \o send_buf[s]]

StreamSpec == Stream!Spec

\* Output is neither mixed up, nor lost by closing too early.
StreamKept == StreamSpec /\ KeepsUnsent

\* The loop of sender_proc has no end, a started write_data ends, peers that
\* are there read.  poll may fail, but not for ever.
SenderFairness ==
  /\ WF_vars(cleanup_sockets \/ extract_all)
  /\ WF_vars(Handle)
  /\ SF_vars(Poll)
  /\ WF_vars(Walk)
  /\ \A w \in Writer : WF_vars(push_ADD_DATA(w))
  /\ \A s \in Sock : WF_vars(peer_reads(s))

FairSpec == Spec /\ SenderFairness

\* Every unit written is sent, unless the connection is closed or its peer
\* goes.
Delivered ==
  \A s \in Sock : \A i \in 1..MaxUnits :
    []<>(Len(sent[s]) + Len(send_buf[s]) >= i =>
           Len(sent[s]) >= i \/ m__sock[s] = NoFd \/ s \in hung)
=============================================================================
