-------------------------------- MODULE Dialog -------------------------------
(* tcp_dialog_server and tcp_linedialog_server, under the IRC server.  An     *)
(* accepted socket is queued for the selector, which keeps sockets by file    *)
(* descriptor, polls them, reads into rd_buf, and queues a socket each time   *)
(* something was read; handler threads take sockets from that queue and lines *)
(* out of rd_buf.  A line may make the handler close the socket, and then the *)
(* kernel may give the descriptor to the next connection.                     *)
(* A line is received whole here: extract_command leaves the beginning of one *)
(* in rd_buf as if it had not come.                                           *)
EXTENDS Integers, Sequences, FiniteSets, SequencesExt

CONSTANTS
  Peer,        \* connections
  Fd,            \* descriptors the kernel can give
  DialogThread,  \* tcp_dialog_server::handler threads
  LineKind,      \* what each sends: "line", "empty", "bye" (the handler disconnects)
  MaxLines       \* lines each client sends (bound)

Closed == "closed"     \* m__sock = -1
Nobody == "nobody"

ASSUME DialogAssumption ==
  /\ LineKind \in [Peer -> SUBSET {"line", "empty", "bye"}]
  /\ MaxLines \in [Peer -> Nat]
  /\ Closed \notin Fd
  /\ Nobody \notin Peer

VARIABLES
  l_sent,        \* the lines each client has sent (history)
  l_client,      \* "away", "here", "left"
  l_wire,        \* lines the kernel holds
  l_fd,          \* c_socket::m__sock
  l_rd_buf,      \* c_socket::rd_buf
  l_accepteds, l_readable_socks,
  l_ccc,         \* the selector's sockets by descriptor
  l_thread,      \* what each handler thread has
  l_taken,       \* lines taken out of rd_buf, in that order (history)
  l_done,        \* lines processed (history)
  l_deleted,     \* on_delete calls (history)
  l_unseen       \* connections the selector never got, or forgot (history)

clientVars == <<l_sent, l_client, l_wire>>
selectorVars == <<l_accepteds, l_ccc, l_deleted, l_unseen>>
dialogThreadVars == <<l_thread, l_taken, l_done>>
dialogVars == <<clientVars, l_fd, l_rd_buf, l_readable_socks, selectorVars, dialogThreadVars>>

Unoccupied == [conn |-> Nobody, line |-> <<>>]

DialogInit ==
  /\ l_sent = [c \in Peer |-> <<>>] /\ l_wire = l_sent
  /\ l_client = [c \in Peer |-> "away"]
  /\ l_fd = [c \in Peer |-> Closed]
  /\ l_rd_buf = l_sent
  /\ l_accepteds = <<>> /\ l_readable_socks = <<>>
  /\ l_ccc = [f \in Fd |-> Nobody]
  /\ l_thread = [t \in DialogThread |-> Unoccupied]
  /\ l_taken = l_sent /\ l_done = [c \in Peer |-> {}]
  /\ l_deleted = [c \in Peer |-> 0] /\ l_unseen = {}
-----------------------------------------------------------------------------
(* Clients, and the accept handler of the TCP server.                        *)

Owner(f) == {c \in Peer : l_fd[c] = f}

\* tcp_dialog_connection::process_tcp: on_accept_dialog_socket, then accepteds.
dialog_process_tcp(c, f) ==
  /\ l_client[c] = "away" /\ Owner(f) = {}
  /\ l_client' = [l_client EXCEPT ![c] = "here"]
  /\ l_fd' = [l_fd EXCEPT ![c] = f]
  /\ l_accepteds' = Append(l_accepteds, c)
  /\ UNCHANGED <<l_sent, l_wire, l_rd_buf, l_readable_socks, l_ccc, l_deleted, l_unseen, dialogThreadVars>>

send(c, kind) ==
  /\ l_client[c] = "here" /\ l_fd[c] # Closed
  /\ Len(l_sent[c]) < MaxLines[c]
  /\ LET line == <<Len(l_sent[c]) + 1, kind>> IN
       /\ l_sent' = [l_sent EXCEPT ![c] = Append(@, line)]
       /\ l_wire' = [l_wire EXCEPT ![c] = Append(@, line)]
  /\ UNCHANGED <<l_client, l_fd, l_rd_buf, l_readable_socks, selectorVars, dialogThreadVars>>

leave(c) ==
  /\ l_client[c] = "here"
  /\ l_client' = [l_client EXCEPT ![c] = "left"]
  /\ UNCHANGED <<l_sent, l_wire, l_fd, l_rd_buf, l_readable_socks, selectorVars, dialogThreadVars>>
-----------------------------------------------------------------------------
(* socket_selector.                                                          *)

\* ccc.insert: what is there under the descriptor stays.
Inserted(c) == IF l_ccc[l_fd[c]] = Nobody THEN c ELSE l_ccc[l_fd[c]]

\* Nobody but the selector closes a socket it has not polled yet.
take_accepted ==
  /\ l_accepteds # <<>>
  /\ LET c == Head(l_accepteds) IN
       /\ l_ccc' = [l_ccc EXCEPT ![l_fd[c]] = Inserted(c)]
       /\ l_unseen' = IF Inserted(c) = c THEN l_unseen ELSE l_unseen \cup {c}
  /\ l_accepteds' = Tail(l_accepteds)
  /\ UNCHANGED <<clientVars, l_fd, l_rd_buf, l_readable_socks, l_deleted, dialogThreadVars>>

Stale(f) == l_ccc[f] # Nobody /\ l_fd[l_ccc[f]] # f

\* Mutant: the socket is dropped from the queue of the accepted, not from ccc.
Erased_not(f) == l_ccc

Erased(f) == [l_ccc EXCEPT ![f] = Nobody]

\* Mutant: the socket is not disconnected.
Shut_not(c) == l_fd

Shut(c) == [l_fd EXCEPT ![c] = Closed]

\* on_delete, disconnect, erase.
drop_socket(f) ==
  /\ l_deleted' = [l_deleted EXCEPT ![l_ccc[f]] = @ + 1]
  /\ l_fd' = Shut(l_ccc[f])
  /\ l_ccc' = Erased(f)
  /\ UNCHANGED <<clientVars, l_rd_buf, l_readable_socks, l_accepteds, l_unseen, dialogThreadVars>>

\* Mutant: not those whose descriptor somebody else has.
Swept_unused(f) == Stale(f) /\ Owner(f) = {}

Swept(f) == Stale(f)

\* Once in two hundred rounds: sockets without their descriptor.
sweep(f) == Swept(f) /\ drop_socket(f)

Readable(f) == \E c \in Owner(f) : l_wire[c] # <<>> \/ l_client[c] = "left"

\* The descriptor is readable, but another socket's: the entry goes, on_delete
\* is not called.
poll_stale(f) ==
  /\ Stale(f) /\ Readable(f)
  /\ l_ccc' = Erased(f)
  /\ l_unseen' = l_unseen \cup {l_ccc[f]}
  /\ UNCHANGED <<clientVars, l_fd, l_rd_buf, l_readable_socks, l_accepteds, l_deleted, dialogThreadVars>>

\* POLLNVAL: nobody has the descriptor.
poll_invalid(f) == Stale(f) /\ Owner(f) = {} /\ drop_socket(f)

Watched(f) == l_ccc[f] # Nobody /\ l_fd[l_ccc[f]] = f

\* Part or all of what has come is read.
recv(f) ==
  /\ Watched(f)
  /\ LET c == l_ccc[f] IN
       /\ l_wire[c] # <<>>
       /\ \E n \in 1..Len(l_wire[c]) :
            /\ l_rd_buf' = [l_rd_buf EXCEPT ![c] = @ \o SubSeq(l_wire[c], 1, n)]
            /\ l_wire' = [l_wire EXCEPT ![c] = SubSeq(@, n + 1, Len(@))]
       /\ l_readable_socks' = Append(l_readable_socks, c)
  /\ UNCHANGED <<l_sent, l_client, l_fd, selectorVars, dialogThreadVars>>

\* recv returned 0 for the eleventh time, or -1, or poll an error.
recv_fails(f) ==
  /\ Watched(f)
  /\ l_client[l_ccc[f]] = "left"
  /\ drop_socket(f)
-----------------------------------------------------------------------------
(* handler, tcp_linedialog_server::process_buffer.                           *)

extract_first(t) ==
  /\ l_thread[t] = Unoccupied /\ l_readable_socks # <<>>
  /\ l_thread' = [l_thread EXCEPT ![t].conn = Head(l_readable_socks)]
  /\ l_readable_socks' = Tail(l_readable_socks)
  /\ UNCHANGED <<clientVars, l_fd, l_rd_buf, selectorVars, l_taken, l_done>>

\* Mutant: the first line is read under the lock and stays.
Rest_all(buf) == buf

Rest(buf) == Tail(buf)

\* Under the socket's lock.  With no line, or an empty one, the thread is done.
extract_command(t) ==
  LET c == l_thread[t].conn IN
  /\ c # Nobody /\ l_thread[t].line = <<>>
  /\ IF l_rd_buf[c] = <<>>
     THEN l_thread' = [l_thread EXCEPT ![t] = Unoccupied] /\ UNCHANGED <<l_rd_buf, l_taken>>
     ELSE /\ l_rd_buf' = [l_rd_buf EXCEPT ![c] = Rest(@)]
          /\ l_taken' = [l_taken EXCEPT ![c] = Append(@, Head(l_rd_buf[c]))]
          /\ l_thread' = [l_thread EXCEPT ![t] = IF Head(l_rd_buf[c])[2] = "empty" THEN Unoccupied ELSE [@ EXCEPT !.line = Head(l_rd_buf[c])]]
  /\ UNCHANGED <<clientVars, l_fd, l_readable_socks, selectorVars, l_done>>

\* Mutant: one line each time.
LineProcessed_once(t) == [l_thread EXCEPT ![t] = Unoccupied]

LineProcessed(t) == [l_thread EXCEPT ![t].line = <<>>]

\* A login that fails disconnects.
process_command(t) ==
  LET c == l_thread[t].conn
      line == l_thread[t].line IN
  /\ line # <<>>
  /\ l_done' = [l_done EXCEPT ![c] = @ \cup {line[1]}]
  /\ l_fd' = [l_fd EXCEPT ![c] = IF line[2] = "bye" THEN Closed ELSE @]
  /\ l_thread' = LineProcessed(t)
  /\ UNCHANGED <<clientVars, l_rd_buf, l_readable_socks, selectorVars, l_taken>>

SelectorSteps ==
  take_accepted \/ \E f \in Fd : sweep(f) \/ poll_stale(f) \/ poll_invalid(f) \/ recv(f) \/ recv_fails(f)
DialogThreadSteps(t) == extract_first(t) \/ extract_command(t) \/ process_command(t)

DialogNext ==
  \/ \E c \in Peer : leave(c) \/ \E f \in Fd : dialog_process_tcp(c, f)
  \/ \E c \in Peer : \E kind \in LineKind[c] : send(c, kind)
  \/ SelectorSteps
  \/ \E t \in DialogThread : DialogThreadSteps(t)
DialogSpec == DialogInit /\ [][DialogNext]_dialogVars

\* The selector's and the handlers' loops; the sweep comes up at last.
DialogFairness ==
  /\ WF_dialogVars(take_accepted)
  /\ \A f \in Fd : WF_dialogVars(sweep(f)) /\ WF_dialogVars(poll_invalid(f) \/ recv(f) \/ recv_fails(f))
  /\ \A t \in DialogThread : WF_dialogVars(DialogThreadSteps(t))
-----------------------------------------------------------------------------
\* Every line sent is taken once and in its order, or waits, however many
\* threads work on the connection.
LinesInOrder == \A c \in Peer : l_taken[c] \o l_rd_buf[c] \o l_wire[c] = l_sent[c]

\* on_delete is called once for a connection.
DeletedOnce == \A c \in Peer : l_deleted[c] <= 1

\* An open socket is one the selector has or will have: unless its descriptor
\* was that of a socket closed by a handler and still in ccc.
OpenIsPolled ==
  \A c \in Peer \ l_unseen : l_fd[c] # Closed =>
    (\E i \in DOMAIN l_accepteds : l_accepteds[i] = c) \/ l_ccc[l_fd[c]] = c

AfterEmpty(c, n) == \E m \in 1..n : m \in DOMAIN l_sent[c] /\ l_sent[c][m][2] = "empty"

\* A line is processed at last, unless the connection ends, or an empty line
\* before it made the handler stop.
LinesServed ==
  \A c \in Peer : \A n \in 1..MaxLines[c] :
    []<>(n \in DOMAIN l_sent[c] => n \in l_done[c] \/ l_fd[c] = Closed \/ c \in l_unseen \/ AfterEmpty(c, n))

\* A connection somebody closed is given to on_delete at last.
CloseSeen ==
  \A c \in Peer :
    []<>(l_client[c] # "away" /\ l_fd[c] = Closed => l_deleted[c] # 0 \/ c \in l_unseen)

\* The selector looks after every open socket, and lets go of it once.
SelectorKeeps == DeletedOnce /\ OpenIsPolled

\* What a client sends is processed and what it closes is cleaned up, at last.
DialogsServed == LinesServed /\ CloseSeen
=============================================================================
