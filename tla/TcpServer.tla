------------------------------ MODULE TcpServer ------------------------------
(***************************************************************************)
(* tcp_server (core-web/tcp_server.cpp): one listener thread per address   *)
(* accepts connections and queues them; handler threads take them from the *)
(* queue.  A listener makes a new handler when two counters, which it and  *)
(* the handlers change without a common lock, say that none is free.       *)
(*                                                                         *)
(* Each access to a counter or to the queue locks it alone: each is an     *)
(* action of its own.                                                      *)
(***************************************************************************)
EXTENDS Integers, Sequences, FiniteSets

CONSTANTS Listener,
          Handler,                 \* handler threads that can be made
          Conn,                    \* connections
          NoConn,
          MaxHandlers,                     \* max_number_of_accept_handlers, 0: none
          Limit                    \* 2^w: the counters are unsigned int

ASSUME ServerAssumption ==
  /\ IsFiniteSet(Listener)
  /\ Listener # {}
  /\ IsFiniteSet(Handler)
  /\ Cardinality(Handler) < Limit
  /\ NoConn \notin Conn
  /\ MaxHandlers \in Nat
  /\ Limit \in Nat \ {0}

VARIABLES conn_list,
          handlers_count,
          handlers_busy,
          lpc,                     \* where each listener is
          seen,                    \* the counters it has read
          hpc,                     \* where each handler is
          sok,                     \* the connection in its hands
          accepted,                \* connections accepted so far
          failures                 \* create_threads that have failed

listeners == <<lpc, seen>>
handlers == <<hpc, sok>>
counters == <<handlers_count, handlers_busy>>
history == <<accepted, failures>>
tcpVars == <<conn_list, counters, listeners, handlers, history>>

Counter == 0..Limit - 1
Counters == {"handlers_count", "handlers_busy"}

TcpTypeOK ==
  /\ conn_list \in Seq(Conn)
  /\ handlers_count \in Counter
  /\ handlers_busy \in Counter
  /\ lpc \in [Listener -> {"accept", "found_free", "room", "create", "count"}]
  /\ seen \in [Listener -> UNION {[R -> Counter] : R \in SUBSET Counters}]
  /\ hpc \in [Handler -> {"none", "idle", "taken", "busy"}]
  /\ sok \in [Handler -> Conn \cup {NoConn}]
  /\ \A h \in Handler : sok[h] = NoConn <=> hpc[h] \in {"none", "idle"}
  /\ accepted \subseteq Conn
  /\ failures \in Nat

Nothing == [c \in {} |-> 0]

TcpInit ==
  /\ conn_list = <<>>
  /\ handlers_count = 0
  /\ handlers_busy = 0
  /\ lpc = [l \in Listener |-> "accept"]
  /\ seen = [l \in Listener |-> Nothing]
  /\ hpc = [h \in Handler |-> "none"]
  /\ sok = [h \in Handler |-> NoConn]
  /\ accepted = {}
  /\ failures = 0
-----------------------------------------------------------------------------
(* listener.                                                               *)

\* Mutant: the c_socket is made and __nsock not set.
accept_null(l, c) ==
  /\ lpc[l] = "accept"
  /\ c \notin accepted
  /\ accepted' = accepted \cup {c}
  /\ conn_list' = Append(conn_list, NoConn)
  /\ lpc' = [lpc EXCEPT ![l] = "found_free"]
  /\ seen' = [seen EXCEPT ![l] = Nothing]
  /\ UNCHANGED <<counters, handlers, failures>>

\* accept, and conn_list.push_back.
accept(l, c) ==
  /\ lpc[l] = "accept"
  /\ c \notin accepted
  /\ accepted' = accepted \cup {c}
  /\ conn_list' = Append(conn_list, c)
  /\ lpc' = [lpc EXCEPT ![l] = "found_free"]
  /\ seen' = [seen EXCEPT ![l] = Nothing]
  /\ UNCHANGED <<counters, handlers, failures>>

\* The operands of the subtraction are read in either order.
get(l, x) ==
  /\ lpc[l] = "found_free"
  /\ x \in Counters \ DOMAIN seen[l]
  /\ seen' = [seen EXCEPT ![l] =
                [y \in DOMAIN @ \cup {x} |->
                   IF y # x THEN @[y]
                   ELSE IF x = "handlers_count" THEN handlers_count
                                                ELSE handlers_busy]]
  /\ UNCHANGED <<conn_list, counters, lpc, handlers, history>>

\* Mutant: an unsigned difference is never negative.
Free_always(count, busy) == (count - busy) % Limit >= 0

\* handlers_count - handlers_busy > 0, of unsigned numbers.
Free(count, busy) == (count - busy) % Limit > 0

found_free(l) ==
  /\ lpc[l] = "found_free"
  /\ DOMAIN seen[l] = Counters
  /\ lpc' = [lpc EXCEPT ![l] =
               IF Free(seen[l]["handlers_count"], seen[l]["handlers_busy"])
               THEN "accept" ELSE "room"]
  /\ UNCHANGED <<conn_list, counters, seen, handlers, history>>

\* Mutant: one handler more.
HasRoom_one_more(count) == MaxHandlers = 0 \/ count <= MaxHandlers

\* Mutant: one handler less.
HasRoom_one_less(count) == MaxHandlers = 0 \/ count < MaxHandlers - 1

HasRoom(count) == MaxHandlers = 0 \/ count < MaxHandlers

check_room(l) ==
  /\ lpc[l] = "room"
  /\ lpc' = [lpc EXCEPT ![l] =
               IF HasRoom(handlers_count) THEN "create" ELSE "accept"]
  /\ UNCHANGED <<conn_list, counters, seen, handlers, history>>

create_thread(l, h) ==
  /\ lpc[l] = "create"
  /\ hpc[h] = "none"
  /\ hpc' = [hpc EXCEPT ![h] = "idle"]
  /\ lpc' = [lpc EXCEPT ![l] = "count"]
  /\ UNCHANGED <<conn_list, counters, seen, sok, history>>

\* create_thread throws; the listener goes on.
create_thread_fails(l) ==
  /\ lpc[l] = "create"
  /\ failures' = failures + 1
  /\ lpc' = [lpc EXCEPT ![l] = "accept"]
  /\ UNCHANGED <<conn_list, counters, seen, handlers, accepted>>

\* ++handlers_count, when the new thread may already be at work.
count_handler(l) ==
  /\ lpc[l] = "count"
  /\ handlers_count' = (handlers_count + 1) % Limit
  /\ lpc' = [lpc EXCEPT ![l] = "accept"]
  /\ UNCHANGED <<conn_list, handlers_busy, seen, handlers, history>>
-----------------------------------------------------------------------------
(* handler.                                                                *)

try_extract_first(h) ==
  /\ hpc[h] = "idle"
  /\ conn_list # <<>>
  /\ sok' = [sok EXCEPT ![h] = Head(conn_list)]
  /\ conn_list' = Tail(conn_list)
  /\ hpc' = [hpc EXCEPT ![h] = "taken"]
  /\ UNCHANGED <<counters, listeners, history>>

\* validate_peer_ip_address says no, or new_connection throws.
refuse(h) ==
  /\ hpc[h] = "taken"
  /\ hpc' = [hpc EXCEPT ![h] = "idle"]
  /\ sok' = [sok EXCEPT ![h] = NoConn]
  /\ UNCHANGED <<conn_list, counters, listeners, history>>

\* st_THREAD_BUSY
mark_busy(h) ==
  /\ hpc[h] = "taken"
  /\ handlers_busy' = (handlers_busy + 1) % Limit
  /\ hpc' = [hpc EXCEPT ![h] = "busy"]
  /\ UNCHANGED <<conn_list, handlers_count, listeners, sok, history>>

\* Mutant: no destructor; an exception of process_tcp skips the decrement.
process_tcp_leaks(h) ==
  /\ hpc[h] = "busy"
  /\ handlers_busy' \in {handlers_busy, (handlers_busy - 1) % Limit}
  /\ hpc' = [hpc EXCEPT ![h] = "idle"]
  /\ sok' = [sok EXCEPT ![h] = NoConn]
  /\ UNCHANGED <<conn_list, handlers_count, listeners, history>>

\* process_tcp returns or throws: ~st_THREAD_BUSY.
process_tcp(h) ==
  /\ hpc[h] = "busy"
  /\ handlers_busy' = (handlers_busy - 1) % Limit
  /\ hpc' = [hpc EXCEPT ![h] = "idle"]
  /\ sok' = [sok EXCEPT ![h] = NoConn]
  /\ UNCHANGED <<conn_list, handlers_count, listeners, history>>
-----------------------------------------------------------------------------
Accept(l) == \E c \in Conn : accept(l, c)

\* What a listener does with a connection it has accepted.
Listen(l) ==
  \/ \E x \in Counters : get(l, x)
  \/ found_free(l)
  \/ check_room(l)
  \/ \E h \in Handler : create_thread(l, h)
  \/ create_thread_fails(l)
  \/ count_handler(l)

Handle(h) ==
  \/ try_extract_first(h)
  \/ refuse(h)
  \/ mark_busy(h)
  \/ process_tcp(h)

TcpNext ==
  \/ \E l \in Listener : Accept(l) \/ Listen(l)
  \/ \E h \in Handler : Handle(h)

TcpSpec == TcpInit /\ [][TcpNext]_tcpVars
-----------------------------------------------------------------------------
Started == {h \in Handler : hpc[h] # "none"}
Processing == {h \in Handler : hpc[h] = "busy"}
Listening == {l \in Listener : lpc[l] = "accept"}

\* When no listener is in the middle of a connection, handlers_count is the
\* number of handler threads; handlers_busy is that of those in process_tcp.
CountersTrue ==
  /\ Listening = Listener => handlers_count = Cardinality(Started)
  /\ handlers_busy = Cardinality(Processing)

\* Listeners check the maximum before they count the thread they make: each
\* but one may go beyond it once.
HandlersBounded ==
  MaxHandlers # 0 => Cardinality(Started) <= MaxHandlers + Cardinality(Listener) - 1

\* The threads are counted, and bounded by the count.
PoolCounted == CountersTrue /\ HandlersBounded

\* A connection is left in the queue with no thread to take it only if making
\* one failed, once for each such connection.
SomeoneWillServe ==
  Listening = Listener /\ Started = {} => Len(conn_list) <= failures

\* tcp_server.cpp:297, of the listener that has queued a connection: "if free
\* handler available do nothing esle create additional handler".
FreeOrCreated ==
  /\ Listening = Listener
  /\ conn_list # <<>>
  /\ HasRoom(Cardinality(Started))
  /\ failures = 0
  => Started # Processing

\* Listeners and handlers go on, and connections end.
TcpFairSpec ==
  /\ TcpSpec
  /\ \A l \in Listener : WF_tcpVars(Listen(l))
  /\ \A h \in Handler : WF_tcpVars(Handle(h))

Queued(c) == \E i \in DOMAIN conn_list : conn_list[i] = c

\* A queued connection is taken, if threads can be made.
Served == \A c \in Conn : []<>(~ Queued(c) \/ failures > 0)
=============================================================================
