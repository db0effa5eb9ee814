---------------------------- MODULE Sender_proofs ----------------------------
(***************************************************************************)
(* Proofs about Sender, for any number of connections, descriptors and     *)
(* writers and any capacity: each peer gets its own output in order, no    *)
(* wakeup is lost, and no connection is closed with output in it.  And     *)
(* about Web, for any requests, headers and bodies: what is made of a      *)
(* request is what was sent.                                               *)
(***************************************************************************)
EXTENDS Sender, Web, SequenceTheorems, FiniteSetTheorems, TLAPS

USE SenderAssumption

\* A descriptor belongs to one connection, and an open c_socket knows its own.
Owners ==
  /\ \A s \in Sock, f \in Fd : m__sock[s] = f => owner[f] = s /\ phase[s] = "made"
  /\ \A f \in Fd : owner[f] # NoSock =>
       \/ phase[owner[f]] \in {"accepted", "announced"} /\ m__sock[owner[f]] = NoFd
       \/ phase[owner[f]] = "made" /\ m__sock[owner[f]] = f
  /\ \A f, g \in Fd : owner[f] = owner[g] /\ owner[f] # NoSock => f = g

\* Nothing knows a c_socket before it is made.
Unknown ==
  \A s \in Sock : phase[s] # "made" =>
    s \notin Referenced /\ m__sock[s] = NoFd /\ send_buf[s] = <<>>

\* An entry of ccc is under the descriptor its socket has, or had.
Keys == \A k \in DOMAIN ccc : m__sock[ccc[k]] \in {k, NoFd}

\* The sender walks over entries that are there, and an error it was told of
\* is one of the connection in the entry, unless that has been closed since.
Walking ==
  /\ pc = "handle" => DOMAIN visit = {}
  /\ pc # "handle" => todo = <<>>
  /\ DOMAIN visit \subseteq DOMAIN ccc
  /\ \A k \in DOMAIN visit :
       /\ pc = "send" => visit[k] \in {"err", "out"}
       /\ visit[k] = "err" /\ m__sock[ccc[k]] # NoFd => ccc[k] \in hung

\* An entry left by an earlier owner of the descriptor is about to be removed.
StaleRemoved ==
  \A f \in Fd :
    /\ f \in DOMAIN ccc
    /\ owner[f] # NoSock
    /\ owner[f] # ccc[f]
    /\ phase[owner[f]] # "accepted"
    => Pending(REMOVE_SOCK(f))

\* The removal comes before the first event of the new owner.
RemovedFirst ==
  \A s \in Sock, f \in Fd :
    /\ m__sock[s] = f
    /\ Pending(REMOVE_SOCK(f))
    => /\ ~ (f \in DOMAIN ccc /\ ccc[f] = s)
       /\ \A i, j \in DOMAIN todo :
            j < i /\ todo[i] = REMOVE_SOCK(f) => todo[j] # ADD_DATA(s)
       /\ \A i, j \in DOMAIN events :
            j < i /\ events[i] = REMOVE_SOCK(f) => events[j] # ADD_DATA(s)
       /\ \A i \in DOMAIN events, j \in DOMAIN todo :
            events[i] = REMOVE_SOCK(f) => todo[j] # ADD_DATA(s)

Inv ==
  /\ TypeOK
  /\ Owners
  /\ Unknown
  /\ Keys
  /\ Walking
  /\ StaleRemoved
  /\ RemovedFirst
  /\ NoLostWakeup
-----------------------------------------------------------------------------
(* Events and the queue.                                                   *)

\* The two kinds of event differ, and an event has one subject.
LEMMA Events ==
  /\ \A s \in Sock, f \in Fd : ADD_DATA(s) # REMOVE_SOCK(f)
  /\ \A s, t \in Sock : ADD_DATA(s) = ADD_DATA(t) => s = t
  /\ \A f, g \in Fd : REMOVE_SOCK(f) = REMOVE_SOCK(g) => f = g
  /\ \A s \in Sock : ADD_DATA(s) \in Event
  /\ \A f \in Fd : REMOVE_SOCK(f) \in Event
<1>1. \A s \in Sock, f \in Fd : ADD_DATA(s).type # REMOVE_SOCK(f).type
  BY DEF ADD_DATA, REMOVE_SOCK
<1>2. \A s \in Sock : ADD_DATA(s).S = s
  BY DEF ADD_DATA
<1>3. \A f \in Fd : REMOVE_SOCK(f).fd = f
  BY DEF REMOVE_SOCK
<1> QED
  BY <1>1, <1>2, <1>3 DEF Event

\* Pushing an event keeps those that wait.
LEMMA Pushed ==
  ASSUME TypeOK, NEW x \in Event, events' = Append(events, x), todo' = todo
  PROVE  /\ events' \in Seq(Event)
         /\ \A e \in Event : Pending(e)' <=> Pending(e) \/ e = x
         /\ \A i \in DOMAIN events' :
              (i \in DOMAIN events /\ events'[i] = events[i])
                \/ (i = Len(events) + 1 /\ events'[i] = x)
         /\ \A i \in DOMAIN events : i <= Len(events)
<1>1. events \in Seq(Event)
  BY DEF TypeOK
<1>2. /\ events' \in Seq(Event)
      /\ Len(events') = Len(events) + 1
      /\ \A i \in 1..Len(events) : events'[i] = events[i]
      /\ events'[Len(events) + 1] = x
      /\ DOMAIN events = 1..Len(events)
      /\ DOMAIN events' = 1..Len(events) + 1
      /\ Len(events) \in Nat
  BY <1>1
<1>3. \A e \in Event : (\E i \in DOMAIN events' : events'[i] = e)
                         <=> (\E i \in DOMAIN events : events[i] = e) \/ e = x
  BY <1>2
<1> QED
  BY <1>2, <1>3 DEF Pending

\* Handling the first event of the batch keeps the others.
LEMMA Handled ==
  ASSUME TypeOK, todo # <<>>, todo' = Tail(todo), events' = events
  PROVE  /\ todo' \in Seq(Event)
         /\ Head(todo) = todo[1]
         /\ 1 \in DOMAIN todo
         /\ \A i \in DOMAIN todo' :
              i + 1 \in DOMAIN todo /\ todo'[i] = todo[i + 1] /\ 1 < i + 1
         /\ \A i, j \in DOMAIN todo' : j < i => j + 1 < i + 1
         /\ \A e \in Event : Pending(e)' => Pending(e)
         /\ \A e \in Event : Pending(e) => Pending(e)' \/ e = Head(todo)
<1>1. todo \in Seq(Event)
  BY DEF TypeOK
<1>2. /\ todo' \in Seq(Event)
      /\ Len(todo) \in Nat
      /\ Len(todo) > 0
      /\ Len(todo') = Len(todo) - 1
      /\ DOMAIN todo = 1..Len(todo)
      /\ DOMAIN todo' = 1..Len(todo')
      /\ \A i \in 1..Len(todo') : todo'[i] = todo[i + 1]
      /\ Head(todo) = todo[1]
  BY <1>1
<1>3. \A i \in DOMAIN todo' :
        i + 1 \in DOMAIN todo /\ todo'[i] = todo[i + 1] /\ 1 < i + 1
  BY <1>2
<1>4. \A i \in DOMAIN todo : i = 1 \/ (i - 1 \in DOMAIN todo' /\ todo'[i - 1] = todo[i])
  BY <1>2
<1>5. \A e \in Event : Pending(e)' => Pending(e)
  BY <1>3 DEF Pending
<1>6. \A e \in Event : Pending(e) => Pending(e)' \/ e = Head(todo)
  BY <1>2, <1>4 DEF Pending
<1>7. \A i, j \in DOMAIN todo' : j < i => j + 1 < i + 1
  BY <1>2
<1> QED
  BY <1>2, <1>3, <1>5, <1>6, <1>7

\* Taking the queue as the batch keeps every event.
LEMMA Taken ==
  ASSUME TypeOK, todo = <<>>, todo' = events, events' = <<>>
  PROVE  \A e \in Event : Pending(e)' <=> Pending(e)
BY DEF Pending
-----------------------------------------------------------------------------
(* Closing.                                                                *)

\* Closing sockets frees their descriptors and touches no other.
LEMMA Closing ==
  ASSUME Inv, NEW D \in SUBSET Sock, Close(D), phase' = phase
  PROVE  /\ m__sock' \in [Sock -> Key]
         /\ owner' \in [Fd -> Sock \cup {NoSock}]
         /\ Owners'
         /\ \A s \in Sock : m__sock'[s] \in {m__sock[s], NoFd}
         /\ \A f \in Fd : owner'[f] \in {owner[f], NoSock}
         /\ \A s \in Sock \ D : s \in Referenced' => m__sock'[s] = m__sock[s]
         /\ \A s \in D : m__sock'[s] = NoFd
<1> DEFINE shut == D \cup {s \in Sock : s \notin Referenced'}
<1>1. /\ m__sock' = [s \in Sock |-> IF s \in shut THEN NoFd ELSE m__sock[s]]
      /\ owner' = [f \in Fd |-> IF \E s \in shut : m__sock[s] = f THEN NoSock
                                 ELSE owner[f]]
      /\ shut \subseteq Sock
  BY DEF Close
<1> HIDE DEF shut
<1>2. /\ m__sock' \in [Sock -> Key]
      /\ owner' \in [Fd -> Sock \cup {NoSock}]
      /\ \A s \in Sock : m__sock'[s] \in {m__sock[s], NoFd}
      /\ \A f \in Fd : owner'[f] \in {owner[f], NoSock}
  BY <1>1 DEF Inv, TypeOK, Key
<1>3. \A s \in Sock, f \in Fd :
        m__sock'[s] = f => owner'[f] = s /\ phase'[s] = "made"
  <2> SUFFICES ASSUME NEW s \in Sock, NEW f \in Fd, m__sock'[s] = f
               PROVE  owner'[f] = s /\ phase'[s] = "made"
    OBVIOUS
  <2>1. s \notin shut /\ m__sock[s] = f
    BY <1>1
  <2>2. owner[f] = s /\ phase[s] = "made"
    BY <2>1 DEF Inv, Owners
  <2>3. ~ \E t \in shut : m__sock[t] = f
    BY <2>1, <2>2, <1>1 DEF Inv, Owners
  <2> QED
    BY <1>1, <2>2, <2>3
<1>4. ASSUME NEW f \in Fd, owner'[f] # NoSock
      PROVE  \/ phase'[owner'[f]] \in {"accepted", "announced"} /\ m__sock'[owner'[f]] = NoFd
             \/ phase'[owner'[f]] = "made" /\ m__sock'[owner'[f]] = f
  <2>1. owner'[f] = owner[f] /\ ~ \E t \in shut : m__sock[t] = f
    BY <1>1, <1>4
  <2>2. owner[f] \in Sock
    BY <2>1, <1>4 DEF Inv, TypeOK
  <2>3. \/ phase[owner[f]] \in {"accepted", "announced"} /\ m__sock[owner[f]] = NoFd
        \/ phase[owner[f]] = "made" /\ m__sock[owner[f]] = f
    BY <2>1, <1>4 DEF Inv, Owners
  <2> QED
    BY <1>1, <2>1, <2>2, <2>3
<1>5. \A f, g \in Fd : owner'[f] = owner'[g] /\ owner'[f] # NoSock => f = g
  BY <1>2 DEF Inv, Owners
<1>6. Owners'
  BY <1>3, <1>4, <1>5 DEF Owners
<1>7. \A s \in Sock \ D : s \in Referenced' => m__sock'[s] = m__sock[s]
  BY <1>1 DEF shut
<1>8. \A s \in D : m__sock'[s] = NoFd
  BY <1>1 DEF shut
<1> QED
  BY <1>2, <1>6, <1>7, <1>8
\* A step that closes, and leaves no open connection with output unattended,
\* keeps the invariant but for the walk and the order of the queue.
LEMMA ClosingKeeps ==
  ASSUME Inv, NEW D \in SUBSET Sock, Close(D), phase' = phase, hung' = hung,
         Referenced' \subseteq Referenced,
         \A s \in Sock : send_buf'[s] # <<>> => send_buf[s] # <<>>,
         \A k \in DOMAIN ccc' :
           /\ ccc'[k] \in Sock
           /\ (k \in DOMAIN ccc /\ ccc'[k] = ccc[k]) \/ m__sock[ccc'[k]] = k,
         \A s \in Sock \ D, f \in Fd :
           m__sock[s] = f /\ send_buf'[s] # <<>> => Attended(s, f)',
         \A s \in D : m__sock[s] # NoFd => s \in held' \cup hung
  PROVE  /\ Owners' /\ Unknown' /\ Keys' /\ NoLostWakeup' /\ UnsentStep
         /\ m__sock' \in [Sock -> Key]
         /\ owner' \in [Fd -> Sock \cup {NoSock}]
<1>1. /\ m__sock' \in [Sock -> Key]
      /\ owner' \in [Fd -> Sock \cup {NoSock}]
      /\ Owners'
      /\ \A s \in Sock : m__sock'[s] \in {m__sock[s], NoFd}
      /\ \A s \in Sock \ D : s \in Referenced' => m__sock'[s] = m__sock[s]
      /\ \A s \in D : m__sock'[s] = NoFd
  BY Closing
<1>2. Unknown'
  BY <1>1 DEF Inv, Unknown
<1>3. Keys'
  BY <1>1 DEF Inv, Keys
<1>4. NoLostWakeup'
  <2> SUFFICES ASSUME NEW s \in Sock, m__sock'[s] # NoFd, send_buf'[s] # <<>>
               PROVE  Attended(s, m__sock[s])'
    BY DEF NoLostWakeup
  <2>1. s \notin D /\ m__sock'[s] = m__sock[s]
    BY <1>1
  <2>2. PICK f \in Fd : m__sock[s] = f /\ m__sock'[s] = f
    BY <1>1, <2>1 DEF Key
  <2>3. Attended(s, f)'
    BY <2>1, <2>2
  <2> QED
    BY <2>2, <2>3 DEF Attended
<1>5. UnsentStep
  <2> SUFFICES ASSUME NEW s \in Sock, m__sock[s] # NoFd, m__sock'[s] = NoFd,
                      s \notin held', s \notin hung, send_buf'[s] # <<>>
               PROVE  FALSE
    BY DEF UnsentStep
  <2>1. s \notin D
    OBVIOUS
  <2>2. PICK f \in Fd : m__sock[s] = f /\ Attended(s, f)'
    BY <2>1 DEF Inv, TypeOK, Key
  <2>3. s \in Referenced'
    BY <2>2 DEF Attended, Referenced
  <2> QED
    BY <1>1, <2>1, <2>3
<1> QED
  BY <1>1, <1>2, <1>3, <1>4, <1>5

\* What NoLostWakeup says of a step that leaves buffers, events and writers
\* alone and keeps the entry of an open connection.
LEMMA StillAttended ==
  ASSUME Inv, NEW s \in Sock, NEW f \in Fd, m__sock[s] = f, send_buf[s] # <<>>,
         \A e : Pending(e)' = Pending(e), pushing' = pushing,
         f \in DOMAIN ccc /\ ccc[f] = s => f \in DOMAIN ccc' /\ ccc'[f] = s
  PROVE  Attended(s, f)'
BY SenderAssumption DEF Inv, NoLostWakeup, Attended

-----------------------------------------------------------------------------
(* The other threads' steps.                                               *)

\* What a step keeps, and how it closes.
Step == Inv' /\ UnsentStep

\* A new connection gets a descriptor nobody owns.
LEMMA AcceptKeeps ==
  ASSUME Inv, NEW s \in Sock, NEW f \in Fd, accept(s, f)
  PROVE  Step
<1> USE DEF Inv, accept, peers, writing
<1>1. TypeOK'
  BY DEF TypeOK
<1>2. Referenced' = Referenced /\ \A e : Pending(e)' = Pending(e)
  BY DEF Referenced, Pending
<1>3. \A g \in Fd : owner[g] # s
  BY DEF Owners
<1>4. /\ m__sock[s] = NoFd
      /\ \A g \in Fd : owner'[g] = IF g = f THEN s ELSE owner[g]
      /\ \A t \in Sock : phase'[t] = IF t = s THEN "accepted" ELSE phase[t]
  BY DEF TypeOK, Unknown
<1>5. Owners'
  BY <1>3, <1>4 DEF TypeOK, Owners
<1>6. Unknown'
  BY <1>2, <1>4 DEF TypeOK, Unknown
<1>7. Keys' /\ Walking'
  BY DEF Keys, Walking
<1>8. StaleRemoved'
  BY <1>2, <1>3, <1>4 DEF StaleRemoved, TypeOK
<1>9. RemovedFirst'
  BY <1>2 DEF RemovedFirst
<1>10. NoLostWakeup'
  BY <1>2 DEF NoLostWakeup, Attended
<1>11. UnsentStep
  BY DEF UnsentStep
<1> QED
  BY <1>1, <1>5, <1>6, <1>7, <1>8, <1>9, <1>10, <1>11 DEF Step

\* The removal is queued before anyone knows the new c_socket.
LEMMA AnnounceKeeps ==
  ASSUME Inv, NEW s \in Sock, on_socket_create(s)
  PROVE  Step
<1> USE DEF Inv, on_socket_create, peers, writing, descriptors
<1>1. PICK f \in Fd : owner[f] = s /\ events' = Append(events, REMOVE_SOCK(f))
  OBVIOUS
<1>2. /\ events' \in Seq(Event)
      /\ \A e \in Event : Pending(e)' <=> Pending(e) \/ e = REMOVE_SOCK(f)
      /\ \A i \in DOMAIN events' :
           (i \in DOMAIN events /\ events'[i] = events[i])
             \/ (i = Len(events) + 1 /\ events'[i] = REMOVE_SOCK(f))
      /\ \A i \in DOMAIN events : i <= Len(events)
  BY <1>1, Pushed, Events
<1>3. TypeOK'
  BY <1>2 DEF TypeOK
<1>4. Referenced' = Referenced
  BY <1>2, Events DEF Referenced
<1>5. /\ \A t \in Sock : phase'[t] = IF t = s THEN "announced" ELSE phase[t]
      /\ phase[s] = "accepted"
  BY DEF TypeOK
<1>6. Owners'
  BY <1>5 DEF TypeOK, Owners
<1>7. Unknown'
  BY <1>4, <1>5 DEF Unknown
<1>8. Keys' /\ Walking'
  BY DEF Keys, Walking
<1>9. \A g \in Fd : owner[g] = s => g = f
  BY <1>1, SenderAssumption DEF Owners
<1>10. StaleRemoved'
  BY <1>2, <1>5, <1>9, Events DEF StaleRemoved, TypeOK
<1>11. RemovedFirst'
  <2> SUFFICES ASSUME NEW t \in Sock, NEW g \in Fd, m__sock[t] = g,
                      Pending(REMOVE_SOCK(g))'
               PROVE  /\ ~ (g \in DOMAIN ccc /\ ccc[g] = t)
                      /\ \A i, j \in DOMAIN todo :
                           j < i /\ todo[i] = REMOVE_SOCK(g) => todo[j] # ADD_DATA(t)
                      /\ \A i, j \in DOMAIN events' :
                           j < i /\ events'[i] = REMOVE_SOCK(g) => events'[j] # ADD_DATA(t)
                      /\ \A i \in DOMAIN events', j \in DOMAIN todo :
                           events'[i] = REMOVE_SOCK(g) => todo[j] # ADD_DATA(t)
    BY DEF RemovedFirst
  <2>1. g # f
    BY <1>1, <1>5 DEF Owners
  <2>2. Pending(REMOVE_SOCK(g)) /\ REMOVE_SOCK(g) # REMOVE_SOCK(f)
    BY <1>2, <2>1, Events
  <2>3. REMOVE_SOCK(f) # ADD_DATA(t)
    BY Events
  <2> QED
    BY <1>2, <2>2, <2>3 DEF RemovedFirst
<1>12. NoLostWakeup'
  BY <1>2, Events DEF NoLostWakeup, Attended
<1>13. UnsentStep
  BY DEF UnsentStep
<1> QED
  BY <1>3, <1>6, <1>7, <1>8, <1>10, <1>11, <1>12, <1>13 DEF Step

\* Nothing in ccc or in the queue is of the c_socket that is made.
LEMMA MakeKeeps ==
  ASSUME Inv, NEW s \in Sock, new_c_socket(s)
  PROVE  Step
<1> USE DEF Inv, new_c_socket, peers, writing
<1>1. PICK f \in Fd : owner[f] = s /\ m__sock' = [m__sock EXCEPT ![s] = f]
  OBVIOUS
<1>2. TypeOK'
  BY <1>1 DEF TypeOK, Key
<1>3. /\ \A t \in Sock : phase'[t] = IF t = s THEN "made" ELSE phase[t]
      /\ \A t \in Sock : m__sock'[t] = IF t = s THEN f ELSE m__sock[t]
      /\ phase[s] = "announced"
  BY <1>1 DEF TypeOK
<1>4. \A t \in Sock \ {s} : t \in Referenced' => t \in Referenced
  BY DEF Referenced, Pending
<1>5. /\ ~ Pending(ADD_DATA(s))
      /\ \A k \in DOMAIN ccc : ccc[k] # s
      /\ send_buf[s] = <<>>
      /\ m__sock[s] = NoFd
  BY <1>3 DEF Unknown, Referenced
<1>6. \A e : Pending(e)' = Pending(e)
  BY DEF Pending
<1>7. \A g \in Fd : owner[g] = s => g = f
  BY <1>1, SenderAssumption DEF Owners
<1>8. Owners'
  BY <1>1, <1>3, <1>7 DEF Owners, TypeOK
<1>9. Unknown'
  BY <1>3, <1>4 DEF Unknown
<1>10. Keys' /\ Walking'
  BY <1>3, <1>5 DEF Keys, Walking, TypeOK
<1>11. StaleRemoved'
  BY <1>3, <1>6 DEF StaleRemoved, TypeOK
<1>12. RemovedFirst'
  BY <1>3, <1>5, <1>6 DEF RemovedFirst, Pending
<1>13. NoLostWakeup'
  BY <1>3, <1>5, <1>6 DEF NoLostWakeup, Attended
<1>14. UnsentStep
  BY <1>3 DEF UnsentStep
<1> QED
  BY <1>2, <1>8, <1>9, <1>10, <1>11, <1>12, <1>13, <1>14 DEF Step

\* disconnect closes a socket the caller holds.
LEMMA DisconnectKeeps ==
  ASSUME Inv, NEW s \in Sock, disconnect(s)
  PROVE  Step
<1> USE DEF Inv, disconnect, peers, writing
<1>1. Referenced' = Referenced /\ \A e : Pending(e)' = Pending(e)
  BY DEF Referenced, Pending
<1>2. \A t \in Sock, f \in Fd :
        m__sock[t] = f /\ send_buf[t] # <<>> => Attended(t, f)'
  BY <1>1, StillAttended
<1>3. \A k \in DOMAIN ccc : ccc[k] \in Sock
  BY DEF TypeOK
<1>4. /\ Owners' /\ Unknown' /\ Keys' /\ NoLostWakeup' /\ UnsentStep
      /\ m__sock' \in [Sock -> Key]
      /\ owner' \in [Fd -> Sock \cup {NoSock}]
  <2>1. {s} \in SUBSET Sock /\ Close({s}) /\ \A t \in {s} : t \in held'
    OBVIOUS
  <2> QED
    BY <1>1, <1>2, <1>3, <2>1, ClosingKeeps
<1>5. /\ \A t \in Sock : m__sock'[t] \in {m__sock[t], NoFd}
      /\ \A f \in Fd : owner'[f] \in {owner[f], NoSock}
  BY Closing
<1>6. TypeOK'
  BY <1>4 DEF TypeOK
<1>7. Walking'
  BY <1>3, <1>5 DEF Walking
<1>8. StaleRemoved'
  BY <1>1, <1>5 DEF StaleRemoved
<1>9. RemovedFirst'
  BY <1>1, <1>5, SenderAssumption DEF RemovedFirst
<1> QED
  BY <1>4, <1>6, <1>7, <1>8, <1>9 DEF Step

\* A connection loses its last outside pointer.
LEMMA ReleaseKeeps ==
  ASSUME Inv, NEW s \in Sock, release(s)
  PROVE  Step
<1> USE DEF Inv, release, peers, writing
<1>1. Referenced' \subseteq Referenced /\ \A e : Pending(e)' = Pending(e)
  BY DEF Referenced, Pending
<1>2. \A t \in Sock, f \in Fd :
        m__sock[t] = f /\ send_buf[t] # <<>> => Attended(t, f)'
  BY <1>1, StillAttended
<1>3. \A k \in DOMAIN ccc : ccc[k] \in Sock
  BY DEF TypeOK
<1>4. /\ Owners' /\ Unknown' /\ Keys' /\ NoLostWakeup' /\ UnsentStep
      /\ m__sock' \in [Sock -> Key]
      /\ owner' \in [Fd -> Sock \cup {NoSock}]
  BY <1>1, <1>2, <1>3, ClosingKeeps
<1>5. /\ \A t \in Sock : m__sock'[t] \in {m__sock[t], NoFd}
      /\ \A f \in Fd : owner'[f] \in {owner[f], NoSock}
  BY Closing
<1>6. TypeOK'
  BY <1>4 DEF TypeOK
<1>7. Walking'
  BY <1>3, <1>5 DEF Walking
<1>8. StaleRemoved'
  BY <1>1, <1>5 DEF StaleRemoved
<1>9. RemovedFirst'
  BY <1>1, <1>5, SenderAssumption DEF RemovedFirst
<1> QED
  BY <1>4, <1>6, <1>7, <1>8, <1>9 DEF Step

\* The writer that has appended output is about to push the event for it.
LEMMA WriteKeeps ==
  ASSUME Inv, NEW w \in Writer, NEW s \in Sock, write_data(w, s)
  PROVE  Step
<1> USE DEF Inv, write_data, peers, descriptors
<1>1. <<s, Len(sent[s]) + Len(send_buf[s]) + 1>> \in Unit
  BY DEF TypeOK, Unit
<1>2. /\ send_buf' \in [Sock -> Seq(Unit)]
      /\ \A t \in Sock \ {s} : send_buf'[t] = send_buf[t]
      /\ pushing' \in [Writer -> Sock \cup {NoSock}]
      /\ pushing'[w] = s
      /\ \A v \in Writer \ {w} : pushing'[v] = pushing[v]
      /\ pushing[w] = NoSock
  BY <1>1 DEF TypeOK
<1>3. TypeOK'
  BY <1>2 DEF TypeOK
<1>4. phase[s] = "made"
  BY DEF Unknown, Referenced
<1>5. /\ \A e : Pending(e)' = Pending(e)
      /\ \A t \in Sock \ {s} : t \in Referenced' => t \in Referenced
  BY <1>2 DEF Pending, Referenced
<1>6. Owners' /\ Keys' /\ Walking'
  BY DEF Owners, Keys, Walking
<1>7. Unknown'
  BY <1>2, <1>4, <1>5 DEF Unknown
<1>8. StaleRemoved' /\ RemovedFirst'
  BY <1>5 DEF StaleRemoved, RemovedFirst
<1>9. NoLostWakeup'
  BY <1>2, <1>5, SenderAssumption DEF NoLostWakeup, Attended
<1>10. UnsentStep
  BY DEF UnsentStep
<1> QED
  BY <1>3, <1>6, <1>7, <1>8, <1>9, <1>10 DEF Step

\* The event takes over from the writer.
LEMMA PushKeeps ==
  ASSUME Inv, NEW w \in Writer, push_ADD_DATA(w)
  PROVE  Step
<1> USE DEF Inv, push_ADD_DATA, peers, descriptors
<1>1. pushing[w] \in Sock
  BY DEF TypeOK
<1> DEFINE s == pushing[w]
<1>2. /\ events' \in Seq(Event)
      /\ \A e \in Event : Pending(e)' <=> Pending(e) \/ e = ADD_DATA(s)
      /\ \A i \in DOMAIN events' :
           (i \in DOMAIN events /\ events'[i] = events[i])
             \/ (i = Len(events) + 1 /\ events'[i] = ADD_DATA(s))
      /\ \A i \in DOMAIN events : i <= Len(events)
  BY <1>1, Pushed, Events
<1>3. /\ pushing' \in [Writer -> Sock \cup {NoSock}]
      /\ \A v \in Writer \ {w} : pushing'[v] = pushing[v]
      /\ pushing'[w] = NoSock
  BY DEF TypeOK
<1>4. TypeOK'
  BY <1>2, <1>3 DEF TypeOK
<1>5. Referenced' \subseteq Referenced
  BY <1>1, <1>2, <1>3, Events, SenderAssumption DEF Referenced
<1>6. Owners' /\ Keys' /\ Walking'
  BY DEF Owners, Keys, Walking
<1>7. Unknown'
  BY <1>5 DEF Unknown
<1>8. StaleRemoved'
  BY <1>2, Events DEF StaleRemoved
<1>9. RemovedFirst'
  <2> SUFFICES ASSUME NEW t \in Sock, NEW g \in Fd, m__sock[t] = g,
                      Pending(REMOVE_SOCK(g))'
               PROVE  /\ ~ (g \in DOMAIN ccc /\ ccc[g] = t)
                      /\ \A i, j \in DOMAIN todo :
                           j < i /\ todo[i] = REMOVE_SOCK(g) => todo[j] # ADD_DATA(t)
                      /\ \A i, j \in DOMAIN events' :
                           j < i /\ events'[i] = REMOVE_SOCK(g) => events'[j] # ADD_DATA(t)
                      /\ \A i \in DOMAIN events', j \in DOMAIN todo :
                           events'[i] = REMOVE_SOCK(g) => todo[j] # ADD_DATA(t)
    BY DEF RemovedFirst
  <2>1. Pending(REMOVE_SOCK(g)) /\ REMOVE_SOCK(g) # ADD_DATA(s)
    BY <1>1, <1>2, Events
  <2>2. \A i \in DOMAIN events' : events'[i] = REMOVE_SOCK(g) =>
          i \in DOMAIN events /\ events[i] = REMOVE_SOCK(g)
    BY <1>2, <2>1
  <2>3. \A i, j \in DOMAIN events' : j < i /\ i \in DOMAIN events =>
          j \in DOMAIN events /\ events'[j] = events[j]
    <3>1. events \in Seq(Event) /\ Len(events) \in Nat /\ DOMAIN events = 1..Len(events)
      BY DEF TypeOK
    <3> QED
      BY <1>2, <3>1
  <2> QED
    BY <2>1, <2>2, <2>3 DEF RemovedFirst
<1>10. NoLostWakeup'
  BY <1>1, <1>2, <1>3, Events DEF NoLostWakeup, Attended
<1>11. UnsentStep
  BY DEF UnsentStep
<1> QED
  BY <1>4, <1>6, <1>7, <1>8, <1>9, <1>10, <1>11 DEF Step

\* A peer reads, or goes: nothing the invariant looks at gets worse.
LEMMA PeerKeeps ==
  ASSUME Inv, NEW s \in Sock, peer_reads(s) \/ peer_hangs(s)
  PROVE  Step
<1> USE DEF Inv, peer_reads, peer_hangs, writing, descriptors
<1>0. unread' \in [Sock -> 0..Cap]
  <2>1. /\ unread \in [Sock -> 0..Cap]
        /\ Cap \in Nat
    BY SenderAssumption DEF TypeOK
  <2>2. unread[s] > 0 => unread[s] - 1 \in 0..Cap
    BY <2>1
  <2> QED
    BY <2>1, <2>2
<1>1. TypeOK'
  BY <1>0 DEF TypeOK
<1>2. Referenced' = Referenced /\ \A e : Pending(e)' = Pending(e)
  BY DEF Referenced, Pending
<1>3. Owners' /\ Unknown' /\ Keys' /\ Walking'
  BY <1>2 DEF Owners, Unknown, Keys, Walking
<1>4. StaleRemoved' /\ RemovedFirst' /\ NoLostWakeup'
  BY <1>2 DEF StaleRemoved, RemovedFirst, NoLostWakeup, Attended
<1>5. UnsentStep
  BY DEF UnsentStep
<1> QED
  BY <1>1, <1>3, <1>4, <1>5 DEF Step
-----------------------------------------------------------------------------
(* The steps of sender_proc.                                               *)

\* Starting a walk, taking the queue and polling close nothing.
LEMMA QuietKeeps ==
  ASSUME Inv, cleanup_sockets \/ extract_all \/ Poll \/ poll_fails
  PROVE  Step
<1> USE DEF Inv, cleanup_sockets, extract_all, poll_fails, peers, writing,
            descriptors
<1>1. /\ UNCHANGED <<descriptors, peers, phase, writing, held, ccc>>
      /\ \A e \in Event : Pending(e)' <=> Pending(e)
  <2>1. CASE extract_all
    BY <2>1, Taken DEF Walking
  <2>2. CASE cleanup_sockets \/ Poll \/ poll_fails
    BY <2>2 DEF Poll, do_poll, Pending
  <2> QED
    BY <2>1, <2>2
<1>2. Referenced' = Referenced
  BY <1>1, Events DEF Referenced
<1>3. TypeOK'
  <2>1. CASE cleanup_sockets
    BY <2>1, <1>1 DEF TypeOK
  <2>2. CASE extract_all
    BY <2>2, <1>1 DEF TypeOK
  <2>3. CASE Poll
    BY <2>3, <1>1 DEF Poll, do_poll, TypeOK
  <2>4. CASE poll_fails
    BY <2>4, <1>1 DEF TypeOK
  <2> QED
    BY <2>1, <2>2, <2>3, <2>4
<1>4. Owners' /\ Unknown' /\ Keys' /\ NoLostWakeup'
  BY <1>1, <1>2, Events DEF Owners, Unknown, Keys, NoLostWakeup, Attended
<1>5. Walking'
  <2>1. CASE cleanup_sockets
    BY <2>1, <1>1 DEF Walking
  <2>2. CASE extract_all
    BY <2>2, <1>1 DEF Walking
  <2>3. CASE Poll
    <3>1. PICK full \in BOOLEAN : do_poll(full)
      BY <2>3 DEF Poll
    <3>2. /\ pc' = "send" /\ todo' = <<>>
          /\ DOMAIN visit' \subseteq DOMAIN ccc
          /\ \A k \in DOMAIN visit' :
               visit'[k] = IF "err" \in revents(k) THEN "err" ELSE "out"
      BY <3>1 DEF do_poll
    <3>3. ASSUME NEW k \in DOMAIN visit', visit'[k] = "err", m__sock[ccc[k]] # NoFd
          PROVE  ccc[k] \in hung
      <4>1. "err" \in revents(k) /\ k # NoFd
        BY <3>2, <3>3 DEF revents
      <4>2. m__sock[ccc[k]] = k /\ k \in Fd /\ ccc[k] \in Sock
        BY <3>2, <3>3, <4>1 DEF Keys, TypeOK, Key
      <4>3. owner[k] = ccc[k]
        BY <4>2 DEF Owners
      <4> QED
        BY <4>1, <4>2, <4>3, SenderAssumption DEF revents
    <3> QED
      BY <1>1, <3>2, <3>3 DEF Walking
  <2>4. CASE poll_fails
    BY <2>4, <1>1 DEF Walking
  <2> QED
    BY <2>1, <2>2, <2>3, <2>4
<1>6. StaleRemoved'
  BY <1>1, Events DEF StaleRemoved
<1>7. RemovedFirst'
  <2>1. CASE extract_all
    <3>1. todo = <<>> /\ todo' = events /\ events' = <<>>
      BY <2>1 DEF Walking
    <3> QED
      BY <1>1, <3>1, Events DEF RemovedFirst
  <2>2. CASE cleanup_sockets \/ Poll \/ poll_fails
    <3>1. UNCHANGED <<events, todo>>
      BY <2>2 DEF Poll, do_poll
    <3> QED
      BY <1>1, <3>1, Events DEF RemovedFirst
  <2> QED
    BY <2>1, <2>2
<1>8. UnsentStep
  BY <1>1 DEF UnsentStep
<1> QED
  BY <1>3, <1>4, <1>5, <1>6, <1>7, <1>8 DEF Step

\* Handling an event keeps the order of those behind it.
LEMMA OrderKept ==
  ASSUME Inv, todo # <<>>, todo' = Tail(todo), events' = events,
         \A s \in Sock : m__sock'[s] \in {m__sock[s], NoFd},
         \A f \in Fd : f \in DOMAIN ccc' =>
           \/ f \in DOMAIN ccc /\ ccc'[f] = ccc[f]
           \/ Head(todo) = ADD_DATA(ccc'[f]) /\ ccc'[f] \in Sock
  PROVE  RemovedFirst'
<1> SUFFICES ASSUME NEW s \in Sock, NEW f \in Fd, m__sock'[s] = f,
                    Pending(REMOVE_SOCK(f))'
             PROVE  /\ ~ (f \in DOMAIN ccc' /\ ccc'[f] = s)
                    /\ \A i, j \in DOMAIN todo' :
                         j < i /\ todo'[i] = REMOVE_SOCK(f) => todo'[j] # ADD_DATA(s)
                    /\ \A i, j \in DOMAIN events' :
                         j < i /\ events'[i] = REMOVE_SOCK(f) => events'[j] # ADD_DATA(s)
                    /\ \A i \in DOMAIN events', j \in DOMAIN todo' :
                         events'[i] = REMOVE_SOCK(f) => todo'[j] # ADD_DATA(s)
  BY DEF RemovedFirst
<1>1. m__sock[s] = f
  BY SenderAssumption
<1>2. TypeOK /\ RemovedFirst
  BY DEF Inv
<1>3. /\ Head(todo) = todo[1]
      /\ 1 \in DOMAIN todo
      /\ \A i \in DOMAIN todo' :
           i + 1 \in DOMAIN todo /\ todo'[i] = todo[i + 1] /\ 1 < i + 1
      /\ \A i, j \in DOMAIN todo' : j < i => j + 1 < i + 1
      /\ Pending(REMOVE_SOCK(f))
  BY <1>2, Handled, Events
<1>4. /\ ~ (f \in DOMAIN ccc /\ ccc[f] = s)
      /\ \A i, j \in DOMAIN todo :
           j < i /\ todo[i] = REMOVE_SOCK(f) => todo[j] # ADD_DATA(s)
      /\ \A i, j \in DOMAIN events :
           j < i /\ events[i] = REMOVE_SOCK(f) => events[j] # ADD_DATA(s)
      /\ \A i \in DOMAIN events, j \in DOMAIN todo :
           events[i] = REMOVE_SOCK(f) => todo[j] # ADD_DATA(s)
  BY <1>1, <1>2, <1>3 DEF RemovedFirst
<1>5. todo[1] # ADD_DATA(s)
  <2>1. CASE \E i \in DOMAIN todo' : todo'[i] = REMOVE_SOCK(f)
    BY <2>1, <1>3, <1>4
  <2>2. CASE \E i \in DOMAIN events : events[i] = REMOVE_SOCK(f)
    BY <2>2, <1>3, <1>4
  <2> QED
    BY <2>1, <2>2 DEF Pending
<1> QED
  BY <1>3, <1>4, <1>5

\* The entry of an event is made under the socket's own descriptor, and finds
\* no entry of an earlier owner in its place.
LEMMA AddKeeps ==
  ASSUME Inv, NEW s \in Sock, handle_ADD_DATA(s)
  PROVE  Step
<1> USE DEF Inv, handle_ADD_DATA, peers, writing
<1>1. /\ todo' \in Seq(Event)
      /\ 1 \in DOMAIN todo
      /\ todo[1] = ADD_DATA(s)
      /\ \A e \in Event : Pending(e)' => Pending(e)
      /\ \A e \in Event : Pending(e) => Pending(e)' \/ e = ADD_DATA(s)
  BY Handled
<1>2. /\ m__sock[s] \in Key
      /\ DOMAIN ccc' = DOMAIN ccc \cup {m__sock[s]}
      /\ \A k \in DOMAIN ccc : ccc'[k] = ccc[k]
      /\ m__sock[s] \notin DOMAIN ccc => ccc'[m__sock[s]] = s
      /\ ccc' \in [DOMAIN ccc' -> Sock]
  BY DEF Inserted, TypeOK
<1>3. Pending(ADD_DATA(s))
  BY <1>1 DEF Pending
<1>4. Referenced' \subseteq Referenced
  BY <1>1, <1>2, <1>3, Events DEF Referenced
<1>5. ASSUME NEW f \in Fd, m__sock[s] = f
      PROVE  f \in DOMAIN ccc' /\ ccc'[f] = s
  <2> SUFFICES ASSUME f \in DOMAIN ccc, ccc[f] # s
               PROVE  FALSE
    BY <1>2, <1>5
  <2>1. owner[f] = s /\ phase[s] = "made"
    BY <1>5 DEF Owners
  <2>2. Pending(REMOVE_SOCK(f))
    BY <2>1, SenderAssumption DEF StaleRemoved
  <2>3. \A i \in DOMAIN todo : todo[i] = REMOVE_SOCK(f) => 1 < i
    <3>1. todo[1] # REMOVE_SOCK(f)
      BY <1>1, Events
    <3>2. \A i \in DOMAIN todo : i \in Nat /\ i >= 1
      BY DEF TypeOK
    <3> QED
      BY <3>1, <3>2
  <2> QED
    BY <1>1, <1>5, <2>2, <2>3 DEF RemovedFirst, Pending
<1>6. \A t \in Sock, f \in Fd : m__sock[t] = f /\ send_buf[t] # <<>> => Attended(t, f)'
  <2> SUFFICES ASSUME NEW t \in Sock, NEW f \in Fd, m__sock[t] = f, send_buf[t] # <<>>
               PROVE  Attended(t, f)'
    OBVIOUS
  <2>1. Attended(t, f)
    BY SenderAssumption DEF NoLostWakeup
  <2>2. CASE t = s
    BY <2>2, <1>5 DEF Attended
  <2>3. CASE t # s
    <3>1. Pending(ADD_DATA(t)) => Pending(ADD_DATA(t))'
      BY <1>1, <2>3, Events
    <3> QED
      BY <1>2, <2>1, <3>1 DEF Attended
  <2> QED
    BY <2>2, <2>3
<1>7. \A k \in DOMAIN ccc' : /\ ccc'[k] \in Sock
                             /\ (k \in DOMAIN ccc /\ ccc'[k] = ccc[k]) \/ m__sock[ccc'[k]] = k
  BY <1>2
<1>8. /\ Owners' /\ Unknown' /\ Keys' /\ NoLostWakeup' /\ UnsentStep
      /\ m__sock' \in [Sock -> Key]
      /\ owner' \in [Fd -> Sock \cup {NoSock}]
  BY <1>4, <1>6, <1>7, ClosingKeeps
<1>9. /\ \A t \in Sock : m__sock'[t] \in {m__sock[t], NoFd}
      /\ \A f \in Fd : owner'[f] \in {owner[f], NoSock}
  BY Closing
<1>10. TypeOK'
  BY <1>1, <1>2, <1>8 DEF TypeOK
<1>11. Walking'
  BY <1>2 DEF Walking
<1>12. StaleRemoved'
  <2> SUFFICES ASSUME NEW f \in Fd, f \in DOMAIN ccc', owner'[f] # NoSock,
                      owner'[f] # ccc'[f], phase[owner'[f]] # "accepted"
               PROVE  Pending(REMOVE_SOCK(f))'
    BY DEF StaleRemoved
  <2>1. owner'[f] = owner[f]
    BY <1>9
  <2>2. f \in DOMAIN ccc
    BY <1>2, <1>5, <2>1 DEF Owners
  <2>3. Pending(REMOVE_SOCK(f))
    BY <1>2, <2>1, <2>2 DEF StaleRemoved
  <2> QED
    BY <1>1, <2>3, Events
<1>13. RemovedFirst'
  BY <1>1, <1>2, <1>9, OrderKept
<1> QED
  BY <1>8, <1>10, <1>11, <1>12, <1>13 DEF Step

\* The entry that is removed is not of an open connection.
LEMMA RemoveKeeps ==
  ASSUME Inv, NEW f \in Fd, handle_REMOVE_SOCK(f)
  PROVE  Step
<1> USE DEF Inv, handle_REMOVE_SOCK, peers, writing
<1>1. /\ todo' \in Seq(Event)
      /\ 1 \in DOMAIN todo
      /\ todo[1] = REMOVE_SOCK(f)
      /\ \A e \in Event : Pending(e)' => Pending(e)
      /\ \A e \in Event : Pending(e) => Pending(e)' \/ e = REMOVE_SOCK(f)
  BY Handled
<1>2. /\ DOMAIN ccc' = DOMAIN ccc \ {f}
      /\ \A k \in DOMAIN ccc' : ccc'[k] = ccc[k] /\ ccc[k] \in Sock
      /\ ccc' \in [DOMAIN ccc' -> Sock]
  BY DEF Erased, TypeOK
<1>3. Referenced' \subseteq Referenced
  BY <1>1, <1>2, Events DEF Referenced
<1>4. \A t \in Sock, g \in Fd : m__sock[t] = g /\ send_buf[t] # <<>> => Attended(t, g)'
  <2> SUFFICES ASSUME NEW t \in Sock, NEW g \in Fd, m__sock[t] = g, send_buf[t] # <<>>
               PROVE  Attended(t, g)'
    OBVIOUS
  <2>1. Attended(t, g)
    BY SenderAssumption DEF NoLostWakeup
  <2>2. Pending(ADD_DATA(t)) => Pending(ADD_DATA(t))'
    BY <1>1, Events
  <2>3. Pending(REMOVE_SOCK(f))
    BY <1>1 DEF Pending
  <2>4. g \in DOMAIN ccc /\ ccc[g] = t => g # f
    BY <2>3 DEF RemovedFirst
  <2> QED
    BY <1>2, <2>1, <2>2, <2>4 DEF Attended
<1>5. /\ Owners' /\ Unknown' /\ Keys' /\ NoLostWakeup' /\ UnsentStep
      /\ m__sock' \in [Sock -> Key]
      /\ owner' \in [Fd -> Sock \cup {NoSock}]
  BY <1>2, <1>3, <1>4, ClosingKeeps
<1>6. /\ \A t \in Sock : m__sock'[t] \in {m__sock[t], NoFd}
      /\ \A g \in Fd : owner'[g] \in {owner[g], NoSock}
  BY Closing
<1>7. TypeOK'
  BY <1>1, <1>2, <1>5 DEF TypeOK
<1>8. Walking'
  BY DEF Walking
<1>9. StaleRemoved'
  <2> SUFFICES ASSUME NEW g \in Fd, g \in DOMAIN ccc', owner'[g] # NoSock,
                      owner'[g] # ccc'[g], phase[owner'[g]] # "accepted"
               PROVE  Pending(REMOVE_SOCK(g))'
    BY DEF StaleRemoved
  <2>1. owner'[g] = owner[g] /\ g # f /\ Pending(REMOVE_SOCK(g))
    BY <1>2, <1>6 DEF StaleRemoved
  <2> QED
    BY <1>1, <2>1, Events
<1>10. RemovedFirst'
  BY <1>2, <1>6, OrderKept
<1> QED
  BY <1>5, <1>7, <1>8, <1>9, <1>10 DEF Step

\* Visiting an entry: it goes if its socket is closed, or has nothing to send,
\* or has been hung up on, and only in the last case an open one is closed.
LEMMA VisitKeeps ==
  ASSUME Inv, NEW k \in DOMAIN visit, pc # "handle",
         NEW D \in SUBSET {ccc[k]}, Close(D),
         visit' = Passed(k), ccc' = ccc \/ ccc' = Erased(k),
         UNCHANGED <<hung, phase, pushing, held, events, todo, pc>>,
         unread' \in [Sock -> 0..Cap],
         sent' \in [Sock -> Seq(Unit)],
         send_buf' \in [Sock -> Seq(Unit)],
         \A s \in Sock : send_buf'[s] # <<>> => send_buf[s] # <<>>,
         ccc' = ccc \/ m__sock[ccc[k]] = NoFd \/ send_buf'[ccc[k]] = <<>>
           \/ ccc[k] \in D,
         m__sock[ccc[k]] # NoFd => D = {} \/ ccc[k] \in hung
  PROVE  Step
<1> USE DEF Inv
<1>1. /\ k \in DOMAIN ccc /\ ccc[k] \in Sock
      /\ \A j \in DOMAIN ccc' : j \in DOMAIN ccc /\ ccc'[j] = ccc[j]
      /\ \A j \in DOMAIN ccc : ccc[j] \in Sock
      /\ \A j \in DOMAIN ccc \ {k} : j \in DOMAIN ccc'
      /\ ccc' \in [DOMAIN ccc' -> Sock]
  BY DEF Walking, TypeOK, Erased
<1>2. /\ DOMAIN visit' = DOMAIN visit \ {k}
      /\ \A j \in DOMAIN visit' : visit'[j] = visit[j]
      /\ visit' \in [DOMAIN visit' -> {"look", "err", "out"}]
  BY DEF Passed, TypeOK
<1>3. \A e : Pending(e)' = Pending(e)
  BY DEF Pending
<1>4. Referenced' \subseteq Referenced
  BY <1>1, <1>3 DEF Referenced
<1>5. \A s \in Sock \ D, f \in Fd :
        m__sock[s] = f /\ send_buf'[s] # <<>> => Attended(s, f)'
  <2> SUFFICES ASSUME NEW s \in Sock \ D, NEW f \in Fd, m__sock[s] = f,
                      send_buf'[s] # <<>>
               PROVE  Attended(s, f)'
    OBVIOUS
  <2>1. m__sock[s] # NoFd /\ send_buf[s] # <<>>
    BY SenderAssumption
  <2>2. f \in DOMAIN ccc /\ ccc[f] = s => f \in DOMAIN ccc' /\ ccc'[f] = s
    BY <1>1, <2>1
  <2> QED
    BY <1>3, <2>1, <2>2, StillAttended
<1>6. D \in SUBSET Sock /\ \A s \in D : m__sock[s] # NoFd => s \in held' \cup hung
  BY <1>1
<1>7. /\ Owners' /\ Unknown' /\ Keys' /\ NoLostWakeup' /\ UnsentStep
      /\ m__sock' \in [Sock -> Key]
      /\ owner' \in [Fd -> Sock \cup {NoSock}]
  BY <1>1, <1>4, <1>5, <1>6, ClosingKeeps
<1>8. /\ \A s \in Sock : m__sock'[s] \in {m__sock[s], NoFd}
      /\ \A f \in Fd : owner'[f] \in {owner[f], NoSock}
  BY <1>6, Closing
<1>9. TypeOK'
  BY <1>1, <1>2, <1>7 DEF TypeOK
<1>10. Walking'
  BY <1>1, <1>2, <1>8 DEF Walking
<1>11. StaleRemoved'
  BY <1>1, <1>3, <1>8 DEF StaleRemoved
<1>12. RemovedFirst'
  <2>1. \A s \in Sock, f \in Fd : m__sock'[s] = f => m__sock[s] = f
    BY <1>8, SenderAssumption
  <2>2. \A s \in Sock, f \in Fd :
          f \in DOMAIN ccc' /\ ccc'[f] = s => f \in DOMAIN ccc /\ ccc[f] = s
    BY <1>1
  <2>3. UNCHANGED <<events, todo>>
    OBVIOUS
  <2> QED
    BY ONLY <1>3, <2>1, <2>2, <2>3, RemovedFirst DEF RemovedFirst
<1> QED
  BY <1>7, <1>9, <1>10, <1>11, <1>12 DEF Step

\* The buffers of a visited entry, when nothing is sent.
LEMMA NothingSent ==
  ASSUME Inv, UNCHANGED <<peers, send_buf>>
  PROVE  /\ unread' \in [Sock -> 0..Cap]
         /\ sent' \in [Sock -> Seq(Unit)]
         /\ send_buf' \in [Sock -> Seq(Unit)]
         /\ \A s \in Sock : send_buf'[s] # <<>> => send_buf[s] # <<>>
BY DEF Inv, TypeOK, peers

\* Visiting an entry without touching it or any socket.
LEMMA StepsAside ==
  ASSUME Inv, NEW k \in DOMAIN visit,
         visit' = Passed(k), UNCHANGED <<descriptors, ccc>>,
         UNCHANGED <<hung, phase, pushing, held, events, todo, pc>>,
         UNCHANGED <<peers, send_buf>>
  PROVE  Step
<1> USE DEF Inv, descriptors, peers
<1>1. /\ DOMAIN visit' = DOMAIN visit \ {k}
      /\ \A j \in DOMAIN visit' : visit'[j] = visit[j]
      /\ visit' \in [DOMAIN visit' -> {"look", "err", "out"}]
  BY DEF Passed, TypeOK
<1>2. Referenced' = Referenced /\ \A e : Pending(e)' = Pending(e)
  BY DEF Referenced, Pending
<1>3. TypeOK' /\ Walking'
  BY <1>1 DEF TypeOK, Walking
<1>4. Owners' /\ Unknown' /\ Keys'
  BY <1>2 DEF Owners, Unknown, Keys
<1>5. StaleRemoved' /\ RemovedFirst' /\ NoLostWakeup'
  BY <1>2 DEF StaleRemoved, RemovedFirst, NoLostWakeup, Attended
<1>6. UnsentStep
  BY DEF UnsentStep
<1> QED
  BY <1>3, <1>4, <1>5, <1>6 DEF Step

\* A walk that sends nothing drops the closed and the broken.
LEMMA WalkKeeps ==
  ASSUME Inv, NEW k \in Key,
         cleanup_socket(k) \/ drop_socket(k) \/ skip_closed(k)
           \/ send_EAGAIN(k) \/ send_fails(k)
  PROVE  Step
<1>1. /\ k \in DOMAIN visit /\ pc # "handle"
      /\ visit' = Passed(k)
      /\ UNCHANGED <<hung, phase, pushing, held, events, todo, pc>>
      /\ UNCHANGED <<peers, send_buf>>
  BY DEF cleanup_socket, drop_socket, skip_closed, send_EAGAIN, send_fails,
         writing, peers
<1>2. /\ k \in DOMAIN ccc /\ ccc[k] \in Sock /\ m__sock[ccc[k]] \in {k, NoFd}
      /\ pc \in {"send", "cleanup", "handle"}
  BY <1>1 DEF Inv, Walking, Keys, TypeOK
<1>3. /\ unread' \in [Sock -> 0..Cap]
      /\ sent' \in [Sock -> Seq(Unit)]
      /\ send_buf' \in [Sock -> Seq(Unit)]
      /\ \A s \in Sock : send_buf'[s] # <<>> => send_buf[s] # <<>>
  BY <1>1, NothingSent
<1>4. CASE drop_socket(k)
  <2>1. /\ Close({ccc[k]}) /\ ccc' = Erased(k) /\ visit[k] = "err"
    BY <1>4 DEF drop_socket
  <2>2. m__sock[ccc[k]] # NoFd => ccc[k] \in hung
    BY <1>1, <2>1 DEF Inv, Walking
  <2> QED
    BY <1>1, <1>3, <2>1, <2>2, VisitKeeps
<1>5. CASE skip_closed(k)
  <2>1. /\ Close({}) /\ ccc' = Erased(k) /\ m__sock[ccc[k]] = NoFd
    BY <1>2, <1>5 DEF skip_closed, Ours
  <2> QED
    BY <1>1, <1>3, <2>1, VisitKeeps
<1>6. CASE send_fails(k)
  <2>1. /\ Close({ccc[k]}) /\ ccc' = Erased(k)
        /\ m__sock[ccc[k]] = k
        /\ k # NoFd => owner[k] \in hung \cup {NoSock}
    BY <1>6 DEF send_fails, Ours
  <2>2. k # NoFd => owner[k] = ccc[k]
    BY <1>2, <2>1 DEF Inv, Owners, Key
  <2>3. m__sock[ccc[k]] # NoFd => ccc[k] \in hung
    BY <1>2, <2>1, <2>2, SenderAssumption
  <2> QED
    BY <1>1, <1>3, <2>1, <2>3, VisitKeeps
<1>7. CASE cleanup_socket(k)
  <2>1. CASE m__sock[ccc[k]] # NoFd
    <3>1. UNCHANGED <<descriptors, ccc>>
      BY <1>2, <1>7, <2>1 DEF cleanup_socket
    <3> QED
      BY <1>1, <1>2, <1>3, <3>1, StepsAside
  <2>2. CASE m__sock[ccc[k]] = NoFd
    <3>1. Close({ccc[k]}) /\ ccc' = Erased(k)
      BY <1>7, <2>2 DEF cleanup_socket
    <3> QED
      BY <1>1, <1>3, <2>2, <3>1, VisitKeeps
  <2> QED
    BY <2>1, <2>2
<1>8. CASE send_EAGAIN(k)
  <2>1. UNCHANGED <<descriptors, ccc>>
    BY <1>8 DEF send_EAGAIN
  <2> QED
    BY <1>1, <1>2, <1>3, <2>1, StepsAside
<1> QED
  BY <1>4, <1>5, <1>6, <1>7, <1>8

\* Sending empties a buffer or leaves its socket's entry in place.
LEMMA SendKeeps ==
  ASSUME Inv, NEW k \in Key, NEW n \in 0..Cap, send_to_socket(k, n)
  PROVE  Step
<1> DEFINE s == ccc[k]
<1>1. /\ k \in DOMAIN visit /\ pc # "handle" /\ k \in Fd
      /\ visit' = Passed(k)
      /\ UNCHANGED <<hung, phase, pushing, held, events, todo, pc>>
      /\ Close({})
      /\ m__sock[s] = k
      /\ n \in 0..Len(send_buf[s])
      /\ n <= Cap - unread[owner[k]]
      /\ sent' = [sent EXCEPT ![owner[k]] = @ \o SubSeq(send_buf[s], 1, n)]
      /\ unread' = [unread EXCEPT ![owner[k]] = @ + n]
      /\ send_buf' = [send_buf EXCEPT ![s] = Rest(s, n)]
      /\ ccc' = IF Kept(k, n) THEN ccc ELSE Erased(k)
  BY DEF send_to_socket, Ours, Key
<1>2. /\ k \in DOMAIN ccc /\ s \in Sock
      /\ send_buf[s] \in Seq(Unit)
      /\ Len(send_buf[s]) \in Nat
  BY <1>1 DEF Inv, TypeOK, Walking
<1>3. owner[k] = s
  BY <1>1, <1>2 DEF Inv, Owners
<1>4. /\ SubSeq(send_buf[s], 1, n) \in Seq(Unit)
      /\ Rest(s, n) \in Seq(Unit)
      /\ n = Len(send_buf[s]) => Rest(s, n) = <<>>
      /\ send_buf[s] = <<>> => Rest(s, n) = <<>>
  BY <1>1, <1>2 DEF Rest
<1>5. unread' \in [Sock -> 0..Cap]
  <2>1. unread \in [Sock -> 0..Cap] /\ Cap \in Nat
    BY SenderAssumption DEF Inv, TypeOK
  <2>2. unread[s] + n \in 0..Cap
    BY <1>1, <1>2, <1>3, <2>1
  <2> QED
    BY <1>1, <1>3, <2>1, <2>2
<1>6. sent' \in [Sock -> Seq(Unit)]
  <2>1. sent \in [Sock -> Seq(Unit)]
    BY DEF Inv, TypeOK
  <2>2. sent[s] \o SubSeq(send_buf[s], 1, n) \in Seq(Unit)
    BY <1>2, <1>4, <2>1
  <2> QED
    BY <1>1, <1>3, <2>1, <2>2
<1>7. /\ send_buf' \in [Sock -> Seq(Unit)]
      /\ \A t \in Sock : send_buf'[t] # <<>> => send_buf[t] # <<>>
      /\ ccc' = ccc \/ send_buf'[s] = <<>>
  BY <1>1, <1>2, <1>4 DEF Inv, TypeOK, Kept
<1> HIDE DEF s
<1>8. ccc' = ccc \/ ccc' = Erased(k)
  BY <1>1
<1> QED
  BY <1>1, <1>5, <1>6, <1>7, <1>8, VisitKeeps DEF s
-----------------------------------------------------------------------------
(* The specification's invariants and action property.                     *)

\* Nothing is open, queued or polled at the start.
LEMMA InitKeeps ==
  ASSUME Init
  PROVE  Inv
<1>1. \A e : ~ Pending(e)
  BY DEF Init, Pending
<1>2. Referenced = {}
  BY <1>1 DEF Init, Referenced, TypeOK
<1>3. TypeOK
  BY DEF Init, TypeOK, Key
<1> QED
  BY <1>1, <1>2, <1>3 DEF Init, Inv, Owners, Unknown, Keys, Walking,
     StaleRemoved, RemovedFirst, NoLostWakeup

\* A step that changes nothing keeps all.
LEMMA StutterKeeps ==
  ASSUME Inv, UNCHANGED vars
  PROVE  Inv'
<1> USE DEF vars, descriptors, peers, writing
<1>1. Referenced' = Referenced /\ \A e : Pending(e)' = Pending(e)
  BY DEF Referenced, Pending
<1> QED
  BY <1>1 DEF Inv, TypeOK, Owners, Unknown, Keys, Walking, StaleRemoved,
     RemovedFirst, NoLostWakeup, Attended

\* Every action keeps the invariant and closes as UnsentStep says.
LEMMA NextKeeps ==
  ASSUME Inv, Next
  PROVE  Step
<1>1. CASE Others
  BY <1>1, AcceptKeeps, AnnounceKeeps, MakeKeeps, DisconnectKeeps,
     ReleaseKeeps, PeerKeeps, PushKeeps, WriteKeeps DEF Others
<1>2. CASE cleanup_sockets \/ extract_all \/ Poll \/ poll_fails
  BY <1>2, QuietKeeps
<1>3. CASE Handle
  BY <1>3, AddKeeps, RemoveKeeps DEF Handle
<1>4. CASE Walk
  BY <1>4, WalkKeeps, SendKeeps DEF Walk
<1> QED
  BY <1>1, <1>2, <1>3, <1>4 DEF Next

\* The invariant is inductive.
THEOREM SenderInvariant == Spec => []Inv
<1>1. Init => Inv
  BY InitKeeps
<1>2. Inv /\ [Next]_vars => Inv'
  BY NextKeeps, StutterKeeps DEF Step
<1> QED
  BY <1>1, <1>2, PTL DEF Spec

\* All variables of the sender keep their types.
THEOREM SenderIsTyped == Spec => []TypeOK
<1>1. Inv => TypeOK
  BY DEF Inv
<1> QED
  BY <1>1, SenderInvariant, PTL

\* tcp_sender.cpp: an open connection with output left always has an entry,
\* an event in the queue or a writer about to push one.
THEOREM WakeupsKept == Spec => []NoLostWakeup
<1>1. Inv => NoLostWakeup
  BY DEF Inv
<1> QED
  BY <1>1, SenderInvariant, PTL

\* ~c_socket: a connection only the sender holds is closed with output in it
\* only if its peer has gone.
THEOREM UnsentKept == Spec => KeepsUnsent
<1>1. Inv /\ [Next]_vars => [UnsentStep]_vars
  BY NextKeeps DEF Step
<1> QED
  BY <1>1, SenderInvariant, PTL DEF Spec, KeepsUnsent
-----------------------------------------------------------------------------
(* Refinement: a peer is given what was written to its connection.         *)

\* What was written to s: the value the abstract out has.
Out(s) == sent[s] \o send_buf[s]

\* Appending to the second of two sequences appends to both.
LEMMA AppendAfter ==
  ASSUME NEW S, NEW a \in Seq(S), NEW b \in Seq(S), NEW u \in S
  PROVE  /\ a \o b \in Seq(S)
         /\ Len(a \o b) = Len(a) + Len(b)
         /\ a \o Append(b, u) = Append(a \o b, u)
OBVIOUS

\* The elements of the concatenation of two sequences.
LEMMA Joined ==
  ASSUME NEW S, NEW a \in Seq(S), NEW b \in Seq(S)
  PROVE  /\ a \o b \in Seq(S) /\ Len(a \o b) = Len(a) + Len(b)
         /\ \A i \in 1..Len(a) : (a \o b)[i] = a[i]
         /\ \A i \in 1..Len(b) : (a \o b)[Len(a) + i] = b[i]
OBVIOUS

\* Moving the first n of b to the end of a keeps the whole.
LEMMA Moved ==
  ASSUME NEW S, NEW a \in Seq(S), NEW b \in Seq(S), NEW n \in 0..Len(b)
  PROVE  /\ (a \o SubSeq(b, 1, n)) \o SubSeq(b, n + 1, Len(b)) = a \o b
         /\ a \o SubSeq(b, 1, n) = SubSeq(a \o b, 1, Len(a) + n)
<1> DEFINE d == SubSeq(b, 1, n)
           r == SubSeq(b, n + 1, Len(b))
<1>1. /\ d \in Seq(S) /\ Len(d) = n
      /\ r \in Seq(S)
      /\ Len(a) \in Nat /\ Len(b) \in Nat
      /\ \A i \in 1..n : d[i] = b[i]
  OBVIOUS
<1>2. d \o r = b
  <2>1. SubSeq(b, 1, n) \o SubSeq(b, n + 1, Len(b)) = SubSeq(b, 1, Len(b))
    <3>1. 1 \in 1..Len(b) + 1 /\ n \in 1 - 1 .. Len(b) /\ Len(b) \in n .. Len(b)
      BY <1>1
    <3> QED
      BY <3>1, ConcatAdjacentSubSeq
  <2>2. SubSeq(b, 1, Len(b)) = b
    BY SubSeqFull
  <2> QED
    BY <2>1, <2>2
<1>3. (a \o d) \o r = a \o (d \o r)
  <2> HIDE DEF d, r
  <2> QED
    BY <1>1, ConcatAssociative
<1> DEFINE c == a \o d
           m == Len(a) + n
           e == SubSeq(a \o b, 1, m)
<1>4. /\ c \in Seq(S) /\ Len(c) = m
      /\ \A i \in 1..Len(a) : c[i] = a[i]
      /\ \A i \in 1..n : c[Len(a) + i] = d[i]
  <2> HIDE DEF d
  <2>1. d \in Seq(S)
    BY <1>1
  <2>2. /\ a \o d \in Seq(S) /\ Len(a \o d) = Len(a) + Len(d)
        /\ \A i \in 1..Len(a) : (a \o d)[i] = a[i]
        /\ \A i \in 1..Len(d) : (a \o d)[Len(a) + i] = d[i]
    BY <2>1, Joined
  <2> QED
    BY <1>1, <2>2
<1>5. /\ a \o b \in Seq(S)
      /\ Len(a \o b) = Len(a) + Len(b)
      /\ \A i \in 1..Len(a) : (a \o b)[i] = a[i]
      /\ \A i \in 1..Len(b) : (a \o b)[Len(a) + i] = b[i]
  BY Joined
<1>6. /\ e \in Seq(S) /\ Len(e) = m
      /\ \A i \in 1..m : e[i] = (a \o b)[i]
  BY <1>1, <1>5
<1> HIDE DEF c, d, e
<1>7. ASSUME NEW i \in 1..m
      PROVE  c[i] = e[i]
  <2>1. CASE i \in 1..Len(a)
    BY <1>1, <1>4, <1>5, <1>6, <2>1
  <2>2. CASE i \notin 1..Len(a)
    <3>1. PICK j \in 1..n : i = Len(a) + j
      <4>1. i - Len(a) \in 1..n /\ i = Len(a) + (i - Len(a))
        BY <1>1, <2>2
      <4> QED
        BY <4>1
    <3>2. j \in 1..Len(b)
      BY <1>1
    <3> QED
      BY <1>1, <1>4, <1>5, <1>6, <3>1, <3>2
  <2> QED
    BY <2>1, <2>2
<1>8. c = e
  <2> HIDE DEF m
  <2> QED
    BY <1>4, <1>6, <1>7, SeqEqual
<1> QED
  BY <1>2, <1>3, <1>8 DEF c, d, e

\* Sequences of units.
LEMMA Outs ==
  ASSUME TypeOK, NEW s \in Sock
  PROVE  /\ sent[s] \in Seq(Unit) /\ send_buf[s] \in Seq(Unit)
         /\ Out(s) \in Seq(Unit)
         /\ Len(Out(s)) = Len(sent[s]) + Len(send_buf[s])
<1>1. sent[s] \in Seq(Unit) /\ send_buf[s] \in Seq(Unit)
  BY DEF TypeOK
<1> QED
  BY <1>1 DEF Out

\* A written unit is the next of the stream.
LEMMA WriteWrites ==
  ASSUME Inv, NEW w \in Writer, NEW s \in Sock, write_data(w, s)
  PROVE  Stream!Write(s)
<1> DEFINE a == sent[s]
           b == send_buf[s]
           u == <<s, Len(a) + Len(b) + 1>>
<1>1. /\ send_buf \in [Sock -> Seq(Unit)]
      /\ send_buf' = [send_buf EXCEPT ![s] = Append(b, u)]
      /\ sent' = sent
  BY DEF write_data, peers, Inv, TypeOK
<1>2. a \in Seq(Unit) /\ b \in Seq(Unit) /\ Out(s) = a \o b
  BY Outs DEF Inv, Out
<1>3. [t \in Sock |-> Out(t)]' = [[t \in Sock |-> Out(t)] EXCEPT ![s] = a \o Append(b, u)]
  BY <1>1 DEF Out
<1>4. u = <<s, Len(Out(s)) + 1>> /\ a \o Append(b, u) = Append(Out(s), u)
  <2> HIDE DEF a, b
  <2>1. Len(a \o b) = Len(a) + Len(b)
    BY <1>2, AppendAfter
  <2>2. Len(a) \in Nat /\ Len(b) \in Nat
    BY <1>2
  <2>3. u \in Unit
    BY <2>2 DEF Unit
  <2> HIDE DEF u
  <2>4. a \o Append(b, u) = Append(a \o b, u)
    BY <1>2, <2>3, AppendAfter
  <2> QED
    BY <1>2, <2>1, <2>4 DEF u
<1> HIDE DEF u
<1> QED
  BY <1>1, <1>3, <1>4 DEF Stream!Write, Out

\* A successful send carries the stream on.
LEMMA SendCarries ==
  ASSUME Inv, NEW k \in Key, NEW n \in 0..Cap, send_to_socket(k, n)
  PROVE  \/ \E s \in Sock : Stream!Carry(s)
         \/ UNCHANGED <<sent, send_buf>>
<1> DEFINE s == ccc[k]
<1>1. /\ k \in DOMAIN visit /\ k \in Fd
      /\ m__sock[s] = k
      /\ n \in 0..Len(send_buf[s])
      /\ n = 0 => send_buf[s] = <<>>
      /\ sent' = [sent EXCEPT ![owner[k]] = @ \o SubSeq(send_buf[s], 1, n)]
      /\ send_buf' = [send_buf EXCEPT ![s] = Rest(s, n)]
  BY DEF send_to_socket, Ours, Key
<1>2. s \in Sock
  BY <1>1 DEF Inv, TypeOK, Walking
<1>3. owner[k] = s
  BY <1>1, <1>2 DEF Inv, Owners
<1> HIDE DEF s
<1>4. /\ sent \in [Sock -> Seq(Unit)] /\ send_buf \in [Sock -> Seq(Unit)]
      /\ sent[s] \in Seq(Unit) /\ send_buf[s] \in Seq(Unit)
      /\ Out(s) \in Seq(Unit)
      /\ Len(Out(s)) = Len(sent[s]) + Len(send_buf[s])
      /\ Len(sent[s]) \in Nat /\ Len(send_buf[s]) \in Nat
  BY <1>2, Outs DEF Inv, TypeOK
<1> DEFINE b == send_buf[s]
           a == SubSeq(b, 1, n)
<1>5. /\ (sent[s] \o a) \o Rest(s, n) = Out(s)
      /\ sent[s] \o a = SubSeq(Out(s), 1, Len(sent[s]) + n)
  <2>1. sent[s] \in Seq(Unit) /\ b \in Seq(Unit) /\ n \in 0..Len(b)
    BY <1>1, <1>4
  <2>2. /\ (sent[s] \o SubSeq(b, 1, n)) \o SubSeq(b, n + 1, Len(b)) = sent[s] \o b
        /\ sent[s] \o SubSeq(b, 1, n) = SubSeq(sent[s] \o b, 1, Len(sent[s]) + n)
    <3> HIDE DEF b
    <3> QED
      BY <2>1, Moved
  <2> QED
    BY <2>2 DEF Out, Rest
<1>6. /\ sent'[s] = sent[s] \o a
      /\ send_buf'[s] = Rest(s, n)
      /\ sent' = [sent EXCEPT ![s] = sent[s] \o a]
      /\ \A t \in Sock \ {s} : sent'[t] = sent[t] /\ send_buf'[t] = send_buf[t]
  BY <1>1, <1>2, <1>3, <1>4
<1>7. \A t \in Sock : Out(t)' = Out(t)
  BY <1>5, <1>6 DEF Out
<1>8. CASE n = 0
  <2>1. b = <<>> /\ a = <<>> /\ Rest(s, n) = <<>>
    BY <1>1, <1>8, <1>4 DEF Rest
  <2>2. sent[s] \o a = sent[s]
    BY <1>4, <2>1, ConcatEmptySeq
  <2>3. sent' = sent
    BY <1>4, <1>6, <2>2
  <2>4. send_buf' = send_buf
    BY <1>1, <1>4, <2>1
  <2> QED
    BY <2>3, <2>4
<1>9. CASE n # 0
  <2> DEFINE m == Len(sent[s]) + n
  <2>1. m \in Len(sent[s]) + 1 .. Len(Out(s))
    BY <1>1, <1>4, <1>9
  <2>2. [t \in Sock |-> Out(t)]' = [t \in Sock |-> Out(t)]
    BY <1>7
  <2>3. sent' = [sent EXCEPT ![s] = SubSeq(Out(s), 1, m)]
    BY <1>5, <1>6
  <2> HIDE DEF m
  <2>4. Stream!Carry(s)
    BY <1>2, <2>1, <2>2, <2>3 DEF Stream!Carry, Out
  <2> QED
    BY <1>2, <2>4
<1> QED
  BY <1>8, <1>9

\* No other step writes or sends.
LEMMA OthersQuiet ==
  ASSUME Inv, Next,
         \A w \in Writer, s \in Sock : ~ write_data(w, s),
         \A k \in Key, n \in 0..Cap : ~ send_to_socket(k, n)
  PROVE  UNCHANGED <<sent, send_buf>>
<1> USE DEF peers, writing
<1>1. CASE Others
  BY <1>1 DEF Others, accept, on_socket_create, new_c_socket, disconnect,
     release, peer_reads, peer_hangs, push_ADD_DATA
<1>2. CASE cleanup_sockets \/ extract_all \/ Handle \/ Poll \/ poll_fails
  BY <1>2 DEF cleanup_sockets, extract_all, Handle, handle_ADD_DATA,
     handle_REMOVE_SOCK, Poll, do_poll, poll_fails
<1>3. CASE Walk
  BY <1>3 DEF Walk, cleanup_socket, drop_socket, skip_closed, send_EAGAIN,
     send_fails
<1> QED
  BY <1>1, <1>2, <1>3 DEF Next

\* send_to_socket: whatever becomes of descriptors, each peer is given what
\* was written to its own connection, each unit once and in order.
THEOREM OutputInOrder == Spec => StreamSpec
<1>1. Init => Stream!Init
  BY DEF Init, Stream!Init
<1>2. Inv /\ [Next]_vars => [Stream!Next]_(Stream!vars)
  <2> SUFFICES ASSUME Inv, [Next]_vars
               PROVE  Stream!Next \/ UNCHANGED Stream!vars
    OBVIOUS
  <2>1. CASE UNCHANGED <<sent, send_buf>>
    BY <2>1 DEF Stream!vars
  <2>2. ASSUME NEW w \in Writer, NEW s \in Sock, write_data(w, s)
        PROVE  Stream!Next
    BY <2>2, WriteWrites DEF Stream!Next
  <2>3. ASSUME NEW k \in Key, NEW n \in 0..Cap, send_to_socket(k, n)
        PROVE  Stream!Next \/ UNCHANGED <<sent, send_buf>>
    BY <2>3, SendCarries DEF Stream!Next
  <2>4. CASE UNCHANGED vars
    BY <2>1, <2>4 DEF vars, peers, writing
  <2>5. CASE Next
    BY <2>1, <2>2, <2>3, <2>5, OthersQuiet
  <2> QED
    BY <2>4, <2>5
<1> QED
  BY <1>1, <1>2, SenderInvariant, PTL DEF Spec, StreamSpec, Stream!Spec

\* Both, as the runs check them: what was written to a connection reaches its
\* peer in order, and the sender closes it only when all has gone out.
THEOREM StreamIsKept == Spec => StreamKept
BY OutputInOrder, UnsentKept DEF StreamKept
-----------------------------------------------------------------------------
(* Web: the bytes of a request.                                              *)

HIDE SenderAssumption

\* How many places of K are up to k.
Rank(K, k) == Cardinality({j \in K : j <= k})

\* f counts the places of K, from the first to the m-th and last.
Enumerates(f, m, K) ==
  /\ f \in [1..m -> K]
  /\ \A i, j \in 1..m : i < j => f[i] < f[j]
  /\ \A k \in K : \E i \in 1..m : f[i] = k

\* The places of a sequence are finitely many.
LEMMA PlacesFinite ==
  ASSUME NEW n \in Nat, NEW K \in SUBSET (1..n)
  PROVE  /\ IsFiniteSet(K) /\ Cardinality(K) \in Nat
         /\ \A k : IsFiniteSet({j \in K : j <= k}) /\ Rank(K, k) \in Nat
<1>1. IsFiniteSet(1..n)
  BY FS_Interval
<1>2. IsFiniteSet(K)
  BY <1>1, FS_Subset
<1>3. ASSUME NEW k PROVE IsFiniteSet({j \in K : j <= k}) /\ Rank(K, k) \in Nat
  <2>1. {j \in K : j <= k} \in SUBSET K
    OBVIOUS
  <2>2. IsFiniteSet({j \in K : j <= k})
    BY <1>2, <2>1, FS_Subset
  <2> QED
    BY <2>2, FS_CardinalityType DEF Rank
<1> QED
  BY <1>2, <1>3, FS_CardinalityType

\* A later place has a greater rank.
LEMMA RankGrows ==
  ASSUME NEW n \in Nat, NEW K \in SUBSET (1..n), NEW k \in K, NEW l \in K, k < l
  PROVE  Rank(K, k) < Rank(K, l)
<1> DEFINE A == {j \in K : j <= k}
           B == {j \in K : j <= l}
<1>1. IsFiniteSet(A) /\ IsFiniteSet(B)
  BY PlacesFinite
<1>2. A \in SUBSET B
  <2>1. ASSUME NEW j \in K, j <= k PROVE j <= l
    <3>1. j \in Nat /\ k \in Nat /\ l \in Nat
      OBVIOUS
    <3> QED
      BY <2>1, <3>1
  <2> QED
    BY <2>1
<1>3. A # B
  <2>1. l \in B /\ l \notin A
    OBVIOUS
  <2> QED
    BY <2>1
<1>4. Cardinality(A) <= Cardinality(B) /\ Cardinality(A) # Cardinality(B)
  <2> HIDE DEF A, B
  <2> QED
    BY <1>1, <1>2, <1>3, FS_Subset
<1>5. Cardinality(A) \in Nat /\ Cardinality(B) \in Nat
  BY <1>1, FS_CardinalityType
<1>6. Rank(K, k) = Cardinality(A) /\ Rank(K, l) = Cardinality(B)
  BY DEF Rank
<1> HIDE DEF A, B
<1> QED
  BY <1>4, <1>5, <1>6

\* Who counts the places finds their number, and the rank of each.
LEMMA Counted ==
  ASSUME NEW n \in Nat, NEW K \in SUBSET (1..n), NEW m \in Nat, NEW f, Enumerates(f, m, K)
  PROVE  /\ Cardinality(K) = m
         /\ \A i \in 1..m : Rank(K, f[i]) = i
<1>1. f \in [1..m -> K] /\ (\A i, j \in 1..m : i < j => f[i] < f[j])
      /\ \A k \in K : \E i \in 1..m : f[i] = k
  BY DEF Enumerates
<1>0. ASSUME NEW i \in 1..m PROVE f[i] \in K /\ f[i] \in Nat
  <2>1. f[i] \in K
    BY <1>1
  <2>2. \A k \in K : k \in Nat
    OBVIOUS
  <2> QED
    BY <2>1, <2>2
<1>2. ASSUME NEW i \in 0..m, NEW S, S = {f[x] : x \in 1..i}
      PROVE  Cardinality(S) = i
  <2> DEFINE g == [x \in 1..i |-> f[x]]
  <2>1. g \in [1..i -> S]
    BY <1>1, <1>2
  <2>2. \A x, y \in 1..i : g[x] = g[y] => x = y
    <3> SUFFICES ASSUME NEW x \in 1..i, NEW y \in 1..i, x # y PROVE g[x] # g[y]
      OBVIOUS
    <3>1. x \in 1..m /\ y \in 1..m /\ f[x] \in Nat /\ f[y] \in Nat
      <4>1. x \in 1..m /\ y \in 1..m
        OBVIOUS
      <4> QED
        BY <1>0, <4>1
    <3>2. x < y \/ y < x
      OBVIOUS
    <3>3. f[x] < f[y] \/ f[y] < f[x]
      BY <1>1, <3>1, <3>2
    <3> QED
      BY <3>1, <3>3
  <2>3. \A s \in S : \E x \in 1..i : g[x] = s
    BY <1>2
  <2>4. g \in Bijection(1..i, S)
    BY <2>1, <2>2, <2>3 DEF Bijection, Injection, Surjection, IsInjective
  <2>5. ExistsBijection(1..i, S)
    BY <2>4 DEF ExistsBijection
  <2> QED
    BY <2>5, FS_CountingElements
<1>3. Cardinality(K) = m
  <2>1. K = {f[x] : x \in 1..m}
    BY <1>1
  <2> QED
    BY <1>2, <2>1
<1>4. ASSUME NEW i \in 1..m PROVE Rank(K, f[i]) = i
  <2>1. ASSUME NEW x \in 1..m PROVE f[x] <= f[i] <=> x <= i
    <3>1. f[x] \in Nat /\ f[i] \in Nat
      BY <1>0
    <3>2. (x < i => f[x] < f[i]) /\ (i < x => f[i] < f[x])
      BY <1>1
    <3> QED
      BY <3>1, <3>2
  <2>2. {j \in K : j <= f[i]} = {f[x] : x \in 1..i}
    <3>1. ASSUME NEW j \in K, j <= f[i] PROVE j \in {f[x] : x \in 1..i}
      <4>1. PICK x \in 1..m : f[x] = j
        BY <1>1
      <4>2. x \in 1..i
        BY <2>1, <3>1, <4>1
      <4> QED
        BY <4>1, <4>2
    <3>2. ASSUME NEW x \in 1..i PROVE f[x] \in K /\ f[x] <= f[i]
      <4>1. x \in 1..m /\ x <= i
        OBVIOUS
      <4> QED
        BY <1>1, <2>1, <4>1
    <3> QED
      BY <3>1, <3>2
  <2> QED
    BY <1>2, <2>2 DEF Rank
<1> QED
  BY <1>3, <1>4

\* The place of a rank is the only one of that rank.
LEMMA NthOfRank ==
  ASSUME NEW n \in Nat, NEW K \in SUBSET (1..n), NEW k \in K
  PROVE  Nth(K, Rank(K, k)) = k
<1>1. ASSUME NEW l \in K, Rank(K, l) = Rank(K, k) PROVE l = k
  <2>1. Rank(K, k) \in Nat
    BY PlacesFinite
  <2>2. l < k => Rank(K, l) < Rank(K, k)
    BY RankGrows
  <2>3. k < l => Rank(K, k) < Rank(K, l)
    BY RankGrows
  <2>4. k \in Nat /\ l \in Nat
    OBVIOUS
  <2> QED
    BY <1>1, <2>1, <2>2, <2>3, <2>4
<1>2. Nth(K, Rank(K, k)) = CHOOSE l \in K : Rank(K, l) = Rank(K, k)
  BY DEF Nth, Rank
<1> QED
  BY <1>1, <1>2

\* The i-th place is the i-th of any counting of the places.
LEMMA NthIs ==
  ASSUME NEW n \in Nat, NEW K \in SUBSET (1..n), NEW m \in Nat, NEW f, Enumerates(f, m, K)
  PROVE  Cardinality(K) = m /\ \A i \in 1..m : Nth(K, i) = f[i]
<1>1. Cardinality(K) = m /\ \A i \in 1..m : Rank(K, f[i]) = i
  BY Counted
<1>2. ASSUME NEW i \in 1..m PROVE Nth(K, i) = f[i]
  <2>1. f[i] \in K
    BY DEF Enumerates
  <2>2. Nth(K, Rank(K, f[i])) = f[i]
    BY <2>1, NthOfRank
  <2> QED
    BY <1>1, <2>2
<1> QED
  BY <1>1, <1>2

\* Places can be counted.
LEMMA CanCount ==
  ASSUME NEW n \in Nat, NEW K \in SUBSET (1..n)
  PROVE  Enumerates([i \in 1..Cardinality(K) |-> Nth(K, i)], Cardinality(K), K)
<1> DEFINE m == Cardinality(K)
           r == [k \in K |-> Rank(K, k)]
<1>1. IsFiniteSet(K) /\ m \in Nat /\ IsFiniteSet(1..m) /\ Cardinality(1..m) = m
  <2>1. IsFiniteSet(K) /\ m \in Nat
    BY PlacesFinite
  <2>2. IsFiniteSet(1..m) /\ Cardinality(1..m) = m
    <3> HIDE DEF m
    <3> QED
      BY <2>1, FS_Interval
  <2> QED
    BY <2>1, <2>2
<1>2. ASSUME NEW k \in K PROVE Rank(K, k) \in 1..m
  <2> DEFINE A == {j \in K : j <= k}
  <2>1. IsFiniteSet(A) /\ A \in SUBSET K /\ A # {}
    <3>1. k \in A
      OBVIOUS
    <3> QED
      BY <3>1, PlacesFinite
  <2>2. Cardinality(A) <= m /\ Cardinality(A) # 0 /\ Cardinality(A) \in Nat
    <3> HIDE DEF A
    <3> QED
      BY <1>1, <2>1, FS_Subset, FS_EmptySet, FS_CardinalityType
  <2>3. Rank(K, k) = Cardinality(A)
    BY DEF Rank
  <2> HIDE DEF A, m
  <2> QED
    BY <1>1, <2>2, <2>3
<1>3. r \in Injection(K, 1..m)
  <2>1. r \in [K -> 1..m]
    BY <1>2
  <2>2. \A k, l \in K : r[k] = r[l] => k = l
    <3> SUFFICES ASSUME NEW k \in K, NEW l \in K, Rank(K, k) = Rank(K, l) PROVE k = l
      OBVIOUS
    <3> QED
      BY NthOfRank
  <2> HIDE DEF r, m
  <2> QED
    BY <2>1, <2>2 DEF Injection, IsInjective
<1>4. r \in Surjection(K, 1..m)
  <2> DEFINE T == 1..m
  <2>1. r \in Injection(K, T) /\ IsFiniteSet(T) /\ Cardinality(K) = Cardinality(T)
    BY <1>1, <1>3
  <2> HIDE DEF r, m, T
  <2>2. r \in Surjection(K, T)
    BY <2>1, FS_Injection
  <2> QED
    BY <2>2 DEF T
<1>5. ASSUME NEW i \in 1..m PROVE Nth(K, i) \in K /\ Rank(K, Nth(K, i)) = i
  <2>1. PICK k \in K : r[k] = i
    <3> HIDE DEF r, m
    <3> QED
      BY <1>4 DEF Surjection
  <2>2. Rank(K, k) = i
    BY <2>1
  <2>3. Nth(K, i) = k
    BY <2>2, NthOfRank
  <2> QED
    BY <2>2, <2>3
<1>6. ASSUME NEW i \in 1..m, NEW j \in 1..m, i < j PROVE Nth(K, i) < Nth(K, j)
  <2>1. Nth(K, i) \in K /\ Nth(K, j) \in K /\ Rank(K, Nth(K, i)) = i /\ Rank(K, Nth(K, j)) = j
    BY <1>5
  <2>2. Nth(K, i) # Nth(K, j)
    BY <1>6, <2>1
  <2>3. Nth(K, j) < Nth(K, i) => Rank(K, Nth(K, j)) < Rank(K, Nth(K, i))
    BY <2>1, RankGrows
  <2>4. ~ (j < i)
    BY <1>1, <1>6
  <2>5. ~ (Nth(K, j) < Nth(K, i))
    BY <2>1, <2>3, <2>4
  <2>6. Nth(K, i) \in Nat /\ Nth(K, j) \in Nat
    <3>1. \A k \in K : k \in Nat
      OBVIOUS
    <3> QED
      BY <2>1, <3>1
  <2> QED
    BY <2>2, <2>5, <2>6
<1>7. ASSUME NEW k \in K PROVE \E i \in 1..m : Nth(K, i) = k
  BY <1>2, <1>7, NthOfRank
<1> HIDE DEF m
<1>8. Enumerates([i \in 1..m |-> Nth(K, i)], m, K)
  BY <1>5, <1>6, <1>7 DEF Enumerates
<1> QED
  BY <1>8 DEF m

\* Places chosen first, then later ones.
LEMMA ChosenUnion ==
  ASSUME NEW n \in Nat, NEW K \in SUBSET (1..n), NEW L \in SUBSET (1..n),
         \A k \in K, l \in L : k < l, NEW s
  PROVE  Chosen(s, K \cup L) = Chosen(s, K) \o Chosen(s, L)
<1> DEFINE a == Cardinality(K)
           b == Cardinality(L)
           f == [i \in 1..(a + b) |-> IF i <= a THEN Nth(K, i) ELSE Nth(L, i - a)]
<1>1. a \in Nat /\ b \in Nat
  BY PlacesFinite
<1>2. Enumerates([i \in 1..a |-> Nth(K, i)], a, K) /\ Enumerates([i \in 1..b |-> Nth(L, i)], b, L)
  BY CanCount
<1>3. Chosen(s, K) = [i \in 1..a |-> s[Nth(K, i)]] /\ Chosen(s, L) = [i \in 1..b |-> s[Nth(L, i)]]
  BY DEF Chosen
<1> HIDE DEF a, b
<1>4. /\ \A i \in 1..a : Nth(K, i) \in K
      /\ \A i, j \in 1..a : i < j => Nth(K, i) < Nth(K, j)
      /\ \A k \in K : \E i \in 1..a : Nth(K, i) = k
  BY <1>2 DEF Enumerates
<1>5. /\ \A i \in 1..b : Nth(L, i) \in L
      /\ \A i, j \in 1..b : i < j => Nth(L, i) < Nth(L, j)
      /\ \A k \in L : \E i \in 1..b : Nth(L, i) = k
  BY <1>2 DEF Enumerates
<1>6. Enumerates(f, a + b, K \cup L)
  <2>1. f \in [1..(a + b) -> K \cup L]
    <3> SUFFICES ASSUME NEW i \in 1..(a + b) PROVE f[i] \in K \cup L
      OBVIOUS
    <3>1. i <= a => i \in 1..a
      BY <1>1
    <3>2. ~ (i <= a) => i - a \in 1..b
      BY <1>1
    <3> QED
      BY <1>4, <1>5, <3>1, <3>2
  <2>2. ASSUME NEW i \in 1..(a + b), NEW j \in 1..(a + b), i < j PROVE f[i] < f[j]
    <3>1. CASE j <= a
      <4>1. i \in 1..a /\ j \in 1..a
        BY <1>1, <2>2, <3>1
      <4>2. f[i] = Nth(K, i) /\ f[j] = Nth(K, j)
        BY <4>1
      <4> QED
        BY <1>4, <2>2, <4>1, <4>2
    <3>2. CASE i <= a /\ ~ (j <= a)
      <4>1. i \in 1..a /\ j - a \in 1..b
        BY <1>1, <3>2
      <4>2. f[i] = Nth(K, i) /\ f[j] = Nth(L, j - a)
        BY <3>2
      <4> QED
        BY <1>4, <1>5, <4>1, <4>2
    <3>3. CASE ~ (i <= a)
      <4>1. i - a \in 1..b /\ j - a \in 1..b /\ i - a < j - a /\ ~ (j <= a)
        BY <1>1, <2>2, <3>3
      <4>2. f[i] = Nth(L, i - a) /\ f[j] = Nth(L, j - a)
        BY <3>3, <4>1
      <4> QED
        BY <1>5, <4>1, <4>2
    <3> QED
      BY <3>1, <3>2, <3>3
  <2>3. ASSUME NEW k \in K \cup L PROVE \E i \in 1..(a + b) : f[i] = k
    <3>1. CASE k \in K
      <4>1. PICK i \in 1..a : Nth(K, i) = k
        BY <1>4, <3>1
      <4>2. i \in 1..(a + b) /\ f[i] = k
        BY <1>1, <4>1
      <4> QED
        BY <4>2
    <3>2. CASE k \in L
      <4>1. PICK i \in 1..b : Nth(L, i) = k
        BY <1>5, <3>2
      <4>2. i + a \in 1..(a + b) /\ ~ (i + a <= a) /\ (i + a) - a = i
        BY <1>1
      <4>3. f[i + a] = k
        BY <4>1, <4>2
      <4> QED
        BY <4>2, <4>3
    <3> QED
      BY <3>1, <3>2
  <2> HIDE DEF f
  <2> QED
    BY <2>1, <2>2, <2>3 DEF Enumerates
<1>7. Chosen(s, K \cup L) = [i \in 1..(a + b) |-> s[f[i]]]
  <2> DEFINE KL == K \cup L
             c == a + b
  <2>1. KL \in SUBSET (1..n) /\ c \in Nat /\ Enumerates(f, c, KL)
    BY <1>1, <1>6
  <2> HIDE DEF f, KL, c
  <2>2. Chosen(s, KL) = [i \in 1..c |-> s[f[i]]]
    <3>1. Cardinality(KL) = c /\ \A i \in 1..c : Nth(KL, i) = f[i]
      BY <2>1, NthIs
    <3> QED
      BY <3>1 DEF Chosen
  <2> QED
    BY <2>2 DEF KL, c
<1>8. Chosen(s, K) \o Chosen(s, L) = [i \in 1..(a + b) |-> s[f[i]]]
  <2> DEFINE x == [i \in 1..a |-> s[Nth(K, i)]]
             y == [i \in 1..b |-> s[Nth(L, i)]]
  <2>1. Len(x) = a /\ Len(y) = b
    BY <1>1
  <2>2. x \o y = [i \in 1..(Len(x) + Len(y)) |-> IF i <= Len(x) THEN x[i] ELSE y[i - Len(x)]]
    <3>1. ASSUME NEW u, NEW v, NEW S, u \in Seq(S), v \in Seq(S)
          PROVE  u \o v = [i \in 1..(Len(u) + Len(v)) |-> IF i <= Len(u) THEN u[i] ELSE v[i - Len(u)]]
      <4>1. u \o v \in Seq(S) /\ Len(u \o v) = Len(u) + Len(v)
        BY <3>1
      <4>2. \A i \in 1..(Len(u) + Len(v)) : (u \o v)[i] = IF i <= Len(u) THEN u[i] ELSE v[i - Len(u)]
        BY <3>1
      <4>3. u \o v = [i \in 1..Len(u \o v) |-> (u \o v)[i]]
        BY <4>1, LenProperties
      <4> QED
        BY <4>1, <4>2, <4>3
    <3> DEFINE S == {s[k] : k \in 1..n}
    <3>2. x \in Seq(S) /\ y \in Seq(S)
      <4>1. \A i \in 1..a : s[Nth(K, i)] \in S
        BY <1>4
      <4>2. \A i \in 1..b : s[Nth(L, i)] \in S
        BY <1>5
      <4> HIDE DEF S
      <4> QED
        BY <1>1, <4>1, <4>2
    <3> HIDE DEF x, y, S
    <3> QED
      BY <3>1, <3>2
  <2>3. ASSUME NEW i \in 1..(a + b) PROVE (IF i <= a THEN x[i] ELSE y[i - a]) = s[f[i]]
    <3>1. (i <= a => i \in 1..a) /\ (~ (i <= a) => i - a \in 1..b)
      BY <1>1
    <3> QED
      BY <3>1
  <2>4. x \o y = [i \in 1..(a + b) |-> IF i <= a THEN x[i] ELSE y[i - a]]
    <3> HIDE DEF x, y
    <3> QED
      BY <2>1, <2>2
  <2>5. x \o y = [i \in 1..(a + b) |-> s[f[i]]]
    <3> HIDE DEF x, y, f
    <3> QED
      BY <2>3, <2>4
  <2>6. Chosen(s, K) = x /\ Chosen(s, L) = y
    BY <1>3
  <2> HIDE DEF x, y, f
  <2> QED
    BY <2>5, <2>6
<1> QED
  BY <1>7, <1>8

\* Neighbouring places are a part of the sequence.
LEMMA ChosenInterval ==
  ASSUME NEW S, NEW s \in Seq(S), NEW a \in 1..(Len(s) + 1), NEW b \in 0..Len(s), a <= b + 1
  PROVE  /\ Chosen(s, a..b) = [i \in 1..(b - a + 1) |-> s[a + i - 1]]
         /\ Cardinality(a..b) = b - a + 1
<1> DEFINE f == [i \in 1..(b - a + 1) |-> a + i - 1]
           m == b - a + 1
<1>1. m \in Nat /\ Len(s) \in Nat /\ a..b \in SUBSET (1..Len(s))
  OBVIOUS
<1>4. \A k \in a..b : k \in Int
  OBVIOUS
<1>2. Enumerates(f, m, a..b)
  <2>1. f \in [1..m -> a..b]
    OBVIOUS
  <2>2. ASSUME NEW i \in 1..m, NEW j \in 1..m, i < j PROVE f[i] < f[j]
    BY <2>2
  <2>3. ASSUME NEW k \in a..b PROVE \E i \in 1..m : f[i] = k
    <3>1. k - a + 1 \in 1..m /\ f[k - a + 1] = k
      OBVIOUS
    <3> QED
      BY <3>1
  <2> QED
    BY <2>1, <2>2, <2>3 DEF Enumerates
<1>3. Chosen(s, a..b) = [i \in 1..m |-> s[f[i]]] /\ Cardinality(a..b) = m
  <2> DEFINE K == a..b
             n == Len(s)
  <2>1. n \in Nat /\ K \in SUBSET (1..n) /\ m \in Nat /\ Enumerates(f, m, K)
    BY <1>1, <1>2
  <2> HIDE DEF f, m, K, n
  <2>2. Cardinality(K) = m /\ \A i \in 1..m : Nth(K, i) = f[i]
    BY <2>1, NthIs
  <2>3. Chosen(s, K) = [i \in 1..m |-> s[f[i]]]
    BY <2>2 DEF Chosen
  <2> QED
    BY <2>2, <2>3 DEF K
<1> QED
  BY <1>3

\* The places d further on are counted in the same way.
LEMMA NthMoved ==
  ASSUME NEW n \in Nat, NEW d \in Nat, NEW K \in SUBSET (1..n)
  PROVE  /\ Cardinality({d + k : k \in K}) = Cardinality(K)
         /\ \A i \in 1..Cardinality(K) : Nth({d + k : k \in K}, i) = d + Nth(K, i) /\ Nth(K, i) \in K
<1> DEFINE m == Cardinality(K)
           L == {d + k : k \in K}
           f == [i \in 1..m |-> d + Nth(K, i)]
           c == d + n
<1>1. m \in Nat /\ L \in SUBSET (1..c) /\ c \in Nat
  <2>1. m \in Nat
    BY PlacesFinite
  <2>2. L \in SUBSET (1..c)
    OBVIOUS
  <2> QED
    BY <2>1, <2>2
<1>2. Enumerates([i \in 1..m |-> Nth(K, i)], m, K)
  BY CanCount
<1> HIDE DEF m
<1>4. /\ \A i \in 1..m : Nth(K, i) \in K
      /\ \A i, j \in 1..m : i < j => Nth(K, i) < Nth(K, j)
      /\ \A k \in K : \E i \in 1..m : Nth(K, i) = k
  BY <1>2 DEF Enumerates
<1>5. Enumerates(f, m, L)
  <2>1. f \in [1..m -> L]
    BY <1>4
  <2>2. ASSUME NEW i \in 1..m, NEW j \in 1..m, i < j PROVE f[i] < f[j]
    <3>1. Nth(K, i) \in Nat /\ Nth(K, j) \in Nat /\ Nth(K, i) < Nth(K, j)
      <4>1. \A k \in K : k \in Nat
        OBVIOUS
      <4>2. Nth(K, i) \in K /\ Nth(K, j) \in K
        BY <1>4
      <4> QED
        BY <1>4, <2>2, <4>1, <4>2
    <3> QED
      BY <3>1
  <2>3. ASSUME NEW l \in L PROVE \E i \in 1..m : f[i] = l
    BY <1>4
  <2> QED
    BY <2>1, <2>2, <2>3 DEF Enumerates
<1>6. Cardinality(L) = m /\ \A i \in 1..m : Nth(L, i) = f[i]
  <2> HIDE DEF f, c, L
  <2>1. ASSUME NEW M, M = L PROVE Cardinality(M) = m /\ \A i \in 1..m : Nth(M, i) = f[i]
    <3>1. M \in SUBSET (1..c) /\ c \in Nat /\ m \in Nat /\ Enumerates(f, m, M)
      BY <1>1, <1>5, <2>1
    <3> QED
      BY ONLY <3>1, NthIs
  <2> QED
    BY <2>1
<1>7. \A i \in 1..m : Nth(L, i) = d + Nth(K, i)
  BY <1>6
<1> HIDE DEF L
<1>8. Cardinality(L) = Cardinality(K) /\ \A i \in 1..Cardinality(K) : Nth(L, i) = d + Nth(K, i) /\ Nth(K, i) \in K
  BY <1>4, <1>6, <1>7 DEF m
<1> QED
  BY <1>8 DEF L

\* How many of the bytes sent have been read.
Read == Len(w_sent) - Len(w_buf) - Len(w_net) - Len(w_left)

\* The others are in rd_buf, in the system, or with the client.
Received ==
  /\ w_sent \in Requests
  /\ w_buf \in Seq(STRING) /\ w_net \in Seq(STRING) /\ w_left \in Seq(STRING)
  /\ Read \in Nat
  /\ \A i \in DOMAIN w_buf : w_buf[i] = w_sent[Read + i]
  /\ \A i \in DOMAIN w_net : w_net[i] = w_sent[Read + Len(w_buf) + i]
  /\ \A i \in DOMAIN w_left : w_left[i] = w_sent[Read + Len(w_buf) + Len(w_net) + i]

\* The types of what has been read, and where process_tcp can be.
GotType ==
  /\ w_got = [line |-> w_got.line, headers |-> w_got.headers, body |-> w_got.body]
  /\ w_got.headers \in Seq(STRING) /\ w_got.body \in Seq(STRING)
  /\ w_at \in {"line", "headers", "body", "form", "find", "process", "end"}
  /\ w_ran \in BOOLEAN /\ w_stalled \in BOOLEAN

\* What has been read is made of bytes up to there.
Whole == <<w_got.line>> \o w_got.headers \o w_got.body
Made ==
  w_ran \/ w_at \notin {"line", "end"} =>
    \E kept \in SUBSET (1..Read) : Whole = Chosen(w_sent, kept)

\* The headers end at e; the request is a form; what was read is what was sent.
HeadEnds(e) == Blank(w_sent, e) /\ ~ \E j \in 1..(e - 1) : Blank(w_sent, j)
IsForm == \E k \in DOMAIN w_sent : w_sent[k] = "multipart"
LineRead == w_got.line = Head(w_sent)
HeadersRead == w_got.headers = Chosen(w_sent, Places(w_sent, Header))
BodyRead == w_got.body = IF w_got.line = "POST" THEN Chosen(w_sent, Places(w_sent, Body)) ELSE <<>>

\* Where the parts are before they have been read.
Parts ==
  /\ w_ran => w_at = "end"
  /\ w_at \in {"line", "headers", "form"} => w_got.body = <<>>
  /\ w_at = "line" => Read = 0 /\ w_got.headers = <<>> /\ ~w_stalled
  /\ w_at = "body" => Len(w_got.body) <= Count

\* What has been read when process_tcp is there and nothing was missing.
AtHeaders ==
  w_at = "headers" =>
    /\ ~w_stalled /\ Read > 0 /\ w_sent[Read] = "eol"
    /\ LineRead
    /\ ~ \E j \in 1..Read : Blank(w_sent, j)
    /\ w_got.headers = Chosen(w_sent, {k \in 1..Read : w_sent[k] \in Header})
AtForm ==
  w_at = "form" /\ ~w_stalled =>
    HeadEnds(Read) /\ LineRead /\ HeadersRead /\ w_got.line = "POST" /\ IsForm
AtBody ==
  w_at = "body" /\ ~w_stalled =>
    /\ LineRead /\ HeadersRead /\ w_got.line = "POST" /\ ~IsForm
    /\ \E e \in 1..Read : HeadEnds(e) /\ w_got.body = Chosen(w_sent, (e + 1)..Read)
AtEnd ==
  (w_at \in {"find", "process"} \/ w_ran) /\ ~w_stalled => LineRead /\ HeadersRead /\ BodyRead

\* The inductive invariant of the requests.
WebInv == Received /\ GotType /\ Made /\ Parts /\ AtHeaders /\ AtForm /\ AtBody /\ AtEnd

\* A request is a well-formed sequence of bytes.
LEMMA RequestSeq ==
  ASSUME NEW r \in Requests
  PROVE  r \in Seq(STRING) /\ Len(r) \in Nat /\ DOMAIN r = 1..Len(r) /\ WellFormed(r)
<1>1. r \in Seq(STRING) /\ WellFormed(r)
  BY WebAssumption
<1> QED
  BY <1>1

\* The types of what is on its way, and the lengths together.
LEMMA RequestType ==
  ASSUME Received
  PROVE  /\ w_sent \in Seq(STRING) /\ Len(w_sent) \in Nat /\ DOMAIN w_sent = 1..Len(w_sent)
         /\ Len(w_buf) \in Nat /\ Len(w_net) \in Nat /\ Len(w_left) \in Nat
         /\ Read + Len(w_buf) + Len(w_net) + Len(w_left) = Len(w_sent)
         /\ WellFormed(w_sent)
<1>1. w_sent \in Seq(STRING) /\ WellFormed(w_sent)
  BY WebAssumption DEF Received
<1>2. Len(w_sent) \in Nat /\ DOMAIN w_sent = 1..Len(w_sent)
  BY <1>1
<1>3. Len(w_buf) \in Nat /\ Len(w_net) \in Nat /\ Len(w_left) \in Nat
  BY DEF Received
<1> QED
  BY <1>1, <1>2, <1>3 DEF Read

\* What is left of a sequence after its first k elements.
LEMMA RestIs ==
  ASSUME NEW s \in Seq(STRING), NEW k \in 0..Len(s)
  PROVE  /\ SubSeq(s, k + 1, Len(s)) \in Seq(STRING) /\ Len(SubSeq(s, k + 1, Len(s))) = Len(s) - k
         /\ \A i \in 1..(Len(s) - k) : SubSeq(s, k + 1, Len(s))[i] = s[k + i]
<1>1. Len(s) \in Nat
  OBVIOUS
<1> QED
  BY <1>1

\* Reading p bytes of rd_buf.
LEMMA Advanced ==
  ASSUME Received, NEW p \in 0..Len(w_buf), w_buf' = SubSeq(w_buf, p + 1, Len(w_buf)),
         UNCHANGED <<w_sent, w_net, w_left>>
  PROVE  /\ Received' /\ Read' = Read + p /\ Read + p <= Len(w_sent)
         /\ \A i \in 1..p : w_buf[i] = w_sent[Read + i]
<1>1. /\ w_sent \in Seq(STRING) /\ Len(w_sent) \in Nat
      /\ Len(w_buf) \in Nat /\ Len(w_net) \in Nat /\ Len(w_left) \in Nat /\ Read \in Nat
      /\ Read + Len(w_buf) + Len(w_net) + Len(w_left) = Len(w_sent)
  BY RequestType DEF Received
<1>2. w_buf' \in Seq(STRING) /\ Len(w_buf') = Len(w_buf) - p /\ \A i \in 1..Len(w_buf') : w_buf'[i] = w_buf[p + i]
  BY DEF Received
<1>3. Read' = Read + p
  <2>1. Len(w_sent') = Len(w_sent) /\ Len(w_net') = Len(w_net) /\ Len(w_left') = Len(w_left)
    OBVIOUS
  <2>2. Read' = Len(w_sent) - (Len(w_buf) - p) - Len(w_net) - Len(w_left)
    BY <1>2, <2>1 DEF Read
  <2>3. Read = Len(w_sent) - Len(w_buf) - Len(w_net) - Len(w_left)
    BY DEF Read
  <2>4. p \in Nat
    BY <1>1
  <2> QED
    BY <1>1, <2>2, <2>3, <2>4
<1>4. ASSUME NEW i \in DOMAIN w_buf' PROVE w_buf'[i] = w_sent[Read' + i]
  <2>1. i \in 1..Len(w_buf') /\ p + i \in DOMAIN w_buf
    BY <1>1, <1>2 DEF Received
  <2>2. w_buf'[i] = w_buf[p + i] /\ w_buf[p + i] = w_sent[Read + (p + i)]
    BY <1>2, <2>1 DEF Received
  <2>3. Read + (p + i) = (Read + p) + i
    BY <1>1
  <2> QED
    BY <1>3, <2>2, <2>3
<1>5. Read' + Len(w_buf') = Read + Len(w_buf)
  <2>1. p \in Nat
    BY <1>1
  <2>2. Read' + Len(w_buf') = (Read + p) + (Len(w_buf) - p)
    BY <1>2, <1>3
  <2>3. \A a, b, c \in Nat : (a + c) + (b - c) = a + b
    OBVIOUS
  <2> QED
    BY <1>1, <2>1, <2>2, <2>3
<1>6. Received'
  <2>1. w_sent' \in Requests /\ w_buf' \in Seq(STRING) /\ w_net' \in Seq(STRING) /\ w_left' \in Seq(STRING) /\ Read' \in Nat
    BY <1>1, <1>2, <1>3 DEF Received
  <2>2. /\ \A i \in DOMAIN w_net' : w_net'[i] = w_sent'[Read' + Len(w_buf') + i]
        /\ \A i \in DOMAIN w_left' : w_left'[i] = w_sent'[Read' + Len(w_buf') + Len(w_net') + i]
    BY <1>5 DEF Received
  <2> QED
    BY <1>4, <2>1, <2>2 DEF Received
<1>7. \A i \in 1..p : w_buf[i] = w_sent[Read + i]
  <2>1. \A i \in 1..p : i \in DOMAIN w_buf
    BY <1>1 DEF Received
  <2> QED
    BY <2>1 DEF Received
<1> QED
  BY <1>1, <1>3, <1>6, <1>7

\* The first bytes of rd_buf are the next of those sent.
LEMMA NextBytes ==
  ASSUME Received, NEW q \in 0..Len(w_buf)
  PROVE  /\ SubSeq(w_buf, 1, q) = Chosen(w_sent, (Read + 1)..(Read + q))
         /\ (Read + 1)..(Read + q) \subseteq 1..Len(w_sent)
         /\ SubSeq(w_buf, 1, q) \in Seq(STRING) /\ Len(SubSeq(w_buf, 1, q)) = q
<1>1. /\ w_sent \in Seq(STRING) /\ Len(w_sent) \in Nat
      /\ Len(w_buf) \in Nat /\ Len(w_net) \in Nat /\ Len(w_left) \in Nat /\ Read \in Nat
      /\ Read + Len(w_buf) + Len(w_net) + Len(w_left) = Len(w_sent)
      /\ w_buf \in Seq(STRING)
  BY RequestType DEF Received
<1> DEFINE a == Read + 1
           b == Read + q
<1>2. a \in 1..(Len(w_sent) + 1) /\ b \in 0..Len(w_sent) /\ a <= b + 1 /\ b - a + 1 = q
  BY <1>1
<1>3. Chosen(w_sent, a..b) = [i \in 1..(b - a + 1) |-> w_sent[a + i - 1]]
  <2> HIDE DEF a, b
  <2> QED
    BY <1>1, <1>2, ChosenInterval
<1>4. SubSeq(w_buf, 1, q) = [i \in 1..q |-> w_buf[i]]
  BY <1>1
<1>5. ASSUME NEW i \in 1..q PROVE w_buf[i] = w_sent[a + i - 1]
  <2>1. i \in DOMAIN w_buf /\ a + i - 1 = Read + i
    BY <1>1
  <2> QED
    BY <2>1 DEF Received
<1>6. SubSeq(w_buf, 1, q) = Chosen(w_sent, a..b)
  BY <1>2, <1>3, <1>4, <1>5
<1>7. a..b \subseteq 1..Len(w_sent)
  BY <1>1
<1>8. SubSeq(w_buf, 1, q) \in Seq(STRING) /\ Len(SubSeq(w_buf, 1, q)) = q
  BY <1>1
<1> QED
  BY <1>6, <1>7, <1>8

\* A sequence that has the delimiter has a first one.
LEMMA HasFirst ==
  ASSUME NEW s \in Seq(STRING), NEW d, \E i \in DOMAIN s : s[i] = d
  PROVE  \E i \in DOMAIN s : s[i] = d /\ \A j \in 1..(i - 1) : s[j] # d
<1> DEFINE n == Len(s)
           K == {i \in 1..n : s[i] = d}
           m == Cardinality(K)
<1>1. n \in Nat /\ K \in SUBSET (1..n) /\ DOMAIN s = 1..n
  OBVIOUS
<1>2. Enumerates([i \in 1..m |-> Nth(K, i)], m, K) /\ m \in Nat
  <2> HIDE DEF K, n
  <2> QED
    BY <1>1, CanCount, PlacesFinite
<1>3. PICK k : k \in K
  BY <1>1
<1> HIDE DEF m
<1>4. /\ \A i \in 1..m : Nth(K, i) \in K
      /\ \A i, j \in 1..m : i < j => Nth(K, i) < Nth(K, j)
      /\ \A l \in K : \E i \in 1..m : Nth(K, i) = l
  <2> HIDE DEF K
  <2> QED
    BY <1>2 DEF Enumerates
<1>5. 1 \in 1..m
  <2>1. PICK i \in 1..m : Nth(K, i) = k
    BY <1>3, <1>4
  <2> QED
    BY <1>2
<1>6. Nth(K, 1) \in K
  BY <1>4, <1>5
<1>7. ASSUME NEW j \in 1..(Nth(K, 1) - 1), s[j] = d PROVE FALSE
  <2>1. Nth(K, 1) \in 1..n
    BY <1>6
  <2>2. j \in K /\ j < Nth(K, 1)
    BY <1>1, <1>7, <2>1
  <2>3. PICK i \in 1..m : Nth(K, i) = j
    BY <1>4, <2>2
  <2>4. i = 1 \/ 1 < i
    BY <1>2
  <2>5. ~ (Nth(K, 1) < j)
    BY <2>1, <2>2
  <2> QED
    BY <1>4, <1>5, <2>2, <2>3, <2>4, <2>5
<1>8. Nth(K, 1) \in DOMAIN s /\ s[Nth(K, 1)] = d
  BY <1>1, <1>6
<1> QED
  BY <1>7, <1>8

\* __gets takes what is before the first delimiter, or gives up.
Takes(p) ==
  /\ p \in 1..Len(w_buf) /\ w_buf[p] = Delimiter
  /\ \A j \in 1..(p - 1) : w_buf[j] # Delimiter
  /\ Line.text = SubSeq(w_buf, 1, p - 1)
  /\ w_buf' = SubSeq(w_buf, p + 1, Len(w_buf))

\* Each call of __gets does one of the two.
LEMMA GetsTakes ==
  ASSUME Received, w_stalled \in BOOLEAN, w_at \in {"line", "headers", "form"}, NEW next, NEW got, gets(next, got)
  PROVE  \/ w_stalled' = w_stalled /\ \E p \in 1..Len(w_buf) : Takes(p)
         \/ w_stalled' = TRUE /\ Line.text = <<>> /\ w_buf' = w_buf
<1>1. w_buf \in Seq(STRING) /\ w_buf' = Line.rest /\ w_stalled' = (w_stalled \/ ~IsThere)
  BY DEF Received, gets
<1>2. CASE IsThere
  <2>1. Find(Delimiter) # 0
    BY <1>2 DEF IsThere
  <2>2. \E i \in DOMAIN w_buf : w_buf[i] = Delimiter
    BY <2>1 DEF Find
  <2>3. \E i \in DOMAIN w_buf : w_buf[i] = Delimiter /\ \A j \in 1..(i - 1) : w_buf[j] # Delimiter
    BY <1>1, <2>2, HasFirst
  <2> DEFINE p == Find(Delimiter)
  <2>4. p \in DOMAIN w_buf /\ w_buf[p] = Delimiter /\ \A j \in 1..(p - 1) : w_buf[j] # Delimiter
    BY <2>2, <2>3 DEF Find
  <2>5. Line.text = SubSeq(w_buf, 1, p - 1) /\ Line.rest = SubSeq(w_buf, p + 1, Len(w_buf))
    BY <1>2 DEF Line
  <2> HIDE DEF p
  <2>6. p \in 1..Len(w_buf) /\ Takes(p)
    BY <1>1, <2>4, <2>5 DEF Takes
  <2>7. w_stalled' = w_stalled
    BY <1>1, <1>2
  <2> QED
    BY <2>6, <2>7
<1>3. CASE ~IsThere
  BY <1>1, <1>3 DEF Line, Unfinished
<1> QED
  BY <1>2, <1>3

\* Nothing the invariant speaks of has changed but where unread bytes are.
LEMMA OthersStay ==
  ASSUME WebInv, Received', Read' = Read, UNCHANGED <<w_sent, w_got, w_at, w_ran, w_stalled>>
  PROVE  WebInv'
<1>1. GotType' /\ Made' /\ Parts'
  BY DEF WebInv, GotType, Made, Whole, Parts, Count
<1>2. AtHeaders'
  BY DEF WebInv, AtHeaders, LineRead
<1>3. AtForm'
  BY DEF WebInv, AtForm, LineRead, HeadersRead, HeadEnds, IsForm
<1>4. AtBody'
  BY DEF WebInv, AtBody, LineRead, HeadersRead, HeadEnds, IsForm
<1>5. AtEnd'
  BY DEF WebInv, AtEnd, LineRead, HeadersRead, BodyRead
<1> QED
  BY <1>1, <1>2, <1>3, <1>4, <1>5 DEF WebInv

\* A connection whose request is refused.
LEMMA Refused ==
  ASSUME Received', GotType', w_at' = "end", ~w_ran'
  PROVE  WebInv'
<1>1. Made' /\ Parts'
  BY DEF Made, Parts
<1>2. AtHeaders' /\ AtForm' /\ AtBody' /\ AtEnd'
  BY DEF AtHeaders, AtForm, AtBody, AtEnd
<1> QED
  BY <1>1, <1>2 DEF WebInv

\* More of the request comes to the system, which nothing that was read knows of.
LEMMA ClientSends ==
  ASSUME WebInv, client_sends
  PROVE  WebInv'
<1>1. PICK n \in 1..Len(w_left) : w_net' = w_net \o SubSeq(w_left, 1, n) /\ w_left' = SubSeq(w_left, n + 1, Len(w_left))
  BY DEF client_sends
<1>2. UNCHANGED <<w_sent, w_buf, w_got, w_at, w_ran, w_stalled>>
  BY DEF client_sends, doneVars
<1>3. /\ Len(w_buf) \in Nat /\ Len(w_net) \in Nat /\ Len(w_left) \in Nat /\ Read \in Nat /\ Len(w_sent) \in Nat
      /\ w_net \in Seq(STRING) /\ w_left \in Seq(STRING)
      /\ DOMAIN w_net = 1..Len(w_net) /\ DOMAIN w_left = 1..Len(w_left)
  BY RequestType DEF WebInv, Received
<1>4. SubSeq(w_left, 1, n) \in Seq(STRING) /\ Len(SubSeq(w_left, 1, n)) = n /\ n \in Nat
      /\ \A i \in 1..n : SubSeq(w_left, 1, n)[i] = w_left[i]
  BY <1>3
<1>5. w_net' \in Seq(STRING) /\ Len(w_net') = Len(w_net) + n /\ DOMAIN w_net' = 1..(Len(w_net) + n)
      /\ \A i \in 1..(Len(w_net) + n) : w_net'[i] = IF i <= Len(w_net) THEN w_net[i] ELSE w_left[i - Len(w_net)]
  <2> DEFINE t == SubSeq(w_left, 1, n)
  <2>1. t \in Seq(STRING) /\ Len(t) = n /\ \A i \in 1..n : t[i] = w_left[i]
    BY <1>4
  <2>2. w_net' = w_net \o t
    BY <1>1
  <2> HIDE DEF t
  <2>5. w_net \o t \in Seq(STRING) /\ Len(w_net \o t) = Len(w_net) + Len(t)
        /\ \A i \in 1..(Len(w_net) + Len(t)) : (w_net \o t)[i] = IF i <= Len(w_net) THEN w_net[i] ELSE t[i - Len(w_net)]
    BY <1>3, <2>1, ConcatProperties
  <2>3. w_net' \in Seq(STRING) /\ Len(w_net') = Len(w_net) + n
        /\ \A i \in 1..(Len(w_net) + n) : w_net'[i] = IF i <= Len(w_net) THEN w_net[i] ELSE t[i - Len(w_net)]
    BY <2>1, <2>2, <2>5
  <2>4. ASSUME NEW i \in 1..(Len(w_net) + n), ~ (i <= Len(w_net)) PROVE t[i - Len(w_net)] = w_left[i - Len(w_net)]
    <3>1. i - Len(w_net) \in 1..n
      BY <1>3, <2>4
    <3> QED
      BY <2>1, <3>1
  <2> QED
    BY <1>3, <2>3, <2>4
<1>6. w_left' \in Seq(STRING) /\ Len(w_left') = Len(w_left) - n /\ DOMAIN w_left' = 1..(Len(w_left) - n)
      /\ \A i \in 1..(Len(w_left) - n) : w_left'[i] = w_left[n + i]
  <2>1. w_left' = SubSeq(w_left, n + 1, Len(w_left))
    BY <1>1
  <2>3. n \in 0..Len(w_left) /\ n \in Nat
    BY <1>3
  <2>4. SubSeq(w_left, n + 1, Len(w_left)) \in Seq(STRING) /\ Len(SubSeq(w_left, n + 1, Len(w_left))) = Len(w_left) - n
        /\ \A i \in 1..(Len(w_left) - n) : SubSeq(w_left, n + 1, Len(w_left))[i] = w_left[n + i]
    BY <1>3, <2>3, RestIs
  <2> DEFINE d == SubSeq(w_left, n + 1, Len(w_left))
  <2>5. d \in Seq(STRING) /\ Len(d) = Len(w_left) - n /\ \A i \in 1..(Len(w_left) - n) : d[i] = w_left[n + i]
    BY <2>4
  <2>6. w_left' = d
    BY <2>1
  <2> HIDE DEF d
  <2>7. DOMAIN d = 1..Len(d)
    BY <2>5
  <2> QED
    BY <2>5, <2>6, <2>7
<1>7. Len(w_net') + Len(w_left') = Len(w_net) + Len(w_left)
  BY <1>3, <1>4, <1>5, <1>6
<1>8. Read' = Read
  <2>1. Read' = Len(w_sent) - Len(w_buf) - Len(w_net') - Len(w_left')
    BY <1>2 DEF Read
  <2>2. Read = Len(w_sent) - Len(w_buf) - Len(w_net) - Len(w_left)
    BY DEF Read
  <2>3. Len(w_net') \in Nat /\ Len(w_left') \in Nat
    BY <1>5, <1>6
  <2> QED
    BY <1>3, <1>7, <2>1, <2>2, <2>3
<1>9. Received'
  <2>1. ASSUME NEW i \in DOMAIN w_net' PROVE w_net'[i] = w_sent[Read + Len(w_buf) + i]
    <3>1. CASE i <= Len(w_net)
      <4>1. i \in DOMAIN w_net /\ w_net'[i] = w_net[i]
        BY <1>3, <1>5, <3>1
      <4> QED
        BY <4>1 DEF WebInv, Received
    <3>2. CASE ~ (i <= Len(w_net))
      <4> DEFINE k == i - Len(w_net)
      <4>1. k \in DOMAIN w_left /\ w_net'[i] = w_left[k]
        <5>1. i \in 1..(Len(w_net) + n) /\ n \in 1..Len(w_left)
          BY <1>5
        <5>2. k \in 1..Len(w_left)
          BY <1>3, <3>2, <5>1
        <5>3. w_net'[i] = w_left[i - Len(w_net)]
          BY <1>5, <3>2, <5>1
        <5> QED
          BY <1>3, <5>2, <5>3
      <4>2. w_left[k] = w_sent[Read + Len(w_buf) + Len(w_net) + k]
        <5> HIDE DEF k
        <5> QED
          BY <4>1 DEF WebInv, Received
      <4>3. Read + Len(w_buf) + Len(w_net) + k = Read + Len(w_buf) + i
        BY <1>3, <1>5
      <4> QED
        BY <4>1, <4>2, <4>3
    <3> QED
      BY <3>1, <3>2
  <2>2. ASSUME NEW i \in DOMAIN w_left' PROVE w_left'[i] = w_sent[Read + Len(w_buf) + Len(w_net') + i]
    <3>1. n + i \in DOMAIN w_left /\ w_left'[i] = w_left[n + i]
      BY <1>3, <1>6
    <3>2. w_left[n + i] = w_sent[Read + Len(w_buf) + Len(w_net) + (n + i)]
      BY <3>1 DEF WebInv, Received
    <3>3. Read + Len(w_buf) + Len(w_net) + (n + i) = Read + Len(w_buf) + Len(w_net') + i
      BY <1>3, <1>4, <1>5, <1>6
    <3> QED
      BY <3>1, <3>2, <3>3
  <2>3. w_sent' = w_sent /\ w_buf' = w_buf
    BY <1>2
  <2>4. w_sent \in Requests /\ w_buf \in Seq(STRING) /\ Read \in Nat /\ \A i \in DOMAIN w_buf : w_buf[i] = w_sent[Read + i]
    BY DEF WebInv, Received
  <2> QED
    BY <1>5, <1>6, <1>8, <2>1, <2>2, <2>3, <2>4 DEF Received
<1> QED
  BY <1>2, <1>8, <1>9, OthersStay

\* recv moves bytes to rd_buf.
LEMMA Receives ==
  ASSUME WebInv, receive
  PROVE  WebInv'
<1>1. w_buf' = w_buf \o w_net /\ w_net' = <<>> /\ UNCHANGED <<w_sent, w_left, w_got, w_at, w_ran, w_stalled>>
  BY DEF receive, clientVars, doneVars
<1>2. /\ Len(w_buf) \in Nat /\ Len(w_net) \in Nat /\ Len(w_left) \in Nat /\ Read \in Nat /\ Len(w_sent) \in Nat
      /\ w_net \in Seq(STRING) /\ w_buf \in Seq(STRING)
      /\ DOMAIN w_net = 1..Len(w_net) /\ DOMAIN w_buf = 1..Len(w_buf)
  BY RequestType DEF WebInv, Received
<1>3. w_buf' \in Seq(STRING) /\ Len(w_buf') = Len(w_buf) + Len(w_net)
      /\ \A i \in 1..(Len(w_buf) + Len(w_net)) : w_buf'[i] = IF i <= Len(w_buf) THEN w_buf[i] ELSE w_net[i - Len(w_buf)]
  BY <1>1, <1>2, ConcatProperties
<1>4. w_net' \in Seq(STRING) /\ Len(w_net') = 0 /\ DOMAIN w_net' = {}
  BY <1>1
<1>5. Read' = Read
  <2>1. Read' = Len(w_sent) - Len(w_buf') - Len(w_net') - Len(w_left)
    BY <1>1 DEF Read
  <2>2. Read = Len(w_sent) - Len(w_buf) - Len(w_net) - Len(w_left)
    BY DEF Read
  <2> QED
    BY <1>2, <1>3, <1>4, <2>1, <2>2
<1>6. Received'
  <2>1. ASSUME NEW i \in DOMAIN w_buf' PROVE w_buf'[i] = w_sent[Read + i]
    <3>0. i \in 1..(Len(w_buf) + Len(w_net))
      BY <1>3
    <3>1. CASE i <= Len(w_buf)
      <4>1. i \in DOMAIN w_buf /\ w_buf'[i] = w_buf[i]
        BY <1>2, <1>3, <3>0, <3>1
      <4> QED
        BY <4>1 DEF WebInv, Received
    <3>2. CASE ~ (i <= Len(w_buf))
      <4> DEFINE k == i - Len(w_buf)
      <4>1. k \in DOMAIN w_net /\ w_buf'[i] = w_net[k]
        BY <1>2, <1>3, <3>0, <3>2
      <4>2. w_net[k] = w_sent[Read + Len(w_buf) + k]
        <5> HIDE DEF k
        <5> QED
          BY <4>1 DEF WebInv, Received
      <4>3. Read + Len(w_buf) + k = Read + i
        BY <1>2, <3>0
      <4> QED
        BY <4>1, <4>2, <4>3
    <3> QED
      BY <3>1, <3>2
  <2>2. ASSUME NEW i \in DOMAIN w_left PROVE w_left[i] = w_sent[Read + Len(w_buf') + Len(w_net') + i]
    <3>1. w_left[i] = w_sent[Read + Len(w_buf) + Len(w_net) + i]
      BY DEF WebInv, Received
    <3>2. Read + Len(w_buf') + Len(w_net') = Read + Len(w_buf) + Len(w_net)
      BY <1>2, <1>3, <1>4
    <3> QED
      BY <3>1, <3>2
  <2>3. w_sent' = w_sent /\ w_left' = w_left
    BY <1>1
  <2>4. w_sent \in Requests /\ w_left \in Seq(STRING) /\ Read \in Nat
    BY DEF WebInv, Received
  <2> QED
    BY <1>3, <1>4, <1>5, <2>1, <2>2, <2>3, <2>4 DEF Received
<1> QED
  BY <1>1, <1>5, <1>6, OthersStay

\* The connection breaks, or is found broken.
LEMMA Breaks ==
  ASSUME WebInv, poll_disconnects \/ recv_disconnects \/ \E how \in {"closed", "reset"} : client_goes(how)
  PROVE  WebInv'
<1>1. UNCHANGED <<w_sent, w_left, w_net, w_buf, w_got, w_at, w_ran, w_stalled>>
  BY DEF poll_disconnects, recv_disconnects, client_goes, clientVars, doneVars
<1>2. Read' = Read
  BY <1>1 DEF Read
<1>3. Received'
  BY <1>1, <1>2 DEF WebInv, Received
<1> QED
  BY <1>1, <1>2, <1>3, OthersStay

\* A connection is taken.
Fresh ==
  /\ w_sent \in Requests /\ w_left = w_sent /\ w_net = <<>> /\ w_buf = <<>> /\ w_at = "line"
  /\ w_got = [line |-> "none", headers |-> <<>>, body |-> <<>>] /\ w_ran = FALSE /\ w_stalled = FALSE

\* Of a new connection nothing has been read.
LEMMA WebStarts == Fresh => WebInv
<1> SUFFICES ASSUME Fresh PROVE WebInv
  OBVIOUS
<1> USE DEF Fresh
<1>1. w_sent \in Seq(STRING) /\ Len(w_sent) \in Nat /\ DOMAIN w_sent = 1..Len(w_sent)
  BY RequestSeq
<1>2. Len(w_buf) = 0 /\ Len(w_net) = 0 /\ DOMAIN w_buf = {} /\ DOMAIN w_net = {}
  OBVIOUS
<1>3. Read = 0
  BY <1>1, <1>2 DEF Read
<1>4. Received
  <2>1. ASSUME NEW i \in 1..Len(w_sent) PROVE w_left[i] = w_sent[Read + Len(w_buf) + Len(w_net) + i]
    <3>1. Read + Len(w_buf) + Len(w_net) + i = i
      BY <1>3, <1>2
    <3> QED
      BY <3>1
  <2>2. w_buf \in Seq(STRING) /\ w_net \in Seq(STRING) /\ w_left \in Seq(STRING) /\ Read \in Nat /\ w_sent \in Requests
    BY <1>1, <1>3
  <2>3. DOMAIN w_left = 1..Len(w_sent)
    BY <1>1
  <2> QED
    BY <1>2, <2>1, <2>2, <2>3 DEF Received
<1>5. GotType
  <2>1. <<>> \in Seq(STRING)
    OBVIOUS
  <2>2. w_got = [line |-> w_got.line, headers |-> w_got.headers, body |-> w_got.body]
        /\ w_got.headers \in Seq(STRING) /\ w_got.body \in Seq(STRING)
    BY <2>1
  <2> QED
    BY <2>2 DEF GotType
<1>6. Made
  BY DEF Made
<1>7. Parts
  BY <1>3 DEF Parts
<1>8. AtHeaders /\ AtForm /\ AtBody /\ AtEnd
  BY DEF AtHeaders, AtForm, AtBody, AtEnd
<1> QED
  BY <1>4, <1>5, <1>6, <1>7, <1>8 DEF WebInv

\* The document is looked for, and process_web gets what has been read.
LEMMA Answers ==
  ASSUME WebInv, find_document \/ \E answers \in BOOLEAN : process_web_page(answers)
  PROVE  WebInv'
<1>1. UNCHANGED <<w_sent, w_left, w_net, w_buf, w_got, w_stalled>> /\ w_at \in {"find", "process"}
  BY DEF find_document, process_web_page, clientVars
<1>2. Read' = Read
  BY <1>1 DEF Read
<1>3. Received'
  BY <1>1, <1>2 DEF WebInv, Received
<1>4. w_at' \in {"process", "end"} /\ (w_ran' => w_at' = "end") /\ w_ran' \in BOOLEAN
  <2>1. w_ran \in BOOLEAN /\ ~w_ran
    BY <1>1 DEF WebInv, GotType, Parts
  <2>2. CASE find_document
    <3>1. w_ran' = w_ran /\ w_at' \in {"process", "end"}
      BY <2>2 DEF find_document
    <3> QED
      BY <2>1, <3>1
  <2>3. CASE \E answers \in BOOLEAN : process_web_page(answers)
    BY <2>3 DEF process_web_page
  <2> QED
    BY <2>2, <2>3
<1>5. GotType'
  BY <1>1, <1>4 DEF WebInv, GotType
<1>6. Made'
  BY <1>1, <1>2 DEF WebInv, Made, Whole
<1>7. Parts'
  BY <1>4 DEF Parts
<1>8. AtHeaders' /\ AtForm' /\ AtBody'
  BY <1>4 DEF AtHeaders, AtForm, AtBody
<1>9. AtEnd'
  BY <1>1 DEF WebInv, AtEnd, LineRead, HeadersRead, BodyRead
<1> QED
  BY <1>3, <1>5, <1>6, <1>7, <1>8, <1>9 DEF WebInv

\* Of no place nothing is chosen.
LEMMA ChosenNone ==
  ASSUME NEW s
  PROVE  Chosen(s, {}) = <<>>
<1>1. Cardinality({}) = 0
  BY FS_EmptySet
<1>2. 1..0 = {}
  OBVIOUS
<1> QED
  BY <1>1, <1>2 DEF Chosen

\* What is read after the headers.
LEMMA AfterHeadersIs ==
  /\ AfterHeaders \in {"find", "form", "body", "end"}
  /\ AfterHeaders = "find" => w_got.line # "POST"
  /\ AfterHeaders = "form" => w_got.line = "POST" /\ Has("multipart")
  /\ AfterHeaders = "body" => w_got.line = "POST" /\ ~Has("multipart")
BY DEF AfterHeaders

\* What is added to the body is added to all that was read.
LEMMA Regrouped ==
  ASSUME NEW S, NEW x \in S, NEW u \in Seq(S), NEW v \in Seq(S)
  PROVE  <<x>> \o (u \o v) \o <<>> = (<<x>> \o u \o <<>>) \o v
<1>1. <<x>> \in Seq(S) /\ <<x>> \o u \in Seq(S) /\ <<x>> \o (u \o v) \in Seq(S)
  OBVIOUS
<1>2. <<x>> \o (u \o v) = (<<x>> \o u) \o v
  BY <1>1, ConcatAssociative
<1>3. (<<x>> \o u) \o <<>> = <<x>> \o u /\ (<<x>> \o (u \o v)) \o <<>> = <<x>> \o (u \o v)
  BY <1>1, ConcatEmptySeq
<1> QED
  BY <1>2, <1>3

\* What follows the bytes that are kept is kept too.
LEMMA KeptGrows ==
  ASSUME Received, NEW kept \in SUBSET (1..Read), NEW L \in SUBSET (1..Len(w_sent)), \A l \in L : l > Read
  PROVE  Chosen(w_sent, kept \cup L) = Chosen(w_sent, kept) \o Chosen(w_sent, L)
<1> DEFINE n == Len(w_sent)
           s == w_sent
<1>1. n \in Nat /\ Read \in Nat /\ Read <= n
  BY RequestType DEF Received
<1>2. kept \in SUBSET (1..n)
  BY <1>1
<1>3. ASSUME NEW k \in kept, NEW l \in L PROVE k < l
  <2>1. k \in 1..Read /\ l \in 1..n /\ l > Read
    OBVIOUS
  <2> QED
    BY <1>1, <2>1
<1> HIDE DEF n
<1> QED
  BY <1>1, <1>2, <1>3, ChosenUnion DEF n

\* Bytes given up are no bytes.
LEMMA SameBytes ==
  ASSUME Received, UNCHANGED <<w_sent, w_buf, w_net, w_left>>
  PROVE  Received' /\ Read' = Read
<1>1. Read' = Read
  BY DEF Read
<1> QED
  BY <1>1 DEF Received

\* No byte of a blank line comes before the second end of a line.
LEMMA OneLine ==
  ASSUME NEW r \in Requests, NEW a \in Nat, NEW b \in 1..Len(r), a + 1 < b,
         a = 0 \/ (a > 0 /\ r[a] = "eol" /\ ~ \E j \in 1..a : Blank(r, j)),
         \A j \in (a + 1)..(b - 1) : r[j] # "eol"
  PROVE  ~ \E j \in 1..b : Blank(r, j)
<1>1. Len(r) \in Nat
  BY RequestSeq
<1> SUFFICES ASSUME NEW j \in 1..b, Blank(r, j) PROVE FALSE
  OBVIOUS
<1>2. j \in 2..Len(r) /\ r[j] = "eol" /\ r[j - 1] = "eol"
  BY DEF Blank
<1>3. a > 0 => ~ (j \in 1..a)
  OBVIOUS
<1>4. j > a
  BY <1>1, <1>2, <1>3
<1>5. ~ (j \in (a + 1)..(b - 1))
  BY <1>2
<1>6. j = b
  BY <1>1, <1>2, <1>4, <1>5
<1>7. j - 1 \in (a + 1)..(b - 1)
  BY <1>1, <1>6
<1> QED
  BY <1>2, <1>7

\* The request line is the first line that was sent, or the request is refused.
LEMMA RequestLine ==
  ASSUME WebInv, request_line
  PROVE  WebInv'
<1> DEFINE next == IF Line.text = <<>> \/ Head(Line.text) \in {"text", "dots"} THEN "end" ELSE "headers"
           got == [w_got EXCEPT !.line = IF Line.text = <<>> THEN "none" ELSE Head(Line.text)]
<1>1. w_at = "line" /\ gets(next, got)
  BY DEF request_line
<1>2. w_at' = next /\ w_got' = got /\ UNCHANGED <<w_sent, w_net, w_left, w_ran>>
  BY <1>1 DEF gets, clientVars, doneVars
<1>3. Received /\ Read = 0 /\ w_got.headers = <<>> /\ w_got.body = <<>> /\ ~w_stalled /\ w_stalled \in BOOLEAN
      /\ ~w_ran /\ w_ran \in BOOLEAN
      /\ w_got = [line |-> w_got.line, headers |-> w_got.headers, body |-> w_got.body]
  BY <1>1 DEF WebInv, Parts, GotType
<1>4. next \in {"end", "headers"}
  OBVIOUS
<1>5. got = [line |-> got.line, headers |-> <<>>, body |-> <<>>] /\ got.headers = <<>> /\ got.body = <<>>
  <2>1. ASSUME NEW x, NEW g, g = [w_got EXCEPT !.line = x]
        PROVE  g = [line |-> g.line, headers |-> <<>>, body |-> <<>>] /\ g.headers = <<>> /\ g.body = <<>>
    BY <1>3, <2>1
  <2> QED
    BY <2>1
<1> HIDE DEF next
<1>6. w_stalled' \in BOOLEAN
  BY <1>1, <1>3 DEF gets
<1>7. GotType'
  <2>1. <<>> \in Seq(STRING)
    OBVIOUS
  <2> HIDE DEF got
  <2> QED
    BY <1>2, <1>3, <1>4, <1>5, <1>6, <2>1 DEF GotType
<1>8. CASE w_buf' = w_buf /\ Line.text = <<>>
  <2>1. Received'
    BY <1>2, <1>3, <1>8, SameBytes
  <2>2. w_at' = "end"
    BY <1>2, <1>8 DEF next
  <2> QED
    BY <1>2, <1>3, <1>7, <2>1, <2>2, Refused
<1>9. CASE w_stalled' = w_stalled /\ \E p \in 1..Len(w_buf) : Takes(p)
  <2>1. PICK p \in 1..Len(w_buf) : Takes(p)
    BY <1>9
  <2>2. p \in 0..Len(w_buf) /\ p \in Nat /\ Len(w_buf) \in Nat
    BY <1>3, RequestType
  <2>3. /\ Received' /\ Read' = Read + p /\ Read + p <= Len(w_sent)
        /\ \A i \in 1..p : w_buf[i] = w_sent[Read + i]
    BY <1>2, <1>3, <2>1, <2>2, Advanced DEF Takes
  <2>4. CASE next = "end"
    BY <1>2, <1>3, <1>7, <2>3, <2>4, Refused
  <2>5. CASE next # "end"
    <3>1. next = "headers" /\ Line.text # <<>>
      BY <2>5 DEF next
    <3>2. Read' = p /\ Len(w_sent) \in Nat /\ p <= Len(w_sent) /\ \A i \in 1..p : w_buf[i] = w_sent[i]
      <4>1. \A i \in 1..p : Read + i = i
        BY <1>3
      <4> QED
        BY <1>3, <2>2, <2>3, <4>1, RequestType
    <3>3. p > 1
      <4>1. p = 1 => SubSeq(w_buf, 1, p - 1) = <<>>
        OBVIOUS
      <4> QED
        BY <2>1, <2>2, <3>1, <4>1 DEF Takes
    <3>4. Line.text = SubSeq(w_buf, 1, p - 1) /\ w_buf \in Seq(STRING) /\ w_sent \in Seq(STRING)
      BY <1>3, <2>1, RequestType DEF Takes, Received
    <3>5. Head(Line.text) = w_sent[1] /\ Head(w_sent) = w_sent[1]
      <4>1. Head(SubSeq(w_buf, 1, p - 1)) = w_buf[1]
        BY <2>2, <3>3, <3>4
      <4>2. 1 \in 1..p
        BY <2>2, <3>3
      <4>3. w_buf[1] = w_sent[1]
        BY <3>2, <4>2
      <4>4. w_sent # <<>>
        <5>1. Len(w_sent) # 0
          BY <2>2, <3>2, <3>3
        <5> QED
          BY <5>1
      <4>5. Head(w_sent) = w_sent[1]
        BY <3>4, <4>4
      <4>6. Head(Line.text) = Head(SubSeq(w_buf, 1, p - 1))
        BY <3>4
      <4> QED
        BY <4>1, <4>3, <4>5, <4>6
    <3>6. got.line = w_sent[1]
      BY <1>3, <3>1, <3>5
    <3> HIDE DEF got
    <3>7. w_buf[p] = "eol" /\ \A j \in 1..(p - 1) : w_buf[j] # "eol"
      BY <1>1, <2>1 DEF Takes, Delimiter
    <3>8. w_sent[p] = "eol" /\ \A j \in (0 + 1)..(p - 1) : w_sent[j] # "eol"
      BY <2>2, <3>2, <3>7
    <3>9. ~ \E j \in 1..p : Blank(w_sent, j)
      <4>1. p \in 1..Len(w_sent) /\ 0 + 1 < p /\ w_sent \in Requests
        BY <1>3, <2>2, <3>2, <3>3 DEF Received
      <4> QED
        BY <3>8, <4>1, OneLine
    <3>10. {k \in 1..p : w_sent[k] \in Header} = {}
      <4> SUFFICES ASSUME NEW k \in 1..p, w_sent[k] \in Header PROVE FALSE
        OBVIOUS
      <4>1. k \in DOMAIN w_sent /\ WellFormed(w_sent)
        BY <1>3, <2>2, <3>2, RequestType
      <4>2. InHeaders(w_sent, k)
        BY <4>1 DEF WellFormed
      <4>3. PICK j \in 1..(k - 1) : w_sent[j] = "eol"
        BY <4>2 DEF InHeaders
      <4>4. j \in (0 + 1)..(p - 1)
        BY <2>2
      <4> QED
        BY <3>8, <4>3, <4>4
    <3>11. Chosen(w_sent, {}) = <<>>
      BY ChosenNone
    <3>12. AtHeaders'
      <4>1. w_got'.headers = <<>> /\ w_got'.line = w_sent[1] /\ w_sent' = w_sent
        BY <1>2, <1>5, <3>6
      <4>2. w_stalled' = FALSE /\ Read' > 0 /\ w_sent'[Read'] = "eol"
        BY <1>2, <1>3, <1>9, <2>2, <3>2, <3>3, <3>8
      <4>3. ~ \E j \in 1..Read' : Blank(w_sent', j)
        BY <1>2, <3>2, <3>9
      <4>4. w_got'.headers = Chosen(w_sent', {k \in 1..Read' : w_sent'[k] \in Header})
        BY <3>2, <3>10, <3>11, <4>1
      <4>5. LineRead'
        BY <3>5, <4>1 DEF LineRead
      <4> QED
        BY <4>2, <4>3, <4>4, <4>5 DEF AtHeaders
    <3>13. Made'
      <4>1. Chosen(w_sent, 1..1) = <<w_sent[1]>>
        <5> DEFINE a == 1
                   b == 1
        <5>1. a \in 1..(Len(w_sent) + 1) /\ b \in 0..Len(w_sent) /\ a <= b + 1
          BY <2>2, <3>2
        <5>2. Chosen(w_sent, a..b) = [i \in 1..(b - a + 1) |-> w_sent[a + i - 1]]
          <6> HIDE DEF a, b
          <6> QED
            BY <3>4, <5>1, ChosenInterval
        <5>3. Chosen(w_sent, 1..1) = [i \in 1..1 |-> w_sent[i]]
          <6>1. \A i \in 1..(b - a + 1) : a + i - 1 = i
            OBVIOUS
          <6>2. b - a + 1 = 1
            OBVIOUS
          <6> QED
            BY <5>2, <6>1, <6>2
        <5> QED
          BY <5>3
      <4>2. Whole' = <<w_sent[1]>>
        <5>1. Whole' = <<w_sent[1]>> \o <<>> \o <<>>
          BY <1>2, <1>5, <3>6 DEF Whole
        <5> QED
          BY <5>1
      <4>3. 1..1 \in SUBSET (1..Read')
        BY <2>2, <3>2
      <4> QED
        BY <1>2, <4>1, <4>2, <4>3 DEF Made
    <3>14. Parts'
      BY <1>2, <1>3, <1>5, <3>1 DEF Parts
    <3>15. AtForm' /\ AtBody' /\ AtEnd'
      BY <1>2, <1>3, <3>1 DEF AtForm, AtBody, AtEnd
    <3> QED
      BY <1>7, <2>3, <3>12, <3>13, <3>14, <3>15 DEF WebInv
  <2> QED
    BY <2>4, <2>5
<1> QED
  BY <1>1, <1>3, <1>8, <1>9, GetsTakes

\* The bytes of headers are before the blank line.
LEMMA HeadersBefore ==
  ASSUME NEW r \in Requests, NEW e \in 1..Len(r), Blank(r, e)
  PROVE  Places(r, Header) = {k \in 1..(e - 1) : r[k] \in Header}
<1>1. Len(r) \in Nat /\ DOMAIN r = 1..Len(r) /\ WellFormed(r)
  BY RequestSeq
<1>2. ASSUME NEW k \in DOMAIN r, r[k] \in Header PROVE k \in 1..(e - 1)
  <2>1. ~ \E j \in 1..k : Blank(r, j)
    BY <1>1, <1>2 DEF WellFormed, InHeaders
  <2>2. ~ (e \in 1..k)
    BY <2>1
  <2> QED
    BY <1>1, <2>2
<1>3. 1..(e - 1) \subseteq DOMAIN r
  BY <1>1
<1> QED
  BY <1>2, <1>3 DEF Places

\* A byte is among the headers read when it is among those sent.
LEMMA HasIs ==
  ASSUME Received, HeadersRead, NEW h \in Header
  PROVE  Has(h) <=> \E k \in DOMAIN w_sent : w_sent[k] = h
<1> DEFINE n == Len(w_sent)
           K == Places(w_sent, Header)
           m == Cardinality(K)
<1>1. n \in Nat /\ K \in SUBSET (1..n) /\ DOMAIN w_sent = 1..n
  BY RequestType DEF Places
<1>2. Enumerates([i \in 1..m |-> Nth(K, i)], m, K)
  <2> HIDE DEF K, n
  <2> QED
    BY <1>1, CanCount
<1>3. w_got.headers = [i \in 1..m |-> w_sent[Nth(K, i)]]
  BY DEF HeadersRead, Chosen
<1>4. \A k : k \in K <=> k \in DOMAIN w_sent /\ w_sent[k] \in Header
  BY DEF Places
<1> HIDE DEF m, K
<1>5. (\A i \in 1..m : Nth(K, i) \in K) /\ \A k \in K : \E i \in 1..m : Nth(K, i) = k
  BY <1>2 DEF Enumerates
<1>6. ASSUME Has(h) PROVE \E k \in DOMAIN w_sent : w_sent[k] = h
  <2>1. PICK i \in 1..m : w_sent[Nth(K, i)] = h
    BY <1>3, <1>6 DEF Has
  <2> QED
    BY <1>4, <1>5, <2>1
<1>7. ASSUME NEW k \in DOMAIN w_sent, w_sent[k] = h PROVE Has(h)
  <2>1. PICK i \in 1..m : Nth(K, i) = k
    BY <1>4, <1>5, <1>7
  <2>2. i \in DOMAIN w_got.headers /\ w_got.headers[i] = h
    BY <1>3, <1>7, <2>1
  <2> QED
    BY <2>2 DEF Has
<1> QED
  BY <1>6, <1>7

\* A header is added to those before it; the empty line ends all of them.
LEMMA HeaderLine ==
  ASSUME WebInv, header
  PROVE  WebInv'
<1> DEFINE text == Line.text
           next == IF text = <<>> THEN AfterHeaders ELSE IF Head(text) = "text" THEN "end" ELSE "headers"
           got == [w_got EXCEPT !.headers = @ \o text]
<1>1. w_at = "headers" /\ gets(next, got)
  BY DEF header
<1>2. w_at' = next /\ w_got' = got /\ UNCHANGED <<w_sent, w_net, w_left, w_ran>>
  BY <1>1 DEF gets, clientVars, doneVars
<1>3. /\ Received /\ w_got.body = <<>> /\ ~w_stalled /\ w_stalled \in BOOLEAN
      /\ ~w_ran /\ w_ran \in BOOLEAN
      /\ w_got = [line |-> w_got.line, headers |-> w_got.headers, body |-> w_got.body]
      /\ w_got.headers \in Seq(STRING)
      /\ Read > 0 /\ w_sent[Read] = "eol" /\ LineRead
      /\ ~ \E j \in 1..Read : Blank(w_sent, j)
      /\ w_got.headers = Chosen(w_sent, {k \in 1..Read : w_sent[k] \in Header})
  BY <1>1 DEF WebInv, Parts, GotType, AtHeaders
<1>4. AfterHeaders \in {"end", "find", "form", "body"}
  BY AfterHeadersIs
<1>5. next \in {"end", "find", "form", "body", "headers"} /\ (text = <<>> => next = AfterHeaders)
  BY <1>4
<1>6. got.line = w_got.line /\ got.headers = w_got.headers \o text /\ got.body = <<>>
      /\ got = [line |-> got.line, headers |-> got.headers, body |-> got.body]
  <2>1. ASSUME NEW x, NEW g, g = [w_got EXCEPT !.headers = @ \o x]
        PROVE  g = [line |-> g.line, headers |-> g.headers, body |-> g.body]
               /\ g.headers = w_got.headers \o x /\ g.body = <<>> /\ g.line = w_got.line
    BY <1>3, <2>1
  <2> QED
    BY <2>1
<1>7. w_stalled' \in BOOLEAN
  BY <1>1, <1>3 DEF gets
<1>8. PICK kept \in SUBSET (1..Read) : Whole = Chosen(w_sent, kept)
  BY <1>1 DEF WebInv, Made
<1> HIDE DEF got
<1>9. ASSUME Received', text \in Seq(STRING) PROVE GotType'
  <2>1. got.headers \in Seq(STRING) /\ got.body \in Seq(STRING)
    BY <1>3, <1>6, <1>9
  <2> HIDE DEF next, text
  <2> QED
    BY <1>2, <1>3, <1>5, <1>6, <1>7, <2>1 DEF GotType
<1>10. CASE w_stalled' = TRUE /\ text = <<>> /\ w_buf' = w_buf
  <2>1. Received' /\ Read' = Read
    BY <1>2, <1>3, <1>10, SameBytes
  <2>2. text \in Seq(STRING) /\ got.headers = w_got.headers
    BY <1>3, <1>6, <1>10
  <2>3. GotType'
    BY <1>9, <2>1, <2>2
  <2>4. w_at' \in {"end", "find", "form", "body"}
    BY <1>2, <1>4, <1>5, <1>10
  <2>5. Made'
    <3>1. Whole' = Whole
      BY <1>2, <1>3, <1>6, <2>2 DEF Whole
    <3> QED
      BY <1>2, <1>8, <2>1, <3>1 DEF Made
  <2>6. Parts'
    <3>1. w_got'.body = <<>> /\ Len(w_got'.body) = 0
      BY <1>2, <1>6
    <3>2. Count' \in Nat
      <4>1. w_sent' \in Requests /\ Places(w_sent', Body) \in SUBSET (1..Len(w_sent')) /\ Len(w_sent') \in Nat
        BY <1>2, <1>3, RequestType DEF Received, Places
      <4> QED
        BY <4>1, PlacesFinite DEF Count
    <3> QED
      BY <1>2, <1>3, <2>4, <3>1, <3>2 DEF Parts
  <2>7. AtHeaders' /\ AtForm' /\ AtBody' /\ AtEnd'
    BY <1>10, <2>4 DEF AtHeaders, AtForm, AtBody, AtEnd
  <2> QED
    BY <2>1, <2>3, <2>5, <2>6, <2>7 DEF WebInv
<1>11. CASE w_stalled' = w_stalled /\ \E p \in 1..Len(w_buf) : Takes(p)
  <2>1. PICK p \in 1..Len(w_buf) : Takes(p)
    BY <1>11
  <2>2. p \in 0..Len(w_buf) /\ p \in Nat /\ p > 0 /\ Len(w_buf) \in Nat /\ Read \in Nat
    BY <1>3, RequestType DEF Received
  <2>3. /\ Received' /\ Read' = Read + p /\ Read + p <= Len(w_sent)
        /\ \A i \in 1..p : w_buf[i] = w_sent[Read + i]
    BY <1>2, <1>3, <2>1, <2>2, Advanced DEF Takes
  <2> DEFINE q == p - 1
             L == (Read + 1)..(Read + q)
  <2>4. q \in 0..Len(w_buf) /\ q \in Nat /\ text = SubSeq(w_buf, 1, q)
    BY <2>1, <2>2 DEF Takes
  <2>5. text = Chosen(w_sent, L) /\ L \subseteq 1..Len(w_sent) /\ text \in Seq(STRING) /\ Len(text) = q
    <3> HIDE DEF text, q
    <3> QED
      BY <1>3, <2>4, NextBytes
  <2>6. GotType'
    BY <1>9, <2>3, <2>5
  <2>7. CASE next = "end"
    <3> HIDE DEF next, text
    <3> QED
      BY <1>2, <1>3, <2>3, <2>6, <2>7, Refused
  <2>8. w_sent[Read + p] = "eol" /\ \A j \in (Read + 1)..((Read + p) - 1) : w_sent[j] # "eol"
    <3>1. w_buf[p] = "eol" /\ \A j \in 1..(p - 1) : w_buf[j] # "eol"
      BY <1>1, <2>1 DEF Takes, Delimiter
    <3>2. p \in 1..p
      BY <2>2
    <3>3. ASSUME NEW j \in (Read + 1)..((Read + p) - 1) PROVE w_sent[j] # "eol"
      <4> DEFINE i == j - Read
      <4>1. i \in 1..(p - 1) /\ i \in 1..p /\ Read + i = j
        BY <2>2
      <4>2. w_buf[i] = w_sent[Read + i] /\ w_buf[i] # "eol"
        <5> HIDE DEF i
        <5> QED
          BY <2>3, <3>1, <4>1
      <4> QED
        BY <4>1, <4>2
    <3> QED
      BY <2>3, <3>1, <3>2, <3>3
  <2>9. Made'
    <3>1. L \in SUBSET (1..Len(w_sent)) /\ \A l \in L : l > Read
      BY <2>2, <2>5
    <3>2. Chosen(w_sent, kept \cup L) = Whole \o text
      <4> HIDE DEF L, text
      <4> QED
        BY <1>3, <1>8, <2>5, <3>1, KeptGrows
    <3>3. Whole' = Whole \o text
      <4>1. Whole' = <<w_got.line>> \o (w_got.headers \o text) \o <<>> /\ Whole = <<w_got.line>> \o w_got.headers \o <<>>
        BY <1>2, <1>3, <1>6 DEF Whole
      <4> DEFINE S == STRING \cup {w_got.line}
      <4>3. w_got.headers \in Seq(S) /\ text \in Seq(S) /\ w_got.line \in S
        <5> HIDE DEF text
        <5> QED
          BY <1>3, <2>5
      <4> HIDE DEF S, text
      <4>4. <<w_got.line>> \o (w_got.headers \o text) \o <<>> = (<<w_got.line>> \o w_got.headers \o <<>>) \o text
        <5>1. ASSUME NEW x \in S, NEW u \in Seq(S), NEW v \in Seq(S)
              PROVE  <<x>> \o (u \o v) \o <<>> = (<<x>> \o u \o <<>>) \o v
          BY Regrouped
        <5> DEFINE x == w_got.line
                   u == w_got.headers
        <5>2. x \in S /\ u \in Seq(S) /\ text \in Seq(S)
          BY <4>3
        <5> HIDE DEF x, u
        <5>3. <<x>> \o (u \o text) \o <<>> = (<<x>> \o u \o <<>>) \o text
          BY <5>1, <5>2
        <5> QED
          BY <5>3 DEF x, u
      <4> QED
        BY <4>1, <4>4
    <3>4. kept \cup L \in SUBSET (1..Read')
      <4>1. 1..Read \subseteq 1..(Read + p) /\ L \subseteq 1..(Read + p)
        BY <2>2
      <4> HIDE DEF L
      <4> QED
        BY <2>3, <4>1
    <3> HIDE DEF L, text
    <3> QED
      BY <1>2, <3>2, <3>3, <3>4 DEF Made
  <2>10. CASE next = "headers"
    <3>1. text # <<>> /\ Head(text) # "text"
      BY <1>4, <2>10
    <3>2. p > 1
      <4>1. Len(text) # 0
        <5> HIDE DEF text
        <5> QED
          BY <2>5, <3>1
      <4> QED
        BY <2>2, <2>5, <4>1
    <3>3. ~ \E j \in 1..Read' : Blank(w_sent', j)
      <4> DEFINE b == Read + p
      <4>1. b \in 1..Len(w_sent) /\ Read + 1 < b /\ w_sent \in Requests
        <5>1. w_sent \in Requests
          BY <1>3 DEF Received
        <5> QED
          BY <2>2, <2>3, <3>2, <5>1
      <4>2. \A j \in (Read + 1)..(b - 1) : w_sent[j] # "eol"
        BY <2>8
      <4> HIDE DEF b
      <4>3. ~ \E j \in 1..b : Blank(w_sent, j)
        BY <1>3, <2>2, <4>1, <4>2, OneLine
      <4> QED
        BY <1>2, <2>3, <4>3 DEF b
    <3>4. {k \in 1..(Read + p) : w_sent[k] \in Header} = {k \in 1..Read : w_sent[k] \in Header} \cup L
      <4>1. ASSUME NEW k \in L PROVE w_sent[k] \in Header
        <5>1. k \in DOMAIN w_sent /\ WellFormed(w_sent) /\ k \in 1..(Read + p)
          BY <1>3, <2>2, <2>5, RequestType
        <5>2. InHeaders(w_sent, k)
          <6>1. Read \in 1..(k - 1)
            BY <1>3, <2>2
          <6>2. \A j \in 1..k : j \in 1..Read'
            BY <2>2, <2>3
          <6> QED
            BY <1>2, <1>3, <3>3, <6>1, <6>2 DEF InHeaders
        <5>3. w_sent[k] \in Header \cup {"eol"} \/ (w_sent[k] = "text" /\ w_sent[k - 1] = "eol")
          BY <5>1, <5>2 DEF WellFormed
        <5>4. k \in (Read + 1)..((Read + p) - 1)
          BY <2>2
        <5>5. CASE k = Read + 1
          <6>1. Head(text) = w_buf[1] /\ w_buf[1] = w_sent[Read + 1]
            <7>1. w_buf \in Seq(STRING)
              BY <1>3 DEF Received
            <7>2. Head(SubSeq(w_buf, 1, p - 1)) = w_buf[1]
              BY <2>2, <3>2, <7>1
            <7>3. 1 \in 1..p
              BY <2>2
            <7> QED
              BY <2>3, <2>4, <7>2, <7>3
          <6> QED
            BY <2>8, <3>1, <5>3, <5>4, <5>5, <6>1
        <5>6. CASE k # Read + 1
          <6>1. k - 1 \in (Read + 1)..((Read + p) - 1)
            BY <2>2, <5>6
          <6> QED
            BY <2>8, <5>3, <5>4, <6>1
        <5> QED
          BY <5>5, <5>6
      <4>2. ASSUME NEW k \in 1..(Read + p), w_sent[k] \in Header PROVE k \in 1..Read \/ k \in L
        <5>1. k # Read + p
          BY <2>8, <4>2, WebAssumption
        <5> QED
          BY <2>2, <5>1
      <4>3. 1..Read \subseteq 1..(Read + p) /\ L \subseteq 1..(Read + p)
        BY <2>2
      <4> HIDE DEF L
      <4> QED
        BY <4>1, <4>2, <4>3
    <3>5. AtHeaders'
      <4>1. Chosen(w_sent, {k \in 1..Read : w_sent[k] \in Header} \cup L) = w_got.headers \o text
        <5> DEFINE K == {k \in 1..Read : w_sent[k] \in Header}
        <5>1. L \in SUBSET (1..Len(w_sent)) /\ (\A l \in L : l > Read) /\ K \in SUBSET (1..Read)
          BY <2>2, <2>5
        <5> HIDE DEF K, L, text
        <5>2. Chosen(w_sent, K \cup L) = Chosen(w_sent, K) \o Chosen(w_sent, L)
          BY <1>3, <5>1, KeptGrows
        <5> QED
          BY <1>3, <2>5, <5>2 DEF K
      <4>2. w_got'.headers = Chosen(w_sent', {k \in 1..Read' : w_sent'[k] \in Header})
        <5>1. w_got'.headers = w_got.headers \o text /\ w_sent' = w_sent
          BY <1>2, <1>6
        <5> QED
          BY <2>3, <3>4, <4>1, <5>1
      <4>3. LineRead' /\ w_stalled' = FALSE /\ Read' > 0 /\ w_sent'[Read'] = "eol"
        BY <1>2, <1>3, <1>6, <1>11, <2>2, <2>3, <2>8 DEF LineRead
      <4> QED
        BY <3>3, <4>2, <4>3 DEF AtHeaders
    <3>6. Parts'
      <4> HIDE DEF text, next
      <4> QED
        BY <1>2, <1>3, <1>6, <2>10 DEF Parts
    <3>7. AtForm' /\ AtBody' /\ AtEnd'
      <4> HIDE DEF text, next
      <4> QED
        BY <1>2, <1>3, <2>10 DEF AtForm, AtBody, AtEnd
    <3> QED
      BY <2>3, <2>6, <2>9, <3>5, <3>6, <3>7 DEF WebInv
  <2>11. CASE next \in {"find", "form", "body"}
    <3>1. text = <<>> /\ next = AfterHeaders
      BY <2>11
    <3>2. p = 1 /\ got.headers = w_got.headers
      <4>1. Len(text) = 0
        BY <3>1
      <4>2. w_got.headers \o <<>> = w_got.headers
        BY <1>3
      <4>3. q = 0
        BY <2>5, <4>1
      <4>4. got.headers = w_got.headers
        <5> HIDE DEF text
        <5> QED
          BY <1>6, <3>1, <4>2
      <4> HIDE DEF text
      <4> QED
        BY <2>2, <4>3, <4>4
    <3>0. PICK e \in Nat : e = Read + 1
      BY <2>2
    <3>3. Read' = e /\ e \in 1..Len(w_sent) /\ Blank(w_sent, e) /\ w_sent \in Requests
      <4>1. e \in 2..Len(w_sent) /\ w_sent[e] = "eol" /\ e - 1 = Read /\ Read' = e
        <5>1. Len(w_sent) \in Nat /\ Read + p = e /\ Read' = e /\ e <= Len(w_sent) /\ w_sent[Read + p] = "eol"
          BY <1>3, <2>3, <2>8, <3>0, <3>2, RequestType
        <5> QED
          BY <1>3, <2>2, <3>0, <5>1
      <4>2. w_sent \in Requests /\ Len(w_sent) \in Nat
        BY <1>3, RequestType DEF Received
      <4>3. e \in 1..Len(w_sent)
        BY <4>1, <4>2
      <4> QED
        BY <1>3, <4>1, <4>2, <4>3 DEF Blank
    <3>4. HeadEnds(e)
      <4>1. e - 1 = Read
        BY <2>2, <3>0
      <4> QED
        BY <1>3, <3>3, <4>1 DEF HeadEnds
    <3>5. HeadersRead
      <4>1. e - 1 = Read
        BY <2>2, <3>0
      <4>2. Places(w_sent, Header) = {k \in 1..(e - 1) : w_sent[k] \in Header}
        BY <3>3, HeadersBefore
      <4> QED
        BY <1>3, <4>1, <4>2 DEF HeadersRead
    <3>6. HeadersRead' /\ LineRead' /\ (HeadEnds(e))' /\ w_got'.line = w_got.line /\ w_got'.body = <<>> /\ IsForm' = IsForm
      <4>1. w_got'.headers = w_got.headers /\ w_got'.line = w_got.line /\ w_got'.body = <<>> /\ w_sent' = w_sent
        BY <1>2, <1>6, <3>2
      <4>2. HeadersRead' /\ LineRead' /\ IsForm' = IsForm
        BY <1>3, <3>5, <4>1 DEF HeadersRead, LineRead, IsForm
      <4>3. (HeadEnds(e))'
        BY <1>2, <3>4 DEF HeadEnds
      <4> QED
        BY <4>1, <4>2, <4>3
    <3>7. Has("multipart") <=> IsForm
      BY <1>3, <3>5, HasIs, WebAssumption DEF IsForm
    <3>8. Parts'
      <4>1. Count' \in Nat
        <5>1. w_sent' = w_sent /\ Places(w_sent, Body) \in SUBSET (1..Len(w_sent)) /\ Len(w_sent) \in Nat
          BY <1>2, <1>3, RequestType DEF Places
        <5> QED
          BY <5>1, PlacesFinite DEF Count
      <4>2. Len(w_got'.body) = 0
        BY <3>6
      <4>3. w_at' \in {"find", "form", "body"} /\ ~w_ran'
        BY <1>2, <1>3, <2>11
      <4> QED
        BY <3>6, <4>1, <4>2, <4>3 DEF Parts
    <3>9. AtHeaders'
      <4>1. w_at' # "headers"
        BY <1>2, <2>11
      <4> QED
        BY <4>1 DEF AtHeaders
    <3>10. AtForm'
      <4> SUFFICES ASSUME w_at' = "form" PROVE HeadEnds(Read)' /\ LineRead' /\ HeadersRead' /\ w_got'.line = "POST" /\ IsForm'
        BY DEF AtForm
      <4>1. AfterHeaders = "form"
        BY <1>2, <3>1
      <4>2. w_got.line = "POST" /\ Has("multipart")
        BY <4>1, AfterHeadersIs
      <4>3. HeadEnds(Read)'
        BY <3>3, <3>6 DEF HeadEnds
      <4> QED
        BY <3>6, <3>7, <4>2, <4>3
    <3>11. AtBody'
      <4> SUFFICES ASSUME w_at' = "body"
                   PROVE  /\ LineRead' /\ HeadersRead' /\ w_got'.line = "POST" /\ ~IsForm'
                          /\ \E f \in 1..Read' : (HeadEnds(f))' /\ w_got'.body = Chosen(w_sent', (f + 1)..Read')
        BY DEF AtBody
      <4>1. AfterHeaders = "body"
        BY <1>2, <3>1
      <4>2. w_got.line = "POST" /\ ~Has("multipart")
        BY <4>1, AfterHeadersIs
      <4>3. (e + 1)..Read' = {}
        BY <3>0, <3>3
      <4>4. Chosen(w_sent', (e + 1)..Read') = <<>>
        BY <4>3, ChosenNone
      <4>5. e \in 1..Read'
        BY <3>3
      <4> QED
        BY <3>6, <3>7, <4>2, <4>4, <4>5
    <3>12. AtEnd'
      <4> SUFFICES ASSUME w_at' = "find" PROVE LineRead' /\ HeadersRead' /\ BodyRead'
        BY <1>2, <1>3, <2>11 DEF AtEnd
      <4>1. AfterHeaders = "find"
        BY <1>2, <3>1
      <4>2. w_got.line # "POST"
        BY <4>1, AfterHeadersIs
      <4>3. w_got'.line # "POST"
        BY <3>6, <4>2
      <4> QED
        BY <3>6, <4>3 DEF BodyRead
    <3> QED
      BY <2>3, <2>6, <2>9, <3>8, <3>9, <3>10, <3>11, <3>12 DEF WebInv
  <2> QED
    BY <1>5, <2>7, <2>10, <2>11
<1> QED
  BY <1>1, <1>3, <1>10, <1>11, GetsTakes

\* The headers take too long, or no more of the body comes.
LEMMA GivenUp ==
  ASSUME WebInv, headers_late \/ body_fails
  PROVE  WebInv'
<1>1. /\ UNCHANGED <<w_sent, w_left, w_net, w_buf, w_got, w_ran>>
      /\ w_at' = "end" /\ w_at \in {"headers", "body"} /\ w_stalled' \in {w_stalled, TRUE}
  BY DEF headers_late, body_fails, clientVars, doneVars
<1>2. Received'
  BY <1>1, SameBytes DEF WebInv
<1>3. GotType' /\ ~w_ran'
  BY <1>1 DEF WebInv, GotType, Parts
<1> QED
  BY <1>1, <1>2, <1>3, Refused

\* Where the counted body is.
LEMMA BodyPlaces ==
  ASSUME Received, ~IsForm, NEW e \in 1..Len(w_sent), HeadEnds(e)
  PROVE  Places(w_sent, Body) = (e + 1)..(e + Count) /\ Count \in Nat
<1> DEFINE B == Places(w_sent, Body)
           n == Len(w_sent)
<1>1. n \in Nat /\ DOMAIN w_sent = 1..n /\ WellFormed(w_sent) /\ B \in SUBSET (1..n) /\ Blank(w_sent, e)
  BY RequestType DEF Places, HeadEnds
<1>2. IsFiniteSet(B) /\ Count \in Nat /\ Cardinality(B) = Count
  <2> HIDE DEF B, n
  <2>1. IsFiniteSet(B) /\ Cardinality(B) \in Nat
    BY <1>1, PlacesFinite
  <2> QED
    BY <2>1 DEF Count, B
<1>3. ASSUME NEW i \in B PROVE i > e
  <2>1. i \in DOMAIN w_sent /\ w_sent[i] \in Body
    BY DEF Places
  <2>2. AfterHead(w_sent, i)
    BY <1>1, <2>1 DEF WellFormed
  <2>3. PICK j \in 1..(i - 1) : Blank(w_sent, j)
    BY <2>2 DEF AfterHead
  <2>4. ~ (j \in 1..(e - 1))
    BY <2>3 DEF HeadEnds
  <2>5. i \in Nat /\ j \in Nat
    BY <1>1, <2>1
  <2> QED
    BY <1>1, <2>4, <2>5
<1>4. ASSUME NEW i \in B, NEW j \in (e + 1)..i PROVE j \in B
  <2>1. i \in DOMAIN w_sent /\ w_sent[i] \in Body
    BY DEF Places
  <2>2. j \in 1..i /\ j \in 1..n /\ e \in 1..(j - 1)
    BY <1>1, <2>1
  <2>3. AfterHead(w_sent, j)
    BY <1>1, <2>2 DEF AfterHead
  <2>4. w_sent[j] \in Body
    BY <1>1, <2>1, <2>2, <2>3 DEF WellFormed, IsForm
  <2> QED
    BY <1>1, <2>2, <2>4 DEF Places
<1> HIDE DEF B, n
<1>5. ASSUME NEW i \in B PROVE i \in (e + 1)..(e + Count)
  <2>1. i \in Nat /\ i > e /\ e \in Nat
    BY <1>1, <1>3
  <2> DEFINE a == e + 1
             I == a..i
  <2>2. I \in SUBSET B
    BY <1>4
  <2>3. Cardinality(I) <= Cardinality(B)
    <3> HIDE DEF I
    <3> QED
      BY <1>2, <2>2, FS_Subset
  <2>4. Cardinality(I) = i - e
    <3>1. a \in Int /\ i \in Int /\ ~ (a > i) /\ i - a + 1 = i - e
      BY <2>1
    <3> HIDE DEF a
    <3> QED
      BY <3>1, FS_Interval
  <2> HIDE DEF I
  <2>5. i - e <= Count
    BY <1>2, <2>3, <2>4
  <2> QED
    BY <1>2, <2>1, <2>5
<1>6. (e + 1)..(e + Count) = B
  <2> DEFINE I == (e + 1)..(e + Count)
  <2>1. IsFiniteSet(I) /\ Cardinality(I) = Count
    <3> DEFINE a == e + 1
               b == e + Count
    <3>1. a \in Int /\ b \in Int /\ (IF a > b THEN 0 ELSE b - a + 1) = Count
      BY <1>1, <1>2
    <3> HIDE DEF a, b
    <3>2. IsFiniteSet(a..b) /\ Cardinality(a..b) = Count
      BY <3>1, FS_Interval
    <3> QED
      BY <3>2 DEF a, b
  <2>2. B \in SUBSET I
    BY <1>5
  <2> HIDE DEF I
  <2>3. I = B
    BY <1>2, <2>1, <2>2, FS_Subset
  <2> QED
    BY <2>3 DEF I
<1> QED
  BY <1>2, <1>6 DEF B

\* A piece of the body goes on where the last one ended, and not past the end.
LEMMA RecvBody ==
  ASSUME WebInv, recv_body
  PROVE  WebInv'
<1> DEFINE n == IF Len(w_buf) <= Wanted THEN Len(w_buf) ELSE Wanted
<1>1. /\ w_at = "body"
      /\ w_got' = [w_got EXCEPT !.body = @ \o SubSeq(w_buf, 1, n)]
      /\ w_buf' = SubSeq(w_buf, n + 1, Len(w_buf))
      /\ w_at' = IF Len(w_got'.body) >= Count THEN "find" ELSE "body"
      /\ UNCHANGED <<w_sent, w_net, w_left, w_ran, w_stalled>>
  BY DEF recv_body, clientVars, doneVars
<1>2. /\ Received /\ Len(w_got.body) <= Count /\ w_stalled \in BOOLEAN /\ ~w_ran /\ w_ran \in BOOLEAN
      /\ w_got = [line |-> w_got.line, headers |-> w_got.headers, body |-> w_got.body]
      /\ w_got.headers \in Seq(STRING) /\ w_got.body \in Seq(STRING)
  BY <1>1 DEF WebInv, Parts, GotType
<1>3. Count \in Nat /\ Len(w_got.body) \in Nat /\ Len(w_buf) \in Nat /\ Read \in Nat /\ w_buf \in Seq(STRING) /\ Len(w_sent) \in Nat
  <2>1. Places(w_sent, Body) \in SUBSET (1..Len(w_sent)) /\ Len(w_sent) \in Nat
    BY <1>2, RequestType DEF Places
  <2>2. Count \in Nat
    BY <2>1, PlacesFinite DEF Count
  <2> QED
    BY <1>2, <2>1, <2>2, RequestType DEF Received
<1>4. n \in 0..Len(w_buf) /\ n \in Nat /\ n <= Count - Len(w_got.body)
  BY <1>2, <1>3 DEF Wanted
<1> HIDE DEF n
<1> DEFINE text == SubSeq(w_buf, 1, n)
           L == (Read + 1)..(Read + n)
<1>5. /\ Received' /\ Read' = Read + n /\ Read + n <= Len(w_sent)
  BY <1>1, <1>2, <1>4, Advanced
<1>6. text = Chosen(w_sent, L) /\ L \subseteq 1..Len(w_sent) /\ text \in Seq(STRING) /\ Len(text) = n
  BY <1>2, <1>4, NextBytes
<1>7. w_got'.line = w_got.line /\ w_got'.headers = w_got.headers /\ w_got'.body = w_got.body \o text
      /\ w_got' = [line |-> w_got'.line, headers |-> w_got'.headers, body |-> w_got'.body]
  <2>1. ASSUME NEW x, NEW g, g = [w_got EXCEPT !.body = @ \o x]
        PROVE  g = [line |-> g.line, headers |-> g.headers, body |-> g.body]
               /\ g.headers = w_got.headers /\ g.body = w_got.body \o x /\ g.line = w_got.line
    BY <1>2, <2>1
  <2> QED
    BY <1>1, <2>1
<1> HIDE DEF text
<1>8. w_got'.body \in Seq(STRING) /\ Len(w_got'.body) = Len(w_got.body) + n
  BY <1>2, <1>6, <1>7
<1>9. GotType'
  <2>1. w_at' \in {"find", "body"}
    BY <1>1
  <2> QED
    BY <1>1, <1>2, <1>7, <1>8, <2>1 DEF GotType
<1>10. Made'
  <2>1. PICK kept \in SUBSET (1..Read) : Whole = Chosen(w_sent, kept)
    BY <1>1 DEF WebInv, Made
  <2>2. L \in SUBSET (1..Len(w_sent)) /\ \A l \in L : l > Read
    BY <1>3, <1>6
  <2>3. Chosen(w_sent, kept \cup L) = Whole \o text
    <3> HIDE DEF L
    <3> QED
      BY <1>2, <1>6, <2>1, <2>2, KeptGrows
  <2>4. Whole' = Whole \o text
    <3> DEFINE S == STRING \cup {w_got.line}
               h == <<w_got.line>> \o w_got.headers
    <3>1. h \in Seq(S) /\ w_got.body \in Seq(S) /\ text \in Seq(S)
      BY <1>2, <1>6
    <3>2. Whole = h \o w_got.body /\ Whole' = h \o (w_got.body \o text)
      BY <1>7 DEF Whole
    <3> HIDE DEF S, h
    <3> DEFINE b == w_got.body
    <3>3. b \in Seq(S) /\ h \in Seq(S) /\ text \in Seq(S)
      BY <3>1
    <3> HIDE DEF b
    <3>4. h \o (b \o text) = (h \o b) \o text
      BY <3>3, ConcatAssociative
    <3> QED
      BY <3>2, <3>4 DEF b
  <2>5. kept \cup L \in SUBSET (1..Read')
    <3>1. 1..Read \subseteq 1..(Read + n) /\ L \subseteq 1..(Read + n)
      BY <1>3, <1>4
    <3> HIDE DEF L
    <3> QED
      BY <1>5, <3>1
  <2> HIDE DEF L
  <2> QED
    BY <1>1, <2>3, <2>4, <2>5 DEF Made
<1>11. Parts'
  <2>1. Count' = Count
    BY <1>1 DEF Count
  <2>2. Len(w_got'.body) <= Count
    BY <1>2, <1>3, <1>4, <1>8
  <2>3. w_at' \in {"find", "body"} /\ ~w_ran'
    BY <1>1, <1>2
  <2> QED
    BY <2>1, <2>2, <2>3 DEF Parts
<1>12. AtHeaders' /\ AtForm'
  BY <1>1 DEF AtHeaders, AtForm
<1>13. CASE w_stalled
  <2>1. w_stalled' = TRUE
    BY <1>1, <1>13
  <2>2. AtBody' /\ AtEnd'
    BY <2>1 DEF AtBody, AtEnd
  <2> QED
    BY <1>5, <1>9, <1>10, <1>11, <1>12, <2>2 DEF WebInv
<1>14. CASE ~w_stalled
  <2>1. LineRead /\ HeadersRead /\ w_got.line = "POST" /\ ~IsForm
        /\ \E e \in 1..Read : HeadEnds(e) /\ w_got.body = Chosen(w_sent, (e + 1)..Read)
    BY <1>1, <1>14 DEF WebInv, AtBody
  <2>2. PICK e \in 1..Read : HeadEnds(e) /\ w_got.body = Chosen(w_sent, (e + 1)..Read)
    BY <2>1
  <2>3. e \in Nat /\ e >= 1 /\ e <= Read /\ Read <= Len(w_sent) /\ e \in 1..Len(w_sent)
    BY <1>3, <1>4, <1>5
  <2> DEFINE K == (e + 1)..Read
  <2>4. w_got'.body = Chosen(w_sent, (e + 1)..(Read + n))
    <3>1. K \in SUBSET (1..Len(w_sent)) /\ K \in SUBSET (1..Read) /\ L \in SUBSET (1..Len(w_sent)) /\ \A l \in L : l > Read
      BY <1>3, <1>6, <2>3
    <3>2. (e + 1)..(Read + n) = K \cup L
      BY <1>3, <1>4, <2>3
    <3> HIDE DEF K, L
    <3>3. Chosen(w_sent, K \cup L) = Chosen(w_sent, K) \o Chosen(w_sent, L)
      BY <1>2, <3>1, KeptGrows
    <3> QED
      BY <1>6, <1>7, <2>2, <3>2, <3>3 DEF K
  <2>5. Len(w_got.body) = Read - e
    <3> DEFINE a == e + 1
               b == Read
    <3>1. a \in 1..(Len(w_sent) + 1) /\ b \in 0..Len(w_sent) /\ a <= b + 1 /\ b - a + 1 = Read - e /\ w_sent \in Seq(STRING)
      BY <1>2, <1>3, <2>3, RequestType
    <3> HIDE DEF a, b
    <3>2. Cardinality(a..b) = Read - e
      BY <3>1, ChosenInterval
    <3>3. Chosen(w_sent, a..b) = [i \in 1..(Read - e) |-> w_sent[Nth(a..b, i)]]
      BY <3>2 DEF Chosen
    <3>4. Read - e \in Nat
      BY <1>3, <2>3
    <3>5. Len([i \in 1..(Read - e) |-> w_sent[Nth(a..b, i)]]) = Read - e
      BY <3>4
    <3> QED
      BY <2>2, <3>3, <3>5 DEF a, b
  <2>6. LineRead' /\ HeadersRead' /\ w_got'.line = "POST" /\ ~IsForm' /\ (HeadEnds(e))'
    BY <1>1, <1>7, <2>1, <2>2 DEF LineRead, HeadersRead, IsForm, HeadEnds
  <2>7. AtBody'
    <3>2. w_got'.body = Chosen(w_sent', (e + 1)..Read')
      BY <1>1, <1>5, <2>4
    <3>3. e \in 1..(Read + n)
      BY <1>3, <1>4, <2>3
    <3>1. e \in 1..Read' /\ w_got'.body = Chosen(w_sent', (e + 1)..Read')
      BY <1>5, <3>2, <3>3
    <3> QED
      BY <2>6, <3>1 DEF AtBody
  <2>8. AtEnd'
    <3> SUFFICES ASSUME w_at' = "find" PROVE LineRead' /\ HeadersRead' /\ BodyRead'
      BY <1>1, <1>2 DEF AtEnd
    <3>1. Len(w_got.body) + n >= Count
      BY <1>1, <1>8
    <3>2. Read + n = e + Count
      <4>1. \A a, b, c, x, y \in Nat : c <= a /\ x = a - c /\ x + y >= b /\ y <= b - x => a + y = c + b
        OBVIOUS
      <4>2. Read \in Nat /\ Count \in Nat /\ e \in Nat /\ Len(w_got.body) \in Nat /\ n \in Nat
        BY <1>3, <1>4, <2>3
      <4> QED
        BY <1>4, <2>3, <2>5, <3>1, <4>1, <4>2
    <3>3. Places(w_sent, Body) = (e + 1)..(e + Count)
      BY <1>2, <2>1, <2>2, <2>3, BodyPlaces
    <3>4. w_got'.body = Chosen(w_sent', Places(w_sent', Body))
      BY <1>1, <2>4, <3>2, <3>3
    <3> QED
      BY <2>6, <3>4 DEF BodyRead
  <2> QED
    BY <1>5, <1>9, <1>10, <1>11, <1>12, <2>7, <2>8 DEF WebInv
<1> QED
  BY <1>13, <1>14

\* Where the bytes of a form are, when none of its parts is malformed.
LEMMA FormPlaces ==
  ASSUME Received, IsForm, HeadEnds(Read), NEW p \in 1..Len(w_buf), w_buf[p] = "end",
         \A j \in 1..(p - 1) : w_buf[j] # "end" /\ w_buf[j] # "text"
  PROVE  Places(w_sent, Body) = {Read + k : k \in {j \in 1..(p - 1) : w_buf[j] # "boundary"}}
<1> DEFINE e == Read
           n == Len(w_sent)
           F == {j \in 1..(p - 1) : w_buf[j] # "boundary"}
<1>1. /\ n \in Nat /\ DOMAIN w_sent = 1..n /\ WellFormed(w_sent) /\ Blank(w_sent, e) /\ e \in 1..n
      /\ Len(w_buf) \in Nat /\ DOMAIN w_buf = 1..Len(w_buf) /\ e + Len(w_buf) <= n
  BY RequestType DEF HeadEnds, Received, Blank
<1>2. ASSUME NEW j \in 1..p PROVE w_sent[e + j] = w_buf[j] /\ e + j \in 1..n /\ AfterHead(w_sent, e + j)
  <2>1. j \in DOMAIN w_buf /\ e + j \in 1..n /\ e \in 1..((e + j) - 1)
    BY <1>1
  <2>2. AfterHead(w_sent, e + j)
    BY <1>1, <2>1 DEF AfterHead
  <2> QED
    BY <2>1, <2>2 DEF Received
<1>3. ASSUME NEW i \in 1..n, w_sent[i] \in Body PROVE i - e \in F /\ i = e + (i - e)
  <2>1. AfterHead(w_sent, i)
    BY <1>1, <1>3 DEF WellFormed
  <2>2. PICK j \in 1..(i - 1) : Blank(w_sent, j)
    BY <2>1 DEF AfterHead
  <2>3. ~ (j \in 1..(e - 1))
    BY <2>2 DEF HeadEnds
  <2>4. i > e
    BY <1>1, <2>3
  <2>5. ~ (i >= e + p)
    <3>1. p \in 1..p
      BY <1>1
    <3>2. w_sent[e + p] = "end" /\ AfterHead(w_sent, e + p)
      BY <1>2, <3>1
    <3>3. e + p \in 1..i => w_sent[i] \notin Body
      BY <1>1, <3>2 DEF WellFormed, IsForm
    <3> QED
      BY <1>1, <1>3, <3>3
  <2>6. i - e \in 1..(p - 1) /\ i = e + (i - e)
    BY <1>1, <2>4, <2>5
  <2>7. w_buf[i - e] # "boundary"
    <3> DEFINE k == i - e
    <3>1. k \in 1..p /\ e + k = i
      BY <1>1, <2>6
    <3> HIDE DEF k
    <3>2. w_sent[i] = w_buf[k]
      BY <1>2, <3>1
    <3>3. w_buf[k] # "boundary"
      BY <1>3, <3>2, WebAssumption
    <3> QED
      BY <3>3 DEF k
  <2> QED
    BY <2>6, <2>7
<1>4. ASSUME NEW j \in F PROVE w_sent[e + j] \in Body /\ e + j \in 1..n
  <2>1. j \in 1..p /\ j \in 1..(p - 1)
    BY <1>1
  <2>2. w_sent[e + j] = w_buf[j] /\ e + j \in 1..n /\ AfterHead(w_sent, e + j)
    BY <1>2, <2>1
  <2>3. e + j \in 1..(e + j)
    BY <1>1
  <2>4. w_sent[e + j] \notin Body \cup {"boundary", "text"} =>
          \E k \in 1..(e + j) : AfterHead(w_sent, k) /\ w_sent[k] = "end"
    BY <1>1, <2>2, <2>3 DEF WellFormed, IsForm
  <2>5. ASSUME NEW k \in 1..(e + j), AfterHead(w_sent, k) PROVE w_sent[k] # "end"
    <3>1. PICK b \in 1..(k - 1) : Blank(w_sent, b)
      BY <2>5 DEF AfterHead
    <3>2. ~ (b \in 1..(e - 1))
      BY <3>1 DEF HeadEnds
    <3> DEFINE i == k - e
    <3>3. i \in 1..(p - 1) /\ i \in 1..p /\ e + i = k
      BY <1>1, <2>1, <3>2
    <3> HIDE DEF i
    <3>4. w_sent[k] = w_buf[i] /\ w_buf[i] # "end"
      BY <1>2, <3>3
    <3> QED
      BY <3>4
  <2>6. w_sent[e + j] # "boundary" /\ w_sent[e + j] # "text"
    BY <2>1, <2>2
  <2> QED
    BY <2>2, <2>4, <2>5, <2>6
<1>5. Places(w_sent, Body) = {e + k : k \in F}
  <2>1. ASSUME NEW i \in Places(w_sent, Body) PROVE \E k \in F : i = e + k
    <3>1. i \in 1..n /\ w_sent[i] \in Body
      BY <1>1, <2>1 DEF Places
    <3>2. i - e \in F /\ i = e + (i - e)
      BY <1>3, <3>1
    <3> QED
      BY <3>2
  <2>2. ASSUME NEW k \in F PROVE e + k \in Places(w_sent, Body)
    BY <1>1, <1>4 DEF Places
  <2> HIDE DEF F
  <2> QED
    BY <2>1, <2>2
<1> QED
  BY <1>5

\* The parts of the form are the bytes between its boundaries.
LEMMA FormRead ==
  ASSUME WebInv, form
  PROVE  WebInv'
<1> DEFINE text == Line.text
           next == IF \E i \in DOMAIN text : text[i] = "text" THEN "end" ELSE "find"
           F == {k \in DOMAIN text : text[k] # "boundary"}
           got == [w_got EXCEPT !.body = Chosen(text, F)]
<1>1. w_at = "form" /\ gets(next, got)
  BY DEF form
<1>2. w_at' = next /\ w_got' = got /\ UNCHANGED <<w_sent, w_net, w_left, w_ran>>
  BY <1>1 DEF gets, clientVars, doneVars
<1>3. /\ Received /\ w_got.body = <<>> /\ w_stalled \in BOOLEAN
      /\ ~w_ran /\ w_ran \in BOOLEAN
      /\ w_got = [line |-> w_got.line, headers |-> w_got.headers, body |-> w_got.body]
      /\ w_got.headers \in Seq(STRING)
  BY <1>1 DEF WebInv, Parts, GotType
<1>4. next \in {"end", "find"}
  OBVIOUS
<1>5. got.line = w_got.line /\ got.headers = w_got.headers /\ got.body = Chosen(text, F)
      /\ got = [line |-> got.line, headers |-> got.headers, body |-> got.body]
  <2>1. ASSUME NEW x, NEW g, g = [w_got EXCEPT !.body = x]
        PROVE  g = [line |-> g.line, headers |-> g.headers, body |-> g.body]
               /\ g.headers = w_got.headers /\ g.body = x /\ g.line = w_got.line
    BY <1>3, <2>1
  <2> QED
    BY <2>1
<1>6. w_stalled' \in BOOLEAN
  BY <1>1, <1>3 DEF gets
<1>7. PICK kept \in SUBSET (1..Read) : Whole = Chosen(w_sent, kept)
  BY <1>1 DEF WebInv, Made
<1>8. Whole = <<w_got.line>> \o w_got.headers \o <<>>
  BY <1>3 DEF Whole
<1> HIDE DEF got
<1>9. ASSUME Received', Chosen(text, F) \in Seq(STRING) PROVE GotType' /\ Parts'
  <2> HIDE DEF next, text, F
  <2>1. GotType'
    BY <1>2, <1>3, <1>4, <1>5, <1>6, <1>9 DEF GotType
  <2>2. Parts'
    BY <1>2, <1>3, <1>4 DEF Parts
  <2> QED
    BY <2>1, <2>2
<1>10. AtHeaders' /\ AtForm' /\ AtBody'
  <2> HIDE DEF next, text
  <2> QED
    BY <1>2, <1>4 DEF AtHeaders, AtForm, AtBody
<1>11. CASE w_stalled' = TRUE /\ text = <<>> /\ w_buf' = w_buf
  <2>1. Received' /\ Read' = Read
    BY <1>2, <1>3, <1>11, SameBytes
  <2>2. F = {} /\ Chosen(text, F) = <<>>
    <3>1. F = {}
      BY <1>11
    <3> HIDE DEF F
    <3> QED
      BY <3>1, ChosenNone
  <2>3. GotType' /\ Parts'
    <3>1. <<>> \in Seq(STRING)
      OBVIOUS
    <3> QED
      BY <1>9, <2>1, <2>2, <3>1
  <2>4. Made'
    <3> HIDE DEF next, text, F
    <3>1. Whole' = Whole
      BY <1>2, <1>5, <1>8, <2>2 DEF Whole
    <3> QED
      BY <1>2, <1>7, <2>1, <3>1 DEF Made
  <2>5. AtEnd'
    BY <1>11 DEF AtEnd
  <2> QED
    BY <1>10, <2>1, <2>3, <2>4, <2>5 DEF WebInv
<1>12. CASE w_stalled' = w_stalled /\ \E p \in 1..Len(w_buf) : Takes(p)
  <2>1. PICK p \in 1..Len(w_buf) : Takes(p)
    BY <1>12
  <2>2. p \in 0..Len(w_buf) /\ p \in Nat /\ p > 0 /\ Len(w_buf) \in Nat /\ Read \in Nat /\ w_buf \in Seq(STRING)
    BY <1>3, RequestType DEF Received
  <2>3. /\ Received' /\ Read' = Read + p /\ Read + p <= Len(w_sent)
        /\ \A i \in 1..p : w_buf[i] = w_sent[Read + i]
    BY <1>2, <1>3, <2>1, <2>2, Advanced DEF Takes
  <2>4. /\ text = SubSeq(w_buf, 1, p - 1) /\ p - 1 \in Nat /\ DOMAIN text = 1..(p - 1) /\ \A k \in 1..(p - 1) : text[k] = w_buf[k]
        /\ w_buf[p] = "end" /\ \A j \in 1..(p - 1) : w_buf[j] # "end"
    <3>1. text = SubSeq(w_buf, 1, p - 1) /\ w_buf[p] = "end" /\ \A j \in 1..(p - 1) : w_buf[j] # "end"
      BY <1>1, <2>1 DEF Takes, Delimiter
    <3>2. DOMAIN SubSeq(w_buf, 1, p - 1) = 1..(p - 1) /\ \A k \in 1..(p - 1) : SubSeq(w_buf, 1, p - 1)[k] = w_buf[k]
      BY <2>2
    <3> HIDE DEF text
    <3> QED
      BY <2>2, <3>1, <3>2
  <2> HIDE DEF text
  <2> DEFINE d == Read
             G == {d + k : k \in F}
  <2>5. F = {k \in 1..(p - 1) : w_buf[k] # "boundary"} /\ F \in SUBSET (1..(p - 1))
    BY <2>4
  <2>6. Chosen(text, F) = Chosen(w_sent, G)
    <3>1. \A k \in F : text[k] = w_sent[d + k]
      <4>1. \A k \in F : k \in 1..(p - 1) /\ k \in 1..p
        BY <2>2, <2>5
      <4> HIDE DEF F
      <4> QED
        BY <2>3, <2>4, <4>1
    <3>2. d \in Nat /\ p - 1 \in Nat /\ F \in SUBSET (1..(p - 1))
      BY <2>2, <2>4, <2>5
    <3> DEFINE q == p - 1
    <3>3. q \in Nat /\ F \in SUBSET (1..q)
      BY <3>2
    <3> HIDE DEF F, d, q
    <3>4. Cardinality(G) = Cardinality(F) /\ \A i \in 1..Cardinality(F) : Nth(G, i) = d + Nth(F, i) /\ Nth(F, i) \in F
      BY <3>2, <3>3, NthMoved
    <3> HIDE DEF G
    <3>5. \A i \in 1..Cardinality(F) : text[Nth(F, i)] = w_sent[Nth(G, i)]
      BY <3>1, <3>4
    <3> QED
      BY <3>4, <3>5 DEF Chosen
  <2>7. Chosen(text, F) \in Seq(STRING)
    <3> DEFINE m == Cardinality(F)
               q == p - 1
    <3>1. Enumerates([i \in 1..m |-> Nth(F, i)], m, F) /\ m \in Nat
      <4>1. q \in Nat /\ F \in SUBSET (1..q)
        BY <2>4, <2>5
      <4> HIDE DEF F, q
      <4> QED
        BY <4>1, CanCount, PlacesFinite
    <3>2. \A k \in F : text[k] \in STRING
      BY <2>2, <2>4, <2>5
    <3>3. Chosen(text, F) = [i \in 1..m |-> text[Nth(F, i)]]
      BY DEF Chosen
    <3> HIDE DEF m, F
    <3>4. \A i \in 1..m : Nth(F, i) \in F
      BY <3>1 DEF Enumerates
    <3> QED
      BY <3>1, <3>2, <3>3, <3>4
  <2>8. GotType' /\ Parts'
    BY <1>9, <2>3, <2>7
  <2>9. G \in SUBSET (1..Len(w_sent)) /\ (\A l \in G : l > Read) /\ G \subseteq 1..(Read + p)
    <3>1. ASSUME NEW k \in F PROVE d + k > Read /\ d + k <= Read + p /\ d + k \in 1..(Read + p)
      <4>1. k \in 1..(p - 1)
        BY <2>5
      <4> QED
        BY <2>2, <4>1
    <3>2. Len(w_sent) \in Nat
      BY <1>3, RequestType
    <3>3. 1..(Read + p) \subseteq 1..Len(w_sent)
      BY <2>2, <2>3, <3>2
    <3> HIDE DEF F, d
    <3> QED
      BY <3>1, <3>3
  <2>10. Made'
    <3> HIDE DEF next
    <3>1. Chosen(w_sent, kept \cup G) = Whole \o Chosen(text, F)
      <4> HIDE DEF G, F
      <4> QED
        BY <1>3, <1>7, <2>6, <2>9, KeptGrows
    <3>2. Whole' = Whole \o Chosen(text, F)
      <4> DEFINE S == STRING \cup {w_got.line}
                 h == <<w_got.line>> \o w_got.headers
                 b == Chosen(text, F)
      <4>1. h \in Seq(S) /\ b \in Seq(S)
        <5> HIDE DEF F
        <5> QED
          BY <1>3, <2>7
      <4>2. Whole' = h \o b
        <5> HIDE DEF F
        <5> QED
          BY <1>2, <1>5 DEF Whole
      <4>3. Whole = h \o <<>>
        BY <1>8
      <4> HIDE DEF S, h, b
      <4>4. h \o <<>> = h
        BY <4>1, ConcatEmptySeq
      <4> QED
        BY <4>2, <4>3, <4>4 DEF b
    <3>3. kept \cup G \in SUBSET (1..Read')
      <4>1. 1..Read \subseteq 1..(Read + p)
        BY <2>2
      <4> HIDE DEF G
      <4> QED
        BY <2>3, <2>9, <4>1
    <3> HIDE DEF G, F
    <3> QED
      BY <1>2, <3>1, <3>2, <3>3 DEF Made
  <2>11. AtEnd'
    <3> SUFFICES ASSUME w_at' = "find", ~w_stalled PROVE LineRead' /\ HeadersRead' /\ BodyRead'
      <4> HIDE DEF next
      <4> QED
        BY <1>2, <1>3, <1>4, <1>12 DEF AtEnd
    <3>1. HeadEnds(Read) /\ LineRead /\ HeadersRead /\ w_got.line = "POST" /\ IsForm
      BY <1>1 DEF WebInv, AtForm
    <3>2. \A i \in DOMAIN text : text[i] # "text"
      BY <1>2
    <3>3. \A j \in 1..(p - 1) : w_buf[j] # "end" /\ w_buf[j] # "text"
      BY <2>4, <3>2
    <3>4. Places(w_sent, Body) = {Read + k : k \in {j \in 1..(p - 1) : w_buf[j] # "boundary"}}
      BY <1>3, <2>4, <3>1, <3>3, FormPlaces
    <3>5. Places(w_sent, Body) = G
      <4> DEFINE H == {j \in 1..(p - 1) : w_buf[j] # "boundary"}
      <4>1. F = H
        BY <2>5
      <4> HIDE DEF H, F
      <4>2. Places(w_sent, Body) = {Read + k : k \in H}
        BY <3>4 DEF H
      <4> QED
        BY <4>1, <4>2
    <3> HIDE DEF G, F, next
    <3>6. w_got'.line = w_got.line /\ w_got'.headers = w_got.headers /\ w_got'.body = Chosen(w_sent, G) /\ w_sent' = w_sent
      BY <1>2, <1>5, <2>6
    <3> QED
      BY <3>1, <3>5, <3>6 DEF LineRead, HeadersRead, BodyRead
  <2> QED
    BY <1>10, <2>3, <2>8, <2>10, <2>11 DEF WebInv
<1> QED
  BY <1>1, <1>3, <1>11, <1>12, GetsTakes

\* What has been read of a request are bytes that were sent, and where process_tcp
\* is when nothing was missing it has read what is before that place, whole.
THEOREM WebInvariant == WebSpec => []WebInv
<1>1. WebInit => WebInv
  <2>1. WebInit => Fresh
    BY DEF WebInit, Fresh
  <2> QED
    BY <2>1, WebStarts
<1>2. Fresh' => WebInv'
  BY WebStarts, PTL
<1>3. WebInv /\ [WebNext]_webVars => WebInv'
  <2> SUFFICES ASSUME WebInv, [WebNext]_webVars PROVE WebInv'
    OBVIOUS
  <2>1. CASE client_sends
    BY <2>1, ClientSends
  <2>2. CASE \E how \in {"closed", "reset"} : client_goes(how)
    BY <2>2, Breaks
  <2>3. CASE process_tcp_step
    <3>1. CASE receive
      BY <3>1, Receives
    <3>2. CASE poll_disconnects \/ recv_disconnects
      BY <3>2, Breaks
    <3>3. CASE request_line
      BY <3>3, RequestLine
    <3>4. CASE header
      BY <3>4, HeaderLine
    <3>5. CASE headers_late \/ body_fails
      BY <3>5, GivenUp
    <3>6. CASE recv_body
      BY <3>6, RecvBody
    <3>7. CASE form
      BY <3>7, FormRead
    <3>8. CASE find_document \/ \E answers \in BOOLEAN : process_web_page(answers)
      BY <3>8, Answers
    <3>9. CASE next_connection
      <4>1. Fresh'
        BY <3>9 DEF next_connection, Fresh
      <4> QED
        BY <1>2, <4>1
    <3> QED
      BY <2>3, <3>1, <3>2, <3>3, <3>4, <3>5, <3>6, <3>7, <3>8, <3>9 DEF process_tcp_step
  <2>4. CASE UNCHANGED webVars
    <3>1. UNCHANGED <<w_sent, w_buf, w_net, w_left, w_got, w_at, w_ran, w_stalled>>
      BY <2>4 DEF webVars
    <3>2. Received' /\ Read' = Read
      BY <3>1, SameBytes DEF WebInv
    <3> QED
      BY <3>1, <3>2, OthersStay
  <2> QED
    BY <2>1, <2>2, <2>3, <2>4 DEF WebNext
<1> QED
  BY <1>1, <1>3, PTL DEF WebSpec

\* What process_web is given is the line, the headers and the body of the request
\* the client sent, however its bytes came (__gets, S_recv, process_tcp), and also
\* of a request that has not come completely no part is made up.
THEOREM RequestsAreRead == WebSpec => []RequestIsRead
<1>1. WebInv => RequestIsRead
  <2> SUFFICES ASSUME WebInv PROVE RequestIsRead
    OBVIOUS
  <2>1. ReadsWhatWasSent
    BY DEF WebInv, AtEnd, LineRead, HeadersRead, BodyRead, ReadsWhatWasSent
  <2>2. NothingMadeOf
    <3> SUFFICES ASSUME w_ran PROVE \E kept \in SUBSET (DOMAIN w_sent) : Whole = Chosen(w_sent, kept)
      BY DEF NothingMadeOf, Whole
    <3>1. PICK kept \in SUBSET (1..Read) : Whole = Chosen(w_sent, kept)
      BY DEF WebInv, Made
    <3>2. /\ Len(w_buf) \in Nat /\ Len(w_net) \in Nat /\ Len(w_left) \in Nat /\ Read \in Nat /\ Len(w_sent) \in Nat
          /\ DOMAIN w_sent = 1..Len(w_sent) /\ Read + Len(w_buf) + Len(w_net) + Len(w_left) = Len(w_sent)
      BY RequestType DEF WebInv, Received
    <3>3. 1..Read \subseteq DOMAIN w_sent
      BY <3>2
    <3> QED
      BY <3>1, <3>3
  <2> QED
    BY <2>1, <2>2 DEF RequestIsRead
<1> QED
  BY <1>1, WebInvariant, PTL
=============================================================================
