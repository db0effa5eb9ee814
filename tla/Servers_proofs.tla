---------------------------- MODULE Servers_proofs ----------------------------
(***************************************************************************)
(* Proofs about TcpServer, for any number of listeners, handlers and       *)
(* connections, any maximum and any width of the counters; and about       *)
(* Dialog, for any number of connections, descriptors, threads and lines.  *)
(***************************************************************************)
EXTENDS TcpServer, Dialog, FiniteSetTheorems, SequenceTheorems, TLAPS

USE ServerAssumption

\* How many of D have their f in V.
Number(D, f, V) == Cardinality({x \in D : f[x] \in V})

Threads == Number(Handler, hpc, {"idle", "taken", "busy"})
Counting == Number(Listener, lpc, {"count"})
Making == Number(Listener, lpc, {"create", "count"})
Engaged == Number(Listener, lpc, {"found_free", "room", "create", "count"})

\* The counters lag behind the threads by what the listeners are about to add.
CountersKept ==
  /\ handlers_count + Counting = Threads
  /\ handlers_busy = Number(Handler, hpc, {"busy"})

\* The last listener to find room found it below the maximum.
RoomKept ==
  MaxHandlers # 0 => handlers_count + Making <= MaxHandlers + Cardinality(Listener) - 1

\* As long as there is no thread, whoever has queued a connection is about to
\* make one, or has failed.
NobodyYet ==
  Threads = 0 =>
    /\ \A l \in Listener : \A x \in DOMAIN seen[l] : seen[l][x] = 0
    /\ Len(conn_list) <= failures + Engaged

Inv == TcpTypeOK /\ CountersKept /\ RoomKept /\ NobodyYet
-----------------------------------------------------------------------------
(* Counting.                                                               *)

\* A number is one of naturals, at most that of all of D.
LEMMA NumberType ==
  ASSUME NEW D, IsFiniteSet(D), NEW f, NEW V
  PROVE  /\ Number(D, f, V) \in Nat
         /\ Number(D, f, V) <= Cardinality(D)
         /\ Cardinality(D) \in Nat
<1>1. {x \in D : f[x] \in V} \in SUBSET D
  OBVIOUS
<1> QED
  BY <1>1, FS_Subset, FS_CardinalityType DEF Number

\* More values, more members.
LEMMA NumberGrows ==
  ASSUME NEW D, IsFiniteSet(D), NEW f, NEW V, NEW W, V \subseteq W
  PROVE  Number(D, f, V) <= Number(D, f, W)
<1> DEFINE A == {x \in D : f[x] \in V}
           B == {x \in D : f[x] \in W}
<1>1. A \in SUBSET B /\ B \in SUBSET D
  OBVIOUS
<1>2. IsFiniteSet(B)
  BY <1>1, FS_Subset
<1> HIDE DEF A, B
<1>3. Cardinality(A) <= Cardinality(B)
  BY <1>1, <1>2, FS_Subset
<1> QED
  BY <1>3 DEF Number, A, B

\* Between f and g, one element moves from its value to v.
Moves(D, f, g, d, v) ==
  /\ g[d] = v
  /\ \A x \in D \ {d} : g[x] = f[x]

One(v, V) == IF v \in V THEN 1 ELSE 0

LEMMA NumberMoves ==
  ASSUME NEW D, IsFiniteSet(D), NEW f, NEW g, NEW d \in D, NEW v,
         Moves(D, f, g, d, v), NEW V
  PROVE  Number(D, g, V) = Number(D, f, V) + One(v, V) - One(f[d], V)
<1> DEFINE A == {x \in D : f[x] \in V}
           B == {x \in D : g[x] \in V}
<1>1. IsFiniteSet(A)
  <2>1. A \in SUBSET D
    OBVIOUS
  <2> QED
    BY <2>1, FS_Subset
<1>2. /\ v \in V => B = A \cup {d}
      /\ v \notin V => B = A \ {d}
      /\ d \in A <=> f[d] \in V
  BY DEF Moves
<1>3. /\ Cardinality(A \cup {d}) = IF d \in A THEN Cardinality(A) ELSE Cardinality(A) + 1
      /\ Cardinality(A \ {d}) = IF d \in A THEN Cardinality(A) - 1 ELSE Cardinality(A)
      /\ Cardinality(A) \in Nat
  <2> HIDE DEF A
  <2> QED
    BY <1>1, FS_AddElement, FS_RemoveElement, FS_CardinalityType
<1>4. Number(D, f, V) = Cardinality(A) /\ Number(D, g, V) = Cardinality(B)
  BY DEF Number
<1> HIDE DEF A, B
<1> DEFINE n == Cardinality(A)
<1>5. Cardinality(B) = IF v \in V THEN (IF f[d] \in V THEN n ELSE n + 1)
                                  ELSE (IF f[d] \in V THEN n - 1 ELSE n)
  BY <1>2, <1>3
<1>6. n \in Nat
  BY <1>3
<1> HIDE DEF n
<1>7. Cardinality(B) = n + One(v, V) - One(f[d], V)
  BY <1>5, <1>6 DEF One
<1> QED
  BY <1>4, <1>7 DEF n

\* A counter that has not reached its width counts.
LEMMA Counts ==
  ASSUME NEW n \in Nat, n < Limit
  PROVE  n % Limit = n
OBVIOUS

\* All numbers are within their ranges.
LEMMA Numbers ==
  ASSUME TcpTypeOK
  PROVE  /\ Threads \in Nat /\ Threads < Limit
         /\ Counting \in Nat /\ Making \in Nat /\ Engaged \in Nat
         /\ Counting <= Making /\ Making <= Engaged
         /\ Making <= Cardinality(Listener)
         /\ Number(Handler, hpc, {"busy"}) \in Nat
         /\ Number(Handler, hpc, {"busy"}) <= Threads
         /\ Cardinality(Listener) \in Nat
<1>1. /\ Threads \in Nat /\ Threads <= Cardinality(Handler)
      /\ Cardinality(Handler) \in Nat
      /\ Number(Handler, hpc, {"busy"}) \in Nat
  BY NumberType DEF Threads
<1>2. /\ Counting \in Nat /\ Making \in Nat /\ Engaged \in Nat
      /\ Making <= Cardinality(Listener)
      /\ Cardinality(Listener) \in Nat
  BY NumberType DEF Counting, Making, Engaged
<1>3. /\ Number(Handler, hpc, {"busy"}) <= Threads
      /\ Counting <= Making /\ Making <= Engaged
  <2>1. /\ {"busy"} \subseteq {"idle", "taken", "busy"}
        /\ {"count"} \subseteq {"create", "count"}
        /\ {"create", "count"} \subseteq {"found_free", "room", "create", "count"}
    OBVIOUS
  <2> QED
    BY <2>1, NumberGrows DEF Threads, Counting, Making, Engaged
<1> QED
  BY <1>1, <1>2, <1>3

\* A listener goes from u to v, a handler from u to v.
ListenerGoes(l, u, v) == lpc[l] = u /\ lpc' = [lpc EXCEPT ![l] = v]
HandlerGoes(h, u, v) == hpc[h] = u /\ hpc' = [hpc EXCEPT ![h] = v]

\* A listener moves: what becomes of the numbers.
LEMMA ListenerMoves ==
  ASSUME TcpTypeOK, NEW l \in Listener, NEW u, NEW v, ListenerGoes(l, u, v)
  PROVE  /\ Counting' = Counting + One(v, {"count"}) - One(u, {"count"})
         /\ Making' = Making + One(v, {"create", "count"}) - One(u, {"create", "count"})
         /\ Engaged' = Engaged + One(v, {"found_free", "room", "create", "count"})
                               - One(u, {"found_free", "room", "create", "count"})
<1>1. Moves(Listener, lpc, lpc', l, v) /\ IsFiniteSet(Listener) /\ lpc[l] = u
  BY DEF Moves, TcpTypeOK, ListenerGoes
<1>2. ASSUME NEW V
      PROVE  Number(Listener, lpc', V) = Number(Listener, lpc, V) + One(v, V) - One(u, V)
  BY <1>1, NumberMoves
<1>3. /\ Counting' = Number(Listener, lpc', {"count"})
      /\ Making' = Number(Listener, lpc', {"create", "count"})
      /\ Engaged' = Number(Listener, lpc', {"found_free", "room", "create", "count"})
  BY DEF Counting, Making, Engaged, Number
<1> QED
  BY <1>2, <1>3, Zenon DEF Counting, Making, Engaged

\* A handler moves: what becomes of the numbers.
LEMMA HandlerMoves ==
  ASSUME TcpTypeOK, NEW h \in Handler, NEW u, NEW v, HandlerGoes(h, u, v)
  PROVE  /\ Threads' = Threads + One(v, {"idle", "taken", "busy"})
                               - One(u, {"idle", "taken", "busy"})
         /\ Number(Handler, hpc', {"busy"}) =
              Number(Handler, hpc, {"busy"}) + One(v, {"busy"}) - One(u, {"busy"})
<1>1. Moves(Handler, hpc, hpc', h, v) /\ IsFiniteSet(Handler) /\ hpc[h] = u
  BY DEF Moves, TcpTypeOK, HandlerGoes
<1>2. ASSUME NEW V
      PROVE  Number(Handler, hpc', V) = Number(Handler, hpc, V) + One(v, V) - One(u, V)
  BY <1>1, NumberMoves
<1>3. Threads' = Number(Handler, hpc', {"idle", "taken", "busy"})
  BY DEF Threads, Number
<1> QED
  BY <1>2, <1>3, Zenon DEF Threads
-----------------------------------------------------------------------------
(* The steps.                                                              *)

\* What a listener has read are counters.
LEMMA SeenType ==
  ASSUME TcpTypeOK, NEW l \in Listener
  PROVE  /\ DOMAIN seen[l] \in SUBSET Counters
         /\ seen[l] \in [DOMAIN seen[l] -> Counter]
BY DEF TcpTypeOK

\* A step that moves no thread and no listener changes no number.
LEMMA NumbersKept ==
  ASSUME TRUE
  PROVE  /\ hpc' = hpc => /\ Threads' = Threads
                          /\ Number(Handler, hpc', {"busy"}) = Number(Handler, hpc, {"busy"})
         /\ lpc' = lpc => Counting' = Counting /\ Making' = Making /\ Engaged' = Engaged
BY DEF Threads, Counting, Making, Engaged, Number

\* The new connection waits for its listener's decision.
LEMMA AcceptKeeps ==
  ASSUME Inv, NEW l \in Listener, NEW c \in Conn, accept(l, c)
  PROVE  Inv'
<1> USE DEF Inv, accept, counters, handlers
<1>1. TcpTypeOK'
  <2>1. Nothing \in [{} -> Counter] /\ {} \in SUBSET Counters
    BY DEF Nothing
  <2>2. seen' \in [Listener -> UNION {[R -> Counter] : R \in SUBSET Counters}]
    BY <2>1 DEF TcpTypeOK
  <2> QED
    BY <2>2 DEF TcpTypeOK
<1>2. /\ Counting' = Counting /\ Making' = Making /\ Engaged' = Engaged + 1
      /\ Engaged \in Nat /\ Counting \in Nat /\ Making \in Nat
  <2>1. ListenerGoes(l, "accept", "found_free")
    BY DEF ListenerGoes
  <2>2. \A v \in {{"count"}, {"create", "count"}} :
          One("accept", v) = 0 /\ One("found_free", v) = 0
    BY DEF One
  <2>3. LET V == {"found_free", "room", "create", "count"}
        IN One("accept", V) = 0 /\ One("found_free", V) = 1
    BY DEF One
  <2> QED
    BY <2>1, <2>2, <2>3, ListenerMoves, Numbers
<1>3. Threads' = Threads /\ Number(Handler, hpc', {"busy"}) = Number(Handler, hpc, {"busy"})
  BY NumbersKept
<1>4. CountersKept' /\ RoomKept'
  BY <1>2, <1>3 DEF CountersKept, RoomKept
<1>5. NobodyYet'
  <2>1. Len(conn_list') = Len(conn_list) + 1 /\ Len(conn_list) \in Nat
    BY DEF TcpTypeOK
  <2>2. DOMAIN seen'[l] = {} /\ \A m \in Listener \ {l} : seen'[m] = seen[m]
    BY DEF TcpTypeOK, Nothing
  <2>3. failures \in Nat
    BY DEF TcpTypeOK
  <2> QED
    BY <1>2, <1>3, <2>1, <2>2, <2>3 DEF NobodyYet
<1> QED
  BY <1>1, <1>4, <1>5

\* While there is no thread, a listener reads zeros.
LEMMA GetKeeps ==
  ASSUME Inv, NEW l \in Listener, NEW x \in Counters, get(l, x)
  PROVE  Inv'
<1> USE DEF Inv, get, counters, handlers, history
<1> DEFINE n == IF x = "handlers_count" THEN handlers_count ELSE handlers_busy
           R == DOMAIN seen[l] \cup {x}
<1>1. /\ seen' = [seen EXCEPT ![l] = [y \in R |-> IF y # x THEN seen[l][y] ELSE n]]
      /\ n \in Counter
      /\ R \in SUBSET Counters
  BY SeenType DEF TcpTypeOK
<1>2. [y \in R |-> IF y # x THEN seen[l][y] ELSE n] \in [R -> Counter]
  BY <1>1, SeenType
<1>3. seen' \in [Listener -> UNION {[Q -> Counter] : Q \in SUBSET Counters}]
  <2> DEFINE f == [y \in R |-> IF y # x THEN seen[l][y] ELSE n]
             S == UNION {[Q -> Counter] : Q \in SUBSET Counters}
  <2>1. f \in S
    BY <1>1, <1>2
  <2>2. seen \in [Listener -> S] /\ seen' = [seen EXCEPT ![l] = f]
    BY <1>1 DEF TcpTypeOK
  <2> HIDE DEF f, S
  <2>3. seen' \in [Listener -> S]
    BY <2>1, <2>2
  <2> QED
    BY <2>3 DEF S
<1>4. TcpTypeOK'
  BY <1>3 DEF TcpTypeOK
<1>5. /\ Threads' = Threads
      /\ Number(Handler, hpc', {"busy"}) = Number(Handler, hpc, {"busy"})
      /\ Counting' = Counting /\ Making' = Making /\ Engaged' = Engaged
  BY NumbersKept
<1>6. CountersKept' /\ RoomKept'
  BY <1>5 DEF CountersKept, RoomKept
<1>7. NobodyYet'
  <2> SUFFICES ASSUME Threads = 0
               PROVE  \A m \in Listener : \A y \in DOMAIN seen'[m] : seen'[m][y] = 0
    BY <1>5 DEF NobodyYet
  <2>1. n = 0
    BY Numbers DEF CountersKept, TcpTypeOK, Counter
  <2>2. \A m \in Listener : \A y \in DOMAIN seen[m] : seen[m][y] = 0
    BY DEF NobodyYet
  <2>3. seen' = [seen EXCEPT ![l] = [y \in R |-> IF y # x THEN seen[l][y] ELSE 0]]
    BY <1>1, <2>1
  <2>4. DOMAIN seen'[l] = R /\ \A y \in R : seen'[l][y] = 0
    BY <2>2, <2>3 DEF TcpTypeOK
  <2>5. \A m \in Listener \ {l} : seen'[m] = seen[m]
    BY <2>3 DEF TcpTypeOK
  <2> QED
    BY <2>2, <2>4, <2>5
<1> QED
  BY <1>4, <1>6, <1>7

\* While there is no thread, no thread is found free.
LEMMA FoundFreeKeeps ==
  ASSUME Inv, NEW l \in Listener, found_free(l)
  PROVE  Inv'
<1> USE DEF Inv, found_free, counters, handlers, history
<1> DEFINE free == Free(seen[l]["handlers_count"], seen[l]["handlers_busy"])
           v == IF free THEN "accept" ELSE "room"
<1>1. lpc' = [lpc EXCEPT ![l] = v] /\ v \in {"accept", "room"}
  OBVIOUS
<1>2. TcpTypeOK'
  BY <1>1 DEF TcpTypeOK
<1>3. Threads' = Threads /\ Number(Handler, hpc', {"busy"}) = Number(Handler, hpc, {"busy"})
  BY NumbersKept
<1>4. Threads = 0 => v = "room"
  <2>1. Threads = 0 => seen[l]["handlers_count"] = 0 /\ seen[l]["handlers_busy"] = 0
    BY DEF NobodyYet, Counters
  <2>2. 0 % Limit = 0
    BY Counts
  <2> QED
    BY <2>1, <2>2 DEF Free
<1> HIDE DEF v
<1>5. /\ Counting' = Counting /\ Making' = Making
      /\ v = "room" => Engaged' = Engaged
      /\ Engaged \in Nat /\ Counting \in Nat /\ Making \in Nat
  <2>1. ListenerGoes(l, "found_free", v)
    BY <1>1 DEF ListenerGoes
  <2> QED
    BY <1>1, <2>1, ListenerMoves, Numbers DEF One
<1>6. CountersKept' /\ RoomKept'
  BY <1>3, <1>5 DEF CountersKept, RoomKept
<1>7. NobodyYet'
  BY <1>3, <1>4, <1>5 DEF NobodyYet
<1> QED
  BY <1>2, <1>6, <1>7

\* A listener finds room below the maximum; with no thread there is room.
LEMMA CheckRoomKeeps ==
  ASSUME Inv, NEW l \in Listener, check_room(l)
  PROVE  Inv'
<1> USE DEF Inv, check_room, counters, handlers, history
<1> DEFINE v == IF HasRoom(handlers_count) THEN "create" ELSE "accept"
<1>1. lpc' = [lpc EXCEPT ![l] = v] /\ v \in {"create", "accept"}
  OBVIOUS
<1>2. TcpTypeOK'
  BY <1>1 DEF TcpTypeOK
<1>3. Threads' = Threads /\ Number(Handler, hpc', {"busy"}) = Number(Handler, hpc, {"busy"})
  BY NumbersKept
<1>4. /\ v = "create" => MaxHandlers = 0 \/ handlers_count < MaxHandlers
      /\ Threads = 0 => v = "create"
  BY Numbers DEF HasRoom, CountersKept, TcpTypeOK, Counter
<1> HIDE DEF v
<1>5. /\ Counting' = Counting
      /\ Making' = Making + (IF v = "create" THEN 1 ELSE 0)
      /\ v = "create" => Engaged' = Engaged
      /\ Engaged \in Nat /\ Counting \in Nat /\ Making \in Nat
  <2>1. ListenerGoes(l, "room", v)
    BY <1>1 DEF ListenerGoes
  <2> QED
    BY <1>1, <2>1, ListenerMoves, Numbers DEF One
<1>6. CountersKept'
  BY <1>3, <1>5 DEF CountersKept
<1>7. RoomKept'
  <2>1. Making' <= Cardinality(Listener) /\ Cardinality(Listener) \in Nat
    <3>1. /\ Making' = Number(Listener, lpc', {"create", "count"})
          /\ IsFiniteSet(Listener)
      BY DEF Making, Number
    <3> QED
      BY <3>1, NumberType
  <2>2. handlers_count \in Nat /\ MaxHandlers \in Nat
    BY DEF TcpTypeOK, Counter
  <2>3. CASE v = "create"
    BY <1>4, <1>5, <2>1, <2>2, <2>3 DEF RoomKept
  <2>4. CASE v = "accept"
    BY <1>5, <2>4 DEF RoomKept
  <2> QED
    BY <1>1, <2>3, <2>4
<1>8. NobodyYet'
  BY <1>3, <1>4, <1>5 DEF NobodyYet
<1> QED
  BY <1>2, <1>6, <1>7, <1>8

\* A thread more, and a listener that has yet to count it.
LEMMA CreateKeeps ==
  ASSUME Inv, NEW l \in Listener, NEW h \in Handler, create_thread(l, h)
  PROVE  Inv'
<1> USE DEF Inv, create_thread, counters, history
<1>1. TcpTypeOK'
  BY DEF TcpTypeOK
<1>2. /\ Counting' = Counting + 1 /\ Making' = Making
      /\ Counting \in Nat /\ Making \in Nat /\ Threads \in Nat
  <2>1. ListenerGoes(l, "create", "count")
    BY DEF ListenerGoes
  <2> QED
    BY <2>1, ListenerMoves, Numbers DEF One
<1>3. /\ Threads' = Threads + 1
      /\ Number(Handler, hpc', {"busy"}) = Number(Handler, hpc, {"busy"})
  <2>1. HandlerGoes(h, "none", "idle")
    BY DEF HandlerGoes
  <2>2. /\ One("none", {"idle", "taken", "busy"}) = 0
        /\ One("idle", {"idle", "taken", "busy"}) = 1
        /\ One("none", {"busy"}) = 0 /\ One("idle", {"busy"}) = 0
    BY DEF One
  <2>3. /\ Threads' = Threads + 1 - 0
        /\ Number(Handler, hpc', {"busy"}) = Number(Handler, hpc, {"busy"}) + 0 - 0
    BY <2>1, <2>2, HandlerMoves, Zenon
  <2>4. Threads \in Nat /\ Number(Handler, hpc, {"busy"}) \in Nat
    BY Numbers
  <2> QED
    BY <2>3, <2>4
<1>4. CountersKept' /\ RoomKept' /\ NobodyYet'
  BY <1>2, <1>3 DEF CountersKept, RoomKept, NobodyYet, TcpTypeOK, Counter
<1> QED
  BY <1>1, <1>4

\* A connection left behind is one failure more.
LEMMA FailKeeps ==
  ASSUME Inv, NEW l \in Listener, create_thread_fails(l)
  PROVE  Inv'
<1> USE DEF Inv, create_thread_fails, counters, handlers
<1>1. TcpTypeOK'
  BY DEF TcpTypeOK
<1>2. /\ Counting' = Counting /\ Making' = Making - 1 /\ Engaged' = Engaged - 1
      /\ Counting \in Nat /\ Making \in Nat /\ Engaged \in Nat
  <2>1. ListenerGoes(l, "create", "accept")
    BY DEF ListenerGoes
  <2> QED
    BY <2>1, ListenerMoves, Numbers DEF One
<1>3. Threads' = Threads /\ Number(Handler, hpc', {"busy"}) = Number(Handler, hpc, {"busy"})
  BY NumbersKept
<1>4. /\ handlers_count \in Nat /\ failures \in Nat /\ Len(conn_list) \in Nat
      /\ MaxHandlers \in Nat /\ Cardinality(Listener) \in Nat
  BY Numbers DEF TcpTypeOK, Counter
<1>5. CountersKept' /\ RoomKept' /\ NobodyYet'
  BY <1>2, <1>3, <1>4 DEF CountersKept, RoomKept, NobodyYet
<1> QED
  BY <1>1, <1>5

\* The thread is counted.
LEMMA CountKeeps ==
  ASSUME Inv, NEW l \in Listener, count_handler(l)
  PROVE  Inv'
<1> USE DEF Inv, count_handler, handlers, history
<1>1. /\ Counting' = Counting - 1 /\ Making' = Making - 1
      /\ Counting' \in Nat
      /\ Counting \in Nat /\ Making \in Nat
  <2>1. Counting' = Number(Listener, lpc', {"count"}) /\ IsFiniteSet(Listener)
    BY DEF Counting, Number
  <2>2. Counting' \in Nat
    BY <2>1, NumberType
  <2>3. ListenerGoes(l, "count", "accept")
    BY DEF ListenerGoes
  <2> QED
    BY <2>2, <2>3, ListenerMoves, Numbers DEF One
<1>2. /\ Threads' = Threads /\ Number(Handler, hpc', {"busy"}) = Number(Handler, hpc, {"busy"})
      /\ Threads \in Nat /\ Threads < Limit
  BY NumbersKept, Numbers
<1>3. handlers_count \in Nat /\ handlers_count + 1 <= Threads
  BY <1>1, <1>2 DEF CountersKept, TcpTypeOK, Counter
<1>4. handlers_count' = handlers_count + 1 /\ handlers_count + 1 \in Counter
  BY <1>2, <1>3, Counts DEF Counter
<1>5. TcpTypeOK'
  BY <1>4 DEF TcpTypeOK
<1>6. CountersKept' /\ RoomKept' /\ NobodyYet'
  BY <1>1, <1>2, <1>3, <1>4, Numbers DEF CountersKept, RoomKept, NobodyYet
<1> QED
  BY <1>5, <1>6

\* A handler at work takes, refuses, begins or ends.
LEMMA HandleKeeps ==
  ASSUME Inv, NEW h \in Handler, Handle(h)
  PROVE  Inv'
<1> USE DEF Inv, try_extract_first, refuse, mark_busy, process_tcp, counters,
            listeners, history
<1>0. /\ lpc' = lpc /\ seen' = seen /\ failures' = failures
      /\ handlers_count' = handlers_count
      /\ hpc[h] # "none"
  BY DEF Handle
<1>1. PICK v \in {"idle", "taken", "busy"} : HandlerGoes(h, hpc[h], v)
  BY DEF Handle, HandlerGoes
<1>2. /\ Threads' = Threads /\ Threads \in Nat /\ Threads < Limit
      /\ Number(Handler, hpc', {"busy"}) =
           Number(Handler, hpc, {"busy"}) + One(v, {"busy"}) - One(hpc[h], {"busy"})
      /\ Number(Handler, hpc, {"busy"}) \in Nat
      /\ Counting' = Counting /\ Making' = Making
  <2>1. /\ One(v, {"idle", "taken", "busy"}) = 1
        /\ One(hpc[h], {"idle", "taken", "busy"}) = 1
    BY <1>0, <1>1 DEF One, TcpTypeOK
  <2> QED
    BY <1>0, <1>1, <2>1, HandlerMoves, Numbers, NumbersKept
<1>3. Number(Handler, hpc', {"busy"}) \in Nat /\ Number(Handler, hpc', {"busy"}) <= Threads
  <2>1. {"busy"} \subseteq {"idle", "taken", "busy"} /\ IsFiniteSet(Handler)
    OBVIOUS
  <2>2. Threads' = Number(Handler, hpc', {"idle", "taken", "busy"})
    BY DEF Threads, Number
  <2> QED
    BY <1>2, <2>1, <2>2, NumberType, NumberGrows
<1>4. handlers_busy' = Number(Handler, hpc', {"busy"})
  <2>1. handlers_busy = Number(Handler, hpc, {"busy"})
    BY DEF CountersKept
  <2>2. CASE try_extract_first(h) \/ refuse(h)
    <3>1. v # "busy" /\ hpc[h] # "busy" /\ handlers_busy' = handlers_busy
      BY <1>1, <2>2 DEF TcpTypeOK, HandlerGoes
    <3> QED
      BY <1>2, <2>1, <3>1 DEF One
  <2>3. CASE mark_busy(h)
    <3>1. v = "busy" /\ hpc[h] = "taken"
      BY <1>1, <2>3 DEF TcpTypeOK, HandlerGoes
    <3>2. (handlers_busy + 1) % Limit = handlers_busy + 1
      BY <1>2, <1>3, <2>1, <3>1, Counts DEF One
    <3> QED
      BY <1>2, <2>1, <2>3, <3>1, <3>2 DEF One
  <2>4. CASE process_tcp(h)
    <3>1. v = "idle" /\ hpc[h] = "busy"
      BY <1>1, <2>4 DEF TcpTypeOK, HandlerGoes
    <3>2. (handlers_busy - 1) % Limit = handlers_busy - 1
      BY <1>2, <1>3, <2>1, <3>1, Counts DEF One
    <3> QED
      BY <1>2, <2>1, <2>4, <3>1, <3>2 DEF One
  <2> QED
    BY <2>2, <2>3, <2>4 DEF Handle
<1>5. TcpTypeOK'
  <2>1. handlers_busy' \in Counter
    BY <1>2, <1>3, <1>4 DEF Counter
  <2>2. conn_list' \in Seq(Conn) /\ hpc' \in [Handler -> {"none", "idle", "taken", "busy"}]
    <3>1. hpc' \in [Handler -> {"none", "idle", "taken", "busy"}]
      BY <1>1 DEF TcpTypeOK, HandlerGoes
    <3>2. conn_list' = conn_list \/ (conn_list # <<>> /\ conn_list' = Tail(conn_list))
      <4>1. CASE try_extract_first(h)
        BY <4>1
      <4>2. CASE refuse(h) \/ mark_busy(h) \/ process_tcp(h)
        BY <4>2
      <4> QED
        BY <4>1, <4>2 DEF Handle
    <3>3. conn_list # <<>> => Tail(conn_list) \in Seq(Conn)
      BY DEF TcpTypeOK
    <3> QED
      BY <3>1, <3>2, <3>3 DEF TcpTypeOK
  <2>3. /\ sok' \in [Handler -> Conn \cup {NoConn}]
        /\ \A g \in Handler : sok'[g] = NoConn <=> hpc'[g] \in {"none", "idle"}
    <3>1. CASE try_extract_first(h)
      <4>1. Head(conn_list) \in Conn
        BY <3>1 DEF TcpTypeOK
      <4> QED
        BY <3>1, <4>1 DEF TcpTypeOK
    <3>2. CASE refuse(h) \/ process_tcp(h)
      BY <3>2 DEF TcpTypeOK
    <3>3. CASE mark_busy(h)
      BY <3>3 DEF TcpTypeOK
    <3> QED
      BY <3>1, <3>2, <3>3 DEF Handle
  <2>4. accepted' = accepted
    BY DEF Handle
  <2> QED
    BY <1>0, <2>1, <2>2, <2>3, <2>4 DEF TcpTypeOK
<1>6. Threads # 0
  <2>1. h \in {g \in Handler : hpc[g] \in {"idle", "taken", "busy"}}
    BY <1>0 DEF TcpTypeOK
  <2>2. IsFiniteSet({g \in Handler : hpc[g] \in {"idle", "taken", "busy"}})
    <3>1. {g \in Handler : hpc[g] \in {"idle", "taken", "busy"}} \in SUBSET Handler
      OBVIOUS
    <3> QED
      BY <3>1, FS_Subset
  <2> QED
    BY <2>1, <2>2, FS_EmptySet DEF Threads, Number
<1>7. CountersKept' /\ RoomKept' /\ NobodyYet'
  BY <1>0, <1>2, <1>4, <1>6 DEF CountersKept, RoomKept, NobodyYet
<1> QED
  BY <1>5, <1>7

\* A server that starts has no thread, no connection and nothing to count.
LEMMA InitKeeps ==
  ASSUME TcpInit
  PROVE  Inv
<1> USE DEF TcpInit
<1>1. TcpTypeOK
  <2>1. Nothing \in [{} -> Counter] /\ {} \in SUBSET Counters
    BY DEF Nothing
  <2>2. seen \in [Listener -> UNION {[R -> Counter] : R \in SUBSET Counters}]
    BY <2>1
  <2> QED
    BY <2>2 DEF TcpTypeOK, Counter
<1>2. /\ Threads = 0 /\ Number(Handler, hpc, {"busy"}) = 0
      /\ Counting = 0 /\ Making = 0 /\ Engaged = 0
  <2>1. /\ {h \in Handler : hpc[h] \in {"idle", "taken", "busy"}} = {}
        /\ {h \in Handler : hpc[h] \in {"busy"}} = {}
        /\ {l \in Listener : lpc[l] \in {"count"}} = {}
        /\ {l \in Listener : lpc[l] \in {"create", "count"}} = {}
        /\ {l \in Listener : lpc[l] \in {"found_free", "room", "create", "count"}} = {}
    OBVIOUS
  <2> QED
    BY <2>1, FS_EmptySet, Zenon DEF Threads, Counting, Making, Engaged, Number
<1>3. CountersKept
  BY <1>2 DEF CountersKept
<1>4. RoomKept
  <2>1. Cardinality(Listener) \in Nat /\ Cardinality(Listener) # 0
    BY FS_EmptySet, FS_CardinalityType
  <2> QED
    BY <1>2, <2>1 DEF RoomKept
<1>5. NobodyYet
  BY <1>2 DEF NobodyYet, Nothing
<1> QED
  BY <1>1, <1>3, <1>4, <1>5 DEF Inv

\* A step that changes nothing.
LEMMA StutterKeeps ==
  ASSUME Inv, UNCHANGED tcpVars
  PROVE  Inv'
BY NumbersKept
DEF Inv, TcpTypeOK, CountersKept, RoomKept, NobodyYet, tcpVars, counters, listeners,
    handlers, history

LEMMA NextKeeps ==
  ASSUME Inv, [TcpNext]_tcpVars
  PROVE  Inv'
<1>1. CASE UNCHANGED tcpVars
  BY <1>1, StutterKeeps
<1>2. ASSUME NEW l \in Listener, Accept(l)
      PROVE  Inv'
  BY <1>2, AcceptKeeps DEF Accept
<1>3. ASSUME NEW l \in Listener, Listen(l)
      PROVE  Inv'
  BY <1>3, GetKeeps, FoundFreeKeeps, CheckRoomKeeps, CreateKeeps, FailKeeps,
     CountKeeps DEF Listen
<1>4. ASSUME NEW h \in Handler, Handle(h)
      PROVE  Inv'
  BY <1>4, HandleKeeps
<1> QED
  BY <1>1, <1>2, <1>3, <1>4 DEF TcpNext
-----------------------------------------------------------------------------
(* The theorems.                                                           *)

\* Listeners and handlers keep the pool's invariant: the two counters, each
\* changed under a lock of its own, lag behind the threads only by what the
\* listeners have yet to add.
THEOREM PoolInvariant == TcpSpec => []Inv
<1>1. TcpInit => Inv
  BY InitKeeps
<1>2. Inv /\ [TcpNext]_tcpVars => Inv'
  BY NextKeeps
<1> QED
  BY <1>1, <1>2, PTL DEF TcpSpec

\* The counters, the queue and the threads of tcp_server are what they are
\* declared to be.
THEOREM ServerIsTyped == TcpSpec => []TcpTypeOK
<1>1. Inv => TcpTypeOK
  BY DEF Inv
<1> QED
  BY <1>1, PoolInvariant, PTL

\* handlers_count is the number of handler threads whenever every listener is
\* back in accept, and handlers_busy is always that of the connections in
\* process_tcp.
THEOREM CountersAreTrue == TcpSpec => []CountersTrue
<1>1. ASSUME Inv
      PROVE  CountersTrue
  <2> USE <1>1 DEF Inv
  <2>1. Listening = Listener => Counting = 0
    <3>1. Listening = Listener => {l \in Listener : lpc[l] \in {"count"}} = {}
      BY DEF Listening
    <3> QED
      BY <3>1, FS_EmptySet, Zenon DEF Counting, Number
  <2>2. Started = {h \in Handler : hpc[h] \in {"idle", "taken", "busy"}}
    BY DEF Started, TcpTypeOK
  <2>3. Processing = {h \in Handler : hpc[h] \in {"busy"}}
    BY DEF Processing
  <2>4. Cardinality(Started) = Threads /\ Cardinality(Processing) = Number(Handler, hpc, {"busy"})
    BY <2>2, <2>3, Zenon DEF Threads, Number
  <2>5. handlers_count \in Nat
    BY DEF TcpTypeOK, Counter
  <2> QED
    BY <2>1, <2>4, <2>5 DEF CountersTrue, CountersKept
<1> QED
  BY <1>1, PoolInvariant, PTL

\* Listeners that check the maximum before they count the thread they make
\* exceed it by at most one each, and never all of them.
THEOREM PoolIsBounded == TcpSpec => []HandlersBounded
<1>1. ASSUME Inv
      PROVE  HandlersBounded
  <2> USE <1>1 DEF Inv
  <2>1. Started = {h \in Handler : hpc[h] \in {"idle", "taken", "busy"}}
    BY DEF Started, TcpTypeOK
  <2>2. Cardinality(Started) = Threads
    BY <2>1, Zenon DEF Threads, Number
  <2>3. handlers_count \in Nat /\ MaxHandlers \in Nat
    BY DEF TcpTypeOK, Counter
  <2> QED
    BY <2>2, <2>3, Numbers DEF HandlersBounded, CountersKept, RoomKept
<1> QED
  BY <1>1, PoolInvariant, PTL

\* While no handler thread exists, a queued connection has a listener that is
\* about to make one, unless create_thread has thrown for it.
THEOREM NobodyIsForgotten == TcpSpec => []SomeoneWillServe
<1>1. ASSUME Inv
      PROVE  SomeoneWillServe
  <2> SUFFICES ASSUME Listening = Listener, Started = {}
               PROVE  Len(conn_list) <= failures
    BY DEF SomeoneWillServe
  <2> USE <1>1 DEF Inv
  <2>1. {h \in Handler : hpc[h] \in {"idle", "taken", "busy"}} = {}
    BY DEF Started
  <2>2. {l \in Listener : lpc[l] \in {"found_free", "room", "create", "count"}} = {}
    BY DEF Listening
  <2>3. Threads = 0 /\ Engaged = 0
    BY <2>1, <2>2, FS_EmptySet, Zenon DEF Threads, Engaged, Number
  <2>4. failures \in Nat
    BY DEF TcpTypeOK
  <2> QED
    BY <2>3, <2>4 DEF NobodyYet
<1> QED
  BY <1>1, PoolInvariant, PTL

\* Both, as the runs check them: the counters tell the number of the threads,
\* and the number stays at the maximum or little above.
THEOREM PoolIsCounted == TcpSpec => []PoolCounted
BY CountersAreTrue, PoolIsBounded, PTL DEF PoolCounted
-----------------------------------------------------------------------------
(* The dialog servers.                                                     *)

HIDE ServerAssumption

Line == Nat \X {"line", "empty", "bye"}

DialogTypeOK ==
  /\ l_sent \in [Peer -> Seq(Line)] /\ l_wire \in [Peer -> Seq(Line)]
  /\ l_rd_buf \in [Peer -> Seq(Line)] /\ l_taken \in [Peer -> Seq(Line)]
  /\ l_client \in [Peer -> {"away", "here", "left"}]
  /\ l_fd \in [Peer -> Fd \cup {Closed}]
  /\ l_accepteds \in Seq(Peer) /\ l_readable_socks \in Seq(Peer)
  /\ l_ccc \in [Fd -> Peer \cup {Nobody}]
  /\ l_thread \in [DialogThread -> [conn : Peer \cup {Nobody}, line : Line \cup {<<>>}]]
  /\ l_deleted \in [Peer -> Nat]
  /\ l_unseen \subseteq Peer

In(c, s) == \E i \in DOMAIN s : s[i] = c

\* What the selector has not taken yet is new to everybody else: nobody could
\* have closed it.
AcceptedIsNew ==
  /\ \A i, j \in DOMAIN l_accepteds : l_accepteds[i] = l_accepteds[j] => i = j
  /\ \A c \in Peer : In(c, l_accepteds) =>
       /\ l_client[c] # "away"
       /\ l_fd[c] # Closed
       /\ l_deleted[c] = 0
       /\ \A f \in Fd : l_ccc[f] # c
       /\ ~ In(c, l_readable_socks)
       /\ \A t \in DialogThread : l_thread[t].conn # c

\* A socket is in ccc once, and then it has not been dropped.
WatchedOnce ==
  /\ \A f, g \in Fd : l_ccc[f] = l_ccc[g] /\ l_ccc[f] # Nobody => f = g
  /\ \A f \in Fd : l_ccc[f] # Nobody => l_client[l_ccc[f]] # "away" /\ l_deleted[l_ccc[f]] = 0

\* A connection nobody has made is nowhere.
AwayIsNowhere ==
  \A c \in Peer : l_client[c] = "away" =>
    /\ l_fd[c] = Closed /\ l_deleted[c] = 0
    /\ ~ In(c, l_readable_socks)
    /\ \A t \in DialogThread : l_thread[t].conn # c

DialogInv ==
  DialogTypeOK /\ AcceptedIsNew /\ WatchedOnce /\ AwayIsNowhere /\ LinesInOrder /\ SelectorKeeps
-----------------------------------------------------------------------------
(* Queues and buffers.                                                     *)

\* What is appended is in the queue, and nothing else comes.
LEMMA Appended ==
  ASSUME NEW S, NEW s \in Seq(S), NEW x \in S
  PROVE  /\ Append(s, x) \in Seq(S)
         /\ \A c : In(c, Append(s, x)) <=> In(c, s) \/ c = x
         /\ ~ In(x, s) /\ (\A i, j \in DOMAIN s : s[i] = s[j] => i = j)
              => \A i, j \in DOMAIN Append(s, x) : Append(s, x)[i] = Append(s, x)[j] => i = j
<1> DEFINE t == Append(s, x)
<1>1. /\ t \in Seq(S) /\ Len(s) \in Nat
      /\ DOMAIN s = 1..Len(s) /\ DOMAIN t = 1..(Len(s) + 1)
      /\ \A i \in 1..Len(s) : t[i] = s[i]
      /\ t[Len(s) + 1] = x
  OBVIOUS
<1> HIDE DEF t
<1>2. \A i \in DOMAIN t : (i \in DOMAIN s /\ t[i] = s[i]) \/ (i = Len(s) + 1 /\ t[i] = x)
  BY <1>1
<1>3. \A i \in DOMAIN s : i \in DOMAIN t /\ i # Len(s) + 1
  BY <1>1
<1>4. Len(s) + 1 \in DOMAIN t
  BY <1>1
<1>5. \A c : In(c, t) <=> In(c, s) \/ c = x
  BY <1>1, <1>2, <1>3, <1>4 DEF In
<1>6. ASSUME ~ In(x, s), \A i, j \in DOMAIN s : s[i] = s[j] => i = j
      PROVE  \A i, j \in DOMAIN t : t[i] = t[j] => i = j
  BY <1>1, <1>2, <1>6 DEF In
<1> QED
  BY <1>1, <1>5, <1>6 DEF t

\* What is taken from the front was in the queue, and the rest stays.
LEMMA Dequeued ==
  ASSUME NEW S, NEW s \in Seq(S), s # <<>>
  PROVE  /\ Tail(s) \in Seq(S) /\ Head(s) \in S
         /\ In(Head(s), s)
         /\ \A c : In(c, Tail(s)) => In(c, s)
         /\ \A c : In(c, s) => In(c, Tail(s)) \/ c = Head(s)
         /\ (\A i, j \in DOMAIN s : s[i] = s[j] => i = j)
              => /\ ~ In(Head(s), Tail(s))
                 /\ \A i, j \in DOMAIN Tail(s) : Tail(s)[i] = Tail(s)[j] => i = j
<1> DEFINE t == Tail(s)
<1>1. /\ t \in Seq(S) /\ Len(s) \in Nat \ {0} /\ Head(s) = s[1] /\ Head(s) \in S
      /\ DOMAIN s = 1..Len(s) /\ DOMAIN t = 1..(Len(s) - 1)
      /\ \A i \in 1..(Len(s) - 1) : t[i] = s[i + 1]
  BY HeadTailProperties, EmptySeq
<1> HIDE DEF t
<1>2. 1 \in DOMAIN s /\ \A i \in DOMAIN t : i + 1 \in DOMAIN s /\ t[i] = s[i + 1] /\ i + 1 # 1
  BY <1>1
<1>3. \A i \in DOMAIN s : i = 1 \/ (i - 1 \in DOMAIN t /\ t[i - 1] = s[i])
  BY <1>1
<1>4. In(Head(s), s) /\ \A c : In(c, t) => In(c, s)
  BY <1>1, <1>2 DEF In
<1>5. \A c : In(c, s) => In(c, t) \/ c = Head(s)
  BY <1>1, <1>3 DEF In
<1>6. ASSUME \A i, j \in DOMAIN s : s[i] = s[j] => i = j
      PROVE  ~ In(Head(s), t) /\ \A i, j \in DOMAIN t : t[i] = t[j] => i = j
  <2>1. ~ In(Head(s), t)
    BY <1>1, <1>2, <1>6 DEF In
  <2>2. ASSUME NEW i \in DOMAIN t, NEW j \in DOMAIN t, t[i] = t[j]
        PROVE  i = j
    <3>1. i + 1 = j + 1
      BY <1>2, <1>6, <2>2
    <3> QED
      BY <1>1, <3>1
  <2> QED
    BY <2>1, <2>2
<1> QED
  BY <1>1, <1>4, <1>5, <1>6 DEF t

\* A buffer cut anywhere is its two parts.
LEMMA Cut ==
  ASSUME NEW S, NEW s \in Seq(S), NEW n \in 1..Len(s)
  PROVE  /\ SubSeq(s, 1, n) \in Seq(S) /\ SubSeq(s, n + 1, Len(s)) \in Seq(S)
         /\ SubSeq(s, 1, n) \o SubSeq(s, n + 1, Len(s)) = s
<1>1. SubSeq(s, 1, n) \in Seq(S) /\ Len(SubSeq(s, 1, n)) = n
  BY SubSeqProperties
<1>2. SubSeq(s, n + 1, Len(s)) \in Seq(S) /\ Len(SubSeq(s, n + 1, Len(s))) = Len(s) - n
  BY SubSeqProperties
<1>3. SubSeq(s, 1, n) \o SubSeq(s, n + 1, Len(s)) \in Seq(S)
  BY <1>1, <1>2
<1>4. Len(SubSeq(s, 1, n) \o SubSeq(s, n + 1, Len(s))) = Len(s)
  BY <1>1, <1>2
<1>5. \A i \in 1..Len(s) : (SubSeq(s, 1, n) \o SubSeq(s, n + 1, Len(s)))[i] = s[i]
  BY <1>1, <1>2
<1> QED
  BY <1>1, <1>2, <1>3, <1>4, <1>5, SeqEqual

\* A line that moves from the front of one buffer to the end of another.
LEMMA FrontMoves ==
  ASSUME NEW S, NEW s \in Seq(S), NEW t \in Seq(S), s # <<>>
  PROVE  Append(t, Head(s)) \o Tail(s) = t \o s
<1>1. Tail(s) \in Seq(S) /\ Head(s) \in S
  BY Dequeued
<1>2. s = <<Head(s)>> \o Tail(s) /\ <<Head(s)>> \in Seq(S)
  BY HeadTailProperties, <1>1
<1>3. Append(t, Head(s)) = t \o <<Head(s)>>
  BY <1>1
<1> QED
  BY <1>1, <1>2, <1>3, ConcatAssociative
-----------------------------------------------------------------------------
(* One lemma per step.                                                     *)

USE DialogAssumption DEF DialogInv, clientVars, selectorVars, dialogThreadVars

LEMMA ProcessTcpKeeps ==
  ASSUME DialogInv, NEW c \in Peer, NEW f \in Fd, dialog_process_tcp(c, f)
  PROVE  DialogInv'
<1> USE DEF dialog_process_tcp
<1>1. /\ \A d \in Peer : In(d, l_accepteds') <=> In(d, l_accepteds) \/ d = c
      /\ ~ In(c, l_accepteds) => \A i, j \in DOMAIN l_accepteds' : l_accepteds'[i] = l_accepteds'[j] => i = j
      /\ l_accepteds' \in Seq(Peer)
  <2>1. l_accepteds \in Seq(Peer) /\ l_accepteds' = Append(l_accepteds, c)
    BY DEF DialogTypeOK
  <2>2. \A i, j \in DOMAIN l_accepteds : l_accepteds[i] = l_accepteds[j] => i = j
    BY DEF AcceptedIsNew
  <2> HIDE DEF DialogInv, dialog_process_tcp
  <2> QED
    BY <2>1, <2>2, Appended
<1>2. ~ In(c, l_accepteds) /\ \A g \in Fd : l_ccc[g] # c
  BY DEF AcceptedIsNew, WatchedOnce
<1>3. DialogTypeOK'
  BY <1>1 DEF DialogTypeOK
<1>4. AcceptedIsNew'
  BY <1>1, <1>2 DEF AcceptedIsNew, AwayIsNowhere, DialogTypeOK
<1>5. WatchedOnce'
  BY DEF WatchedOnce, DialogTypeOK
<1>6. AwayIsNowhere'
  BY DEF AwayIsNowhere, DialogTypeOK
<1>7. LinesInOrder'
  BY DEF LinesInOrder
<1>8. SelectorKeeps'
  <2>1. DeletedOnce'
    BY DEF SelectorKeeps, DeletedOnce
  <2>2. ASSUME NEW d \in Peer \ l_unseen, l_fd'[d] # Closed
        PROVE  In(d, l_accepteds') \/ l_ccc[l_fd'[d]] = d
    <3>1. CASE d = c
      BY <1>1, <3>1
    <3>2. CASE d # c
      <4>1. l_fd'[d] = l_fd[d]
        BY <3>2 DEF DialogTypeOK
      <4> QED
        BY <1>1, <2>2, <4>1 DEF SelectorKeeps, OpenIsPolled, In
    <3> QED
      BY <3>1, <3>2
  <2> QED
    BY <2>1, <2>2 DEF SelectorKeeps, OpenIsPolled, In
<1> QED
  BY <1>3, <1>4, <1>5, <1>6, <1>7, <1>8

LEMMA SendKeeps ==
  ASSUME DialogInv, NEW c \in Peer, NEW kind \in LineKind[c], send(c, kind)
  PROVE  DialogInv'
<1> USE DEF send
<1> DEFINE line == <<Len(l_sent[c]) + 1, kind>>
<1>1. line \in Line
  <2>1. kind \in {"line", "empty", "bye"}
    OBVIOUS
  <2>2. Len(l_sent[c]) \in Nat
    BY DEF DialogTypeOK
  <2> QED
    BY <2>1, <2>2 DEF Line
<1>2. DialogTypeOK'
  BY <1>1 DEF DialogTypeOK
<1>3. AcceptedIsNew' /\ WatchedOnce' /\ AwayIsNowhere'
  BY DEF AcceptedIsNew, WatchedOnce, AwayIsNowhere
<1>4. LinesInOrder'
  <2> HIDE DEF line
  <2>1. /\ l_sent' = [l_sent EXCEPT ![c] = Append(l_sent[c], line)]
        /\ l_wire' = [l_wire EXCEPT ![c] = Append(l_wire[c], line)]
    BY DEF line
  <2> SUFFICES ASSUME NEW d \in Peer
               PROVE  (l_taken[d] \o l_rd_buf[d] \o l_wire[d] = l_sent[d])'
    BY DEF LinesInOrder
  <2>2. CASE d # c
    BY <2>1, <2>2 DEF LinesInOrder, DialogTypeOK
  <2>3. CASE d = c
    <3>1. /\ l_taken[c] \in Seq(Line) /\ l_rd_buf[c] \in Seq(Line) /\ l_wire[c] \in Seq(Line)
      BY DEF DialogTypeOK
    <3>2. l_wire'[c] = Append(l_wire[c], line) /\ l_sent'[c] = Append(l_sent[c], line)
      BY <2>1 DEF DialogTypeOK
    <3> DEFINE before == l_taken[c] \o l_rd_buf[c]
               wire == l_wire[c]
    <3>3. before \in Seq(Line) /\ wire \in Seq(Line)
      BY <3>1
    <3> HIDE DEF before, wire
    <3>4. before \o Append(wire, line) = Append(before \o wire, line)
      <4> HIDE DialogAssumption DEF DialogInv, send
      <4> QED
        BY <1>1, <3>3
    <3> QED
      BY <2>3, <3>2, <3>4 DEF LinesInOrder, before, wire
  <2> QED
    BY <2>2, <2>3
<1>5. SelectorKeeps'
  BY DEF SelectorKeeps, DeletedOnce, OpenIsPolled
<1> QED
  BY <1>2, <1>3, <1>4, <1>5

LEMMA LeaveKeeps ==
  ASSUME DialogInv, NEW c \in Peer, leave(c)
  PROVE  DialogInv'
<1> USE DEF leave
<1>1. DialogTypeOK'
  BY DEF DialogTypeOK
<1>2. AcceptedIsNew' /\ WatchedOnce' /\ AwayIsNowhere'
  BY DEF AcceptedIsNew, WatchedOnce, AwayIsNowhere, DialogTypeOK
<1>3. LinesInOrder' /\ SelectorKeeps'
  BY DEF LinesInOrder, SelectorKeeps, DeletedOnce, OpenIsPolled
<1> QED
  BY <1>1, <1>2, <1>3

LEMMA TakeAcceptedKeeps ==
  ASSUME DialogInv, take_accepted
  PROVE  DialogInv'
<1> USE DEF take_accepted
<1> DEFINE c == Head(l_accepteds)
<1>1. /\ c \in Peer /\ l_accepteds' \in Seq(Peer)
      /\ In(c, l_accepteds) /\ ~ In(c, l_accepteds')
      /\ \A d : In(d, l_accepteds') => In(d, l_accepteds)
      /\ \A d : In(d, l_accepteds) => In(d, l_accepteds') \/ d = c
      /\ \A i, j \in DOMAIN l_accepteds' : l_accepteds'[i] = l_accepteds'[j] => i = j
  BY Dequeued DEF AcceptedIsNew, DialogTypeOK
<1> HIDE DEF c
<1>2. /\ l_fd[c] \in Fd /\ l_client[c] # "away" /\ l_deleted[c] = 0
      /\ \A f \in Fd : l_ccc[f] # c
  BY <1>1 DEF AcceptedIsNew, DialogTypeOK
<1>3. /\ l_ccc' = [l_ccc EXCEPT ![l_fd[c]] = Inserted(c)]
      /\ l_unseen' = IF Inserted(c) = c THEN l_unseen ELSE l_unseen \cup {c}
      /\ Inserted(c) = IF l_ccc[l_fd[c]] = Nobody THEN c ELSE l_ccc[l_fd[c]]
  BY DEF c, Inserted
<1>4. DialogTypeOK'
  <2>1. Inserted(c) \in Peer \cup {Nobody}
    BY <1>1, <1>2, <1>3 DEF DialogTypeOK
  <2>2. l_ccc' \in [Fd -> Peer \cup {Nobody}] /\ l_unseen' \subseteq Peer
    <3> HIDE DEF take_accepted
    <3> QED
      BY <1>1, <1>3, <2>1 DEF DialogTypeOK
  <2> QED
    BY <1>1, <2>2 DEF DialogTypeOK
<1>5. \A f \in Fd : l_ccc'[f] = l_ccc[f] \/ (f = l_fd[c] /\ l_ccc[f] = Nobody /\ l_ccc'[f] = c)
  BY <1>2, <1>3 DEF DialogTypeOK
<1>6. AcceptedIsNew'
  BY <1>1, <1>5 DEF AcceptedIsNew
<1>7. WatchedOnce'
  BY <1>1, <1>2, <1>5 DEF WatchedOnce
<1>8. AwayIsNowhere' /\ LinesInOrder'
  BY DEF AwayIsNowhere, LinesInOrder
<1>9. SelectorKeeps'
  <2>1. DeletedOnce'
    BY DEF SelectorKeeps, DeletedOnce
  <2>2. ASSUME NEW d \in Peer \ l_unseen', l_fd[d] # Closed
        PROVE  In(d, l_accepteds') \/ l_ccc'[l_fd[d]] = d
    <3>1. CASE d = c
      BY <1>2, <1>3, <2>2, <3>1 DEF DialogTypeOK
    <3>2. CASE d # c
      <4>1. In(d, l_accepteds) \/ l_ccc[l_fd[d]] = d
        BY <1>3, <2>2 DEF SelectorKeeps, OpenIsPolled, In
      <4>2. l_fd[d] \in Fd
        BY <2>2 DEF DialogTypeOK
      <4>3. d # Nobody
        OBVIOUS
      <4> QED
        BY <1>1, <1>5, <3>2, <4>1, <4>2, <4>3
    <3> QED
      BY <3>1, <3>2
  <2> QED
    BY <2>1, <2>2 DEF SelectorKeeps, OpenIsPolled, In
<1> QED
  BY <1>4, <1>6, <1>7, <1>8, <1>9

\* The entry goes and its socket is closed, whoever has the descriptor.
LEMMA DropKeeps ==
  ASSUME DialogInv, NEW f \in Fd, l_ccc[f] # Nobody, drop_socket(f)
  PROVE  DialogInv'
<1> USE DEF drop_socket, Shut, Erased
<1> DEFINE d == l_ccc[f]
<1>1. /\ d \in Peer /\ l_deleted[d] = 0 /\ l_client[d] # "away"
      /\ ~ In(d, l_accepteds)
      /\ \A g \in Fd : l_ccc[g] = d => g = f
  BY DEF WatchedOnce, AcceptedIsNew, DialogTypeOK
<1>2. /\ l_ccc' = [l_ccc EXCEPT ![f] = Nobody]
      /\ l_fd' = [l_fd EXCEPT ![d] = Closed]
      /\ l_deleted' = [l_deleted EXCEPT ![d] = @ + 1]
  OBVIOUS
<1> HIDE DEF d
<1>3. DialogTypeOK'
  BY <1>1, <1>2 DEF DialogTypeOK
<1>4. \A g \in Fd : l_ccc'[g] = (IF g = f THEN Nobody ELSE l_ccc[g])
  BY <1>2 DEF DialogTypeOK
<1>5. /\ \A c \in Peer : l_deleted'[c] = IF c = d THEN 1 ELSE l_deleted[c]
      /\ \A c \in Peer : l_fd'[c] = IF c = d THEN Closed ELSE l_fd[c]
  <2>1. l_deleted \in [Peer -> Nat] /\ l_fd \in [Peer -> Fd \cup {Closed}]
    BY DEF DialogTypeOK
  <2> QED
    BY <1>1, <1>2, <2>1
<1>6. AcceptedIsNew'
  BY <1>1, <1>4, <1>5 DEF AcceptedIsNew
<1>7. WatchedOnce'
  BY <1>1, <1>4, <1>5 DEF WatchedOnce, DialogTypeOK
<1>8. AwayIsNowhere' /\ LinesInOrder'
  BY <1>1, <1>5 DEF AwayIsNowhere, LinesInOrder
<1>9. SelectorKeeps'
  <2>1. DeletedOnce'
    BY <1>5 DEF SelectorKeeps, DeletedOnce
  <2>2. ASSUME NEW c \in Peer \ l_unseen, l_fd'[c] # Closed
        PROVE  In(c, l_accepteds) \/ l_ccc'[l_fd'[c]] = c
    <3>1. c # d /\ l_fd'[c] = l_fd[c] /\ l_fd[c] \in Fd
      BY <1>5, <2>2 DEF DialogTypeOK
    <3>2. In(c, l_accepteds) \/ l_ccc[l_fd[c]] = c
      BY <2>2, <3>1 DEF SelectorKeeps, OpenIsPolled, In
    <3> QED
      BY <1>4, <3>1, <3>2 DEF d
  <2> QED
    BY <2>1, <2>2 DEF SelectorKeeps, OpenIsPolled, In
<1> QED
  BY <1>3, <1>6, <1>7, <1>8, <1>9

LEMMA PollStaleKeeps ==
  ASSUME DialogInv, NEW f \in Fd, poll_stale(f)
  PROVE  DialogInv'
<1> USE DEF poll_stale, Stale, Erased
<1> DEFINE d == l_ccc[f]
<1>1. /\ d \in Peer /\ l_fd[d] # f
      /\ \A g \in Fd : l_ccc'[g] = (IF g = f THEN Nobody ELSE l_ccc[g])
      /\ l_unseen' = l_unseen \cup {d}
  BY DEF DialogTypeOK
<1>2. DialogTypeOK'
  BY <1>1 DEF DialogTypeOK
<1> HIDE DEF d
<1>3. AcceptedIsNew' /\ WatchedOnce'
  BY <1>1 DEF AcceptedIsNew, WatchedOnce
<1>4. AwayIsNowhere' /\ LinesInOrder'
  BY DEF AwayIsNowhere, LinesInOrder
<1>5. SelectorKeeps'
  <2>1. DeletedOnce'
    BY DEF SelectorKeeps, DeletedOnce
  <2>2. ASSUME NEW c \in Peer \ l_unseen', l_fd[c] # Closed
        PROVE  In(c, l_accepteds) \/ l_ccc'[l_fd[c]] = c
    <3>1. c # d /\ l_fd[c] \in Fd
      BY <1>1, <2>2 DEF DialogTypeOK
    <3>2. In(c, l_accepteds) \/ l_ccc[l_fd[c]] = c
      BY <1>1, <2>2, <3>1 DEF SelectorKeeps, OpenIsPolled, In
    <3> QED
      BY <1>1, <3>1, <3>2 DEF d
  <2> QED
    BY <2>1, <2>2 DEF SelectorKeeps, OpenIsPolled, In
<1> QED
  BY <1>2, <1>3, <1>4, <1>5

LEMMA RecvKeeps ==
  ASSUME DialogInv, NEW f \in Fd, recv(f)
  PROVE  DialogInv'
<1> USE DEF recv, Watched
<1> DEFINE c == l_ccc[f]
<1>1. c \in Peer /\ ~ In(c, l_accepteds) /\ l_client[c] # "away"
  BY DEF DialogTypeOK, AcceptedIsNew, WatchedOnce
<1>2. PICK n \in 1..Len(l_wire[c]) :
        /\ l_rd_buf' = [l_rd_buf EXCEPT ![c] = @ \o SubSeq(l_wire[c], 1, n)]
        /\ l_wire' = [l_wire EXCEPT ![c] = SubSeq(@, n + 1, Len(@))]
  OBVIOUS
<1>3. l_readable_socks' = Append(l_readable_socks, c)
  OBVIOUS
<1> HIDE DEF c
<1>4. /\ l_readable_socks' \in Seq(Peer)
      /\ \A d : In(d, l_readable_socks') <=> In(d, l_readable_socks) \/ d = c
  <2>1. l_readable_socks \in Seq(Peer)
    BY DEF DialogTypeOK
  <2> HIDE DEF DialogInv, recv
  <2> QED
    BY <1>1, <1>3, <2>1, Appended
<1>5. /\ l_taken[c] \in Seq(Line) /\ l_rd_buf[c] \in Seq(Line) /\ l_wire[c] \in Seq(Line)
  BY <1>1 DEF DialogTypeOK
<1>6. DialogTypeOK'
  <2>1. l_rd_buf[c] \o SubSeq(l_wire[c], 1, n) \in Seq(Line) /\ SubSeq(l_wire[c], n + 1, Len(l_wire[c])) \in Seq(Line)
    BY <1>5, Cut
  <2> QED
    BY <1>1, <1>2, <1>4, <2>1 DEF DialogTypeOK
<1>7. AcceptedIsNew' /\ WatchedOnce' /\ AwayIsNowhere'
  BY <1>1, <1>4 DEF AcceptedIsNew, WatchedOnce, AwayIsNowhere
<1>8. LinesInOrder'
  <2> SUFFICES ASSUME NEW d \in Peer
               PROVE  (l_taken[d] \o l_rd_buf[d] \o l_wire[d] = l_sent[d])'
    BY DEF LinesInOrder
  <2>1. CASE d # c
    BY <1>2, <2>1 DEF LinesInOrder, DialogTypeOK
  <2>2. CASE d = c
    <3>1. l_rd_buf'[c] = l_rd_buf[c] \o SubSeq(l_wire[c], 1, n) /\ l_wire'[c] = SubSeq(l_wire[c], n + 1, Len(l_wire[c]))
      BY <1>1, <1>2 DEF DialogTypeOK
    <3>2. l_taken[c] \o (l_rd_buf[c] \o SubSeq(l_wire[c], 1, n)) \o SubSeq(l_wire[c], n + 1, Len(l_wire[c]))
            = l_taken[c] \o l_rd_buf[c] \o l_wire[c]
      <4> HIDE DialogAssumption DEF DialogInv, recv
      <4> DEFINE taken == l_taken[c]
                 buf == l_rd_buf[c]
                 first == SubSeq(l_wire[c], 1, n)
                 rest == SubSeq(l_wire[c], n + 1, Len(l_wire[c]))
                 before == taken \o buf
      <4>1. first \o rest = l_wire[c]
        BY <1>5, Cut
      <4>2. first \in Seq(Line) /\ rest \in Seq(Line)
        BY <1>5, Cut
      <4>3. taken \in Seq(Line) /\ buf \in Seq(Line)
        BY <1>5
      <4> HIDE DEF taken, buf, first, rest
      <4>4. before \in Seq(Line)
        BY <4>3
      <4>5. taken \o (buf \o first) = before \o first
        BY <4>2, <4>3
      <4> HIDE DEF before
      <4>6. (before \o first) \o rest = before \o (first \o rest)
        BY <4>2, <4>4
      <4> QED
        BY <4>1, <4>5, <4>6 DEF before, taken, buf, first, rest
    <3> QED
      BY <1>1, <2>2, <3>1, <3>2 DEF LinesInOrder
  <2> QED
    BY <2>1, <2>2
<1>9. SelectorKeeps'
  BY DEF SelectorKeeps, DeletedOnce, OpenIsPolled
<1> QED
  BY <1>6, <1>7, <1>8, <1>9

LEMMA ExtractFirstKeeps ==
  ASSUME DialogInv, NEW t \in DialogThread, extract_first(t)
  PROVE  DialogInv'
<1> USE DEF extract_first
<1> DEFINE c == Head(l_readable_socks)
<1>1. /\ c \in Peer /\ l_readable_socks' \in Seq(Peer)
      /\ In(c, l_readable_socks)
      /\ \A d : In(d, l_readable_socks') => In(d, l_readable_socks)
  BY Dequeued DEF DialogTypeOK
<1> HIDE DEF c
<1>2. l_thread' = [l_thread EXCEPT ![t].conn = c]
  BY DEF c
<1>3. /\ l_thread' \in [DialogThread -> [conn : Peer \cup {Nobody}, line : Line \cup {<<>>}]]
      /\ \A x \in DialogThread : l_thread'[x].conn = IF x = t THEN c ELSE l_thread[x].conn
  <2>1. l_thread \in [DialogThread -> [conn : Peer \cup {Nobody}, line : Line \cup {<<>>}]]
    BY DEF DialogTypeOK
  <2> HIDE DialogAssumption DEF DialogInv, extract_first
  <2>2. [l_thread[t] EXCEPT !.conn = c] \in [conn : Peer \cup {Nobody}, line : Line \cup {<<>>}]
        /\ [l_thread[t] EXCEPT !.conn = c].conn = c
    BY <1>1, <2>1
  <2> DEFINE job == [l_thread[t] EXCEPT !.conn = c]
  <2>3. l_thread' = [l_thread EXCEPT ![t] = job] /\ job.conn = c
    BY <1>2, <2>2
  <2>4. job \in [conn : Peer \cup {Nobody}, line : Line \cup {<<>>}]
    BY <2>2
  <2> HIDE DEF job
  <2> QED
    BY <2>1, <2>3, <2>4
<1>4. DialogTypeOK'
  BY <1>1, <1>3 DEF DialogTypeOK
<1>5. AcceptedIsNew' /\ WatchedOnce' /\ AwayIsNowhere'
  BY <1>1, <1>3 DEF AcceptedIsNew, WatchedOnce, AwayIsNowhere
<1>6. LinesInOrder' /\ SelectorKeeps'
  BY DEF LinesInOrder, SelectorKeeps, DeletedOnce, OpenIsPolled
<1> QED
  BY <1>4, <1>5, <1>6

LEMMA ExtractCommandKeeps ==
  ASSUME DialogInv, NEW t \in DialogThread, extract_command(t)
  PROVE  DialogInv'
<1> USE DEF extract_command
<1> DEFINE c == l_thread[t].conn
           line == Head(l_rd_buf[c])
<1>1. c \in Peer
  BY DEF DialogTypeOK
<1>2. /\ l_rd_buf[c] \in Seq(Line) /\ l_taken[c] \in Seq(Line) /\ l_wire[c] \in Seq(Line)
      /\ l_rd_buf[c] # <<>> => line \in Line /\ Tail(l_rd_buf[c]) \in Seq(Line)
  <2>1. l_rd_buf[c] \in Seq(Line) /\ l_taken[c] \in Seq(Line) /\ l_wire[c] \in Seq(Line)
    BY <1>1 DEF DialogTypeOK
  <2> QED
    BY <2>1, Dequeued
<1>3. UNCHANGED <<clientVars, l_fd, l_readable_socks, selectorVars, l_done>>
  OBVIOUS
<1>4. CASE l_rd_buf[c] = <<>>
  <2>1. l_thread' = [l_thread EXCEPT ![t] = Unoccupied] /\ UNCHANGED <<l_rd_buf, l_taken>>
    BY <1>4
  <2>2. /\ l_thread' \in [DialogThread -> [conn : Peer \cup {Nobody}, line : Line \cup {<<>>}]]
        /\ \A x \in DialogThread : l_thread'[x].conn = IF x = t THEN Nobody ELSE l_thread[x].conn
    BY <2>1 DEF DialogTypeOK, Unoccupied
  <2> HIDE DEF extract_command
  <2>3. DialogTypeOK'
    BY <1>3, <2>1, <2>2 DEF DialogTypeOK
  <2>4. AcceptedIsNew' /\ WatchedOnce' /\ AwayIsNowhere'
    BY <1>3, <2>2 DEF AcceptedIsNew, WatchedOnce, AwayIsNowhere
  <2>5. LinesInOrder' /\ SelectorKeeps'
    BY <1>3, <2>1 DEF LinesInOrder, SelectorKeeps, DeletedOnce, OpenIsPolled
  <2> QED
    BY <2>3, <2>4, <2>5
<1>5. CASE l_rd_buf[c] # <<>>
  <2>1. /\ l_rd_buf' = [l_rd_buf EXCEPT ![c] = Tail(l_rd_buf[c])]
        /\ l_taken' = [l_taken EXCEPT ![c] = Append(l_taken[c], line)]
        /\ l_thread' = [l_thread EXCEPT ![t] = IF line[2] = "empty" THEN Unoccupied ELSE [@ EXCEPT !.line = line]]
    BY <1>5 DEF Rest
  <2>2. /\ l_thread' \in [DialogThread -> [conn : Peer \cup {Nobody}, line : Line \cup {<<>>}]]
        /\ \A x \in DialogThread : l_thread'[x].conn \in {l_thread[x].conn, Nobody}
    <3> HIDE DEF extract_command, line
    <3> QED
      BY <1>2, <1>5, <2>1 DEF DialogTypeOK, Unoccupied
  <2> HIDE DEF extract_command, c, line
  <2>3. DialogTypeOK'
    <3>1. Append(l_taken[c], line) \in Seq(Line)
      BY <1>2, <1>5
    <3> QED
      BY <1>1, <1>2, <1>3, <1>5, <2>1, <2>2, <3>1 DEF DialogTypeOK
  <2>4. AcceptedIsNew' /\ WatchedOnce' /\ AwayIsNowhere'
    BY <1>3, <2>2 DEF AcceptedIsNew, WatchedOnce, AwayIsNowhere
  <2>5. LinesInOrder'
    <3> SUFFICES ASSUME NEW d \in Peer
                 PROVE  (l_taken[d] \o l_rd_buf[d] \o l_wire[d] = l_sent[d])'
      BY DEF LinesInOrder
    <3>1. CASE d # c
      BY <1>3, <2>1, <3>1 DEF LinesInOrder, DialogTypeOK
    <3>2. CASE d = c
      <4>1. l_taken'[c] = Append(l_taken[c], line) /\ l_rd_buf'[c] = Tail(l_rd_buf[c])
        BY <1>1, <2>1 DEF DialogTypeOK
      <4>2. Append(l_taken[c], line) \o Tail(l_rd_buf[c]) = l_taken[c] \o l_rd_buf[c]
        <5> HIDE DialogAssumption DEF DialogInv
        <5> QED
          BY <1>2, <1>5, FrontMoves DEF line
      <4> QED
        BY <1>1, <1>3, <3>2, <4>1, <4>2 DEF LinesInOrder
    <3> QED
      BY <3>1, <3>2
  <2>6. SelectorKeeps'
    BY <1>3 DEF SelectorKeeps, DeletedOnce, OpenIsPolled
  <2> QED
    BY <2>3, <2>4, <2>5, <2>6
<1> QED
  BY <1>4, <1>5

LEMMA ProcessCommandKeeps ==
  ASSUME DialogInv, NEW t \in DialogThread, process_command(t)
  PROVE  DialogInv'
<1> USE DEF process_command, LineProcessed
<1> DEFINE c == l_thread[t].conn
<1>1. /\ l_thread' \in [DialogThread -> [conn : Peer \cup {Nobody}, line : Line \cup {<<>>}]]
      /\ \A x \in DialogThread : l_thread'[x].conn = l_thread[x].conn
  BY DEF DialogTypeOK
<1>2. /\ l_fd' \in [Peer -> Fd \cup {Closed}]
      /\ \A d \in Peer : l_fd'[d] = l_fd[d] \/ (d = c /\ l_fd'[d] = Closed)
  BY DEF DialogTypeOK
<1>3. UNCHANGED <<clientVars, l_rd_buf, l_readable_socks, selectorVars, l_taken>>
  OBVIOUS
<1> HIDE DEF process_command
<1>4. DialogTypeOK'
  BY <1>1, <1>2, <1>3 DEF DialogTypeOK
<1>5. AcceptedIsNew'
  BY <1>1, <1>2, <1>3 DEF AcceptedIsNew
<1>6. WatchedOnce' /\ AwayIsNowhere'
  BY <1>1, <1>2, <1>3 DEF WatchedOnce, AwayIsNowhere
<1>7. LinesInOrder'
  BY <1>3 DEF LinesInOrder
<1>8. SelectorKeeps'
  BY <1>2, <1>3 DEF SelectorKeeps, DeletedOnce, OpenIsPolled
<1> QED
  BY <1>4, <1>5, <1>6, <1>7, <1>8
-----------------------------------------------------------------------------
(* The invariant.                                                          *)

LEMMA DialogInitKeeps == DialogInit => DialogInv
<1> SUFFICES ASSUME DialogInit PROVE DialogInv
  OBVIOUS
<1> USE DEF DialogInit
<1>1. DialogTypeOK
  BY DEF DialogTypeOK, Unoccupied
<1>2. AcceptedIsNew /\ WatchedOnce /\ AwayIsNowhere
  BY DEF AcceptedIsNew, WatchedOnce, AwayIsNowhere, In, Unoccupied
<1>3. LinesInOrder
  <2>1. <<>> \o <<>> \o <<>> = <<>>
    OBVIOUS
  <2> QED
    BY <2>1 DEF LinesInOrder
<1>4. SelectorKeeps
  BY DEF SelectorKeeps, DeletedOnce, OpenIsPolled
<1> QED
  BY <1>1, <1>2, <1>3, <1>4

LEMMA DialogNextKeeps == DialogInv /\ [DialogNext]_dialogVars => DialogInv'
<1> SUFFICES ASSUME DialogInv, [DialogNext]_dialogVars
             PROVE  DialogInv'
  OBVIOUS
<1> HIDE DEF DialogInv
<1>1. ASSUME NEW c \in Peer, NEW f \in Fd, dialog_process_tcp(c, f) PROVE DialogInv'
  BY <1>1, ProcessTcpKeeps
<1>2. ASSUME NEW c \in Peer, NEW kind \in LineKind[c], send(c, kind) PROVE DialogInv'
  BY <1>2, SendKeeps
<1>3. ASSUME NEW c \in Peer, leave(c) PROVE DialogInv'
  BY <1>3, LeaveKeeps
<1>4. ASSUME take_accepted PROVE DialogInv'
  BY <1>4, TakeAcceptedKeeps
<1>5. ASSUME NEW f \in Fd, sweep(f) \/ poll_invalid(f) PROVE DialogInv'
  BY <1>5, DropKeeps DEF sweep, Swept, poll_invalid, Stale
<1>6. ASSUME NEW f \in Fd, recv_fails(f) PROVE DialogInv'
  BY <1>6, DropKeeps DEF recv_fails, Watched
<1>7. ASSUME NEW f \in Fd, poll_stale(f) PROVE DialogInv'
  BY <1>7, PollStaleKeeps
<1>8. ASSUME NEW f \in Fd, recv(f) PROVE DialogInv'
  BY <1>8, RecvKeeps
<1>9. ASSUME NEW t \in DialogThread, DialogThreadSteps(t) PROVE DialogInv'
  BY <1>9, ExtractFirstKeeps, ExtractCommandKeeps, ProcessCommandKeeps DEF DialogThreadSteps
<1>10. CASE UNCHANGED dialogVars
  BY <1>10 DEF dialogVars, DialogInv, DialogTypeOK, AcceptedIsNew, WatchedOnce, AwayIsNowhere,
    LinesInOrder, SelectorKeeps, DeletedOnce, OpenIsPolled, In
<1> QED
  BY <1>1, <1>2, <1>3, <1>4, <1>5, <1>6, <1>7, <1>8, <1>9, <1>10 DEF DialogNext, SelectorSteps
-----------------------------------------------------------------------------
(* The theorems.                                                           *)

\* A socket is queued for the selector, then watched by it, then dropped, and
\* in one of these at a time; until it is watched no handler knows it.
THEOREM DialogInvariant == DialogSpec => []DialogInv
<1>1. DialogInit => DialogInv
  BY DialogInitKeeps
<1>2. DialogInv /\ [DialogNext]_dialogVars => DialogInv'
  BY DialogNextKeeps
<1> QED
  BY <1>1, <1>2, PTL DEF DialogSpec

\* However many threads take lines of one connection, each line is taken once
\* and in the order in which it was sent.
THEOREM LinesAreInOrder == DialogSpec => []LinesInOrder
<1>1. DialogInv => LinesInOrder
  OBVIOUS
<1> QED
  BY <1>1, DialogInvariant, PTL

\* on_delete is called once for a connection, and the selector has or will
\* have every open socket, but those that a stale entry of ccc shut out.
THEOREM SelectorLooksAfter == DialogSpec => []SelectorKeeps
<1>1. DialogInv => SelectorKeeps
  OBVIOUS
<1> QED
  BY <1>1, DialogInvariant, PTL
=============================================================================
