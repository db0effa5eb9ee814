----------------------------- MODULE Stores_proofs -----------------------------
(***************************************************************************)
(* Proofs about what several threads change together: a profile, its       *)
(* caches and its table (Profiles), for any items, pages and commands; how *)
(* far an account can be overdrawn and that balances, answers and log add  *)
(* up (Credits), for any accounts, tellers and sums; and that the klaps    *)
(* and the moderators of a channel are the same everywhere when all is     *)
(* done (Klaps), for any users and pages.                                  *)
(***************************************************************************)
EXTENDS Credits, Profiles, Klaps, FiniteSetTheorems, WellFoundedInduction, TLAPS
-----------------------------------------------------------------------------
(* Profiles: the cache, the chat thread and the table.                     *)

Change == [item : Item, adds : BOOLEAN]

PageSteps == {"idle", "find", "load", "insert", "look", "row", "write", "end"}

Doing ==
  [at : PageSteps, does : {"nothing", "toggle", "remove", "add"},
   item : Item \cup {"none"}, adds : BOOLEAN, obj : Object \cup {NoObject}]

\* The chat thread only loads and copies; the other threads change an item.
DoingOK(k, w) ==
  /\ k.at \notin {"idle", "find", "load", "end"} => k.obj \in Object
  /\ w = ChatThread => k.at \in {"idle", "find", "load", "insert", "look"}
  /\ w # ChatThread /\ k.at # "idle" => k.item \in Item
  /\ k.at = "row" => k.does = "add"
  /\ k.does = "add" /\ k.at \in {"row", "write", "end"} => k.adds = TRUE

WorkOK ==
  /\ d_work \in [Worker -> Doing]
  /\ \A w \in Worker : DoingOK(d_work[w], w)
  /\ d_table = "contacts" => \A w \in WebPage : WorkerAt(w, "idle")

StoreOK ==
  /\ d_rows \in SUBSET Item /\ d_told \in SUBSET Item
  /\ d_obj \in [Object -> SUBSET Item]
  /\ d_map \in Object \cup {NoObject}
  /\ d_session = (IF d_table = "settings" THEN 1 ELSE NoObject)
  /\ d_user \in [loaded : BOOLEAN, has : SUBSET Item]

QueuesOK ==
  /\ d_queue \in Seq(Change) /\ d_batch \in Seq(Change) /\ d_events \in Seq(Change)
  /\ d_step \in {"event", "cache", "query"}
  /\ d_step # "event" => d_batch # << >>

ProfilesTypeOK == WorkOK /\ StoreOK /\ QueuesOK

\* Nobody else has an object that is about to be inserted.
LoadedAlone ==
  \A w \in Worker : WorkerAt(w, "insert") =>
    /\ d_work[w].obj \notin {d_map, d_session}
    /\ \A v \in Worker : d_work[v].obj = d_work[w].obj => v = w

\* One page at a time is about an item, or the item is odd.
PageAlone ==
  \A w, v \in WebPage :
    ~ WorkerAt(w, "idle") /\ ~ WorkerAt(v, "idle") /\ d_work[w].item = d_work[v].item /\ w # v
      => d_work[w].item \in d_odd

About(s, i) == \E k \in DOMAIN s : s[k].item = i

\* The last command about i leaves it as it is in S.
Says(s, i, S) ==
  \E k \in DOMAIN s :
    /\ s[k].item = i /\ (s[k].adds = TRUE <=> i \in S)
    /\ \A m \in DOMAIN s : m > k => s[m].item # i

Same(i, S, T) == i \in S <=> i \in T

\* A page has changed something of i and not queued its command.
Ends(w, i) == WorkerAt(w, "end") /\ d_work[w].item = i
Adds(w, i) == WorkerAt(w, "write") /\ d_work[w].does = "add" /\ d_work[w].item = i
Ending(i) == \E w \in WebPage : Ends(w, i)
Adding(i) == \E w \in WebPage : Adds(w, i)
Still(i) == ~ Ending(i) /\ ~ Adding(i) /\ ~ About(d_queue, i)

\* What is still to come for the cached object, and what it then agrees with.
LeftToCache == IF d_step = "query" THEN Tail(d_batch) ELSE d_batch
CacheTarget == IF d_step = "query" THEN Apply(Head(d_batch), d_rows) ELSE d_rows

\* The same for the chat thread.
LeftToTell == IF d_step = "event" THEN d_batch ELSE Tail(d_batch)
ChatTarget == IF d_step = "event" THEN d_rows ELSE Apply(Head(d_batch), d_rows)

\* The objects that are in the map, on their way to it, or to be copied.
Tracked(o) ==
  /\ o \in Object
  /\ \/ o = d_map
     \/ \E w \in Worker : WorkerAt(w, "insert") /\ d_work[w].obj = o
     \/ WorkerAt(ChatThread, "look") /\ d_work[ChatThread].obj = o

CacheTracks(o, i) == Still(i) /\ ~ About(LeftToCache, i) => Same(i, d_obj[o], CacheTarget)

ChatTracks(i) ==
  Still(i) /\ ~ About(LeftToTell, i) =>
    IF About(d_events, i) THEN Says(d_events, i, ChatTarget)
    ELSE d_user.loaded = TRUE => Same(i, d_user.has, ChatTarget)

EndTold(i) == \E w \in WebPage : Ends(w, i) /\ (d_work[w].adds = TRUE <=> i \in d_told)

ToldTracks(i) ==
  \/ Adding(i)
  \/ IF Ending(i) THEN EndTold(i)
     ELSE IF About(d_queue, i) THEN Says(d_queue, i, d_told)
     ELSE IF About(d_batch, i) THEN Says(d_batch, i, d_told)
     ELSE Same(i, d_told, d_rows)

\* What has been said of i and not yet done makes up the difference.
Tracks(i) ==
  /\ \A o \in Object : Tracked(o) => CacheTracks(o, i)
  /\ ChatTracks(i)
  /\ ToldTracks(i)

ProfilesInv ==
  /\ ProfilesTypeOK /\ LoadedAlone /\ PageAlone
  /\ \A i \in Item \ d_odd : Tracks(i)
-----------------------------------------------------------------------------
(* Commands and queues of commands.                                        *)

LEMMA ApplyDoes ==
  ASSUME NEW c \in Change, NEW S, NEW i
  PROVE  i \in Apply(c, S) <=> IF c.item = i THEN c.adds = TRUE ELSE i \in S
<1>1. c.adds \in BOOLEAN
  BY DEF Change
<1>2. CASE c.adds = TRUE
  BY <1>2 DEF Apply
<1>3. CASE c.adds = FALSE
  BY <1>3 DEF Apply
<1> QED
  BY <1>1, <1>2, <1>3

LEMMA ApplyType ==
  ASSUME NEW c \in Change, NEW S \in SUBSET Item
  PROVE  Apply(c, S) \in SUBSET Item
<1>1. c.item \in Item
  BY DEF Change
<1> QED
  BY <1>1 DEF Apply

LEMMA AppendSays ==
  ASSUME NEW s \in Seq(Change), NEW c \in Change, NEW i, NEW S
  PROVE  /\ Append(s, c) \in Seq(Change)
         /\ About(Append(s, c), i) <=> About(s, i) \/ c.item = i
         /\ c.item = i /\ (c.adds = TRUE <=> i \in S) => Says(Append(s, c), i, S)
         /\ c.item # i /\ Says(s, i, S) => Says(Append(s, c), i, S)
<1> DEFINE t == Append(s, c)
           n == Len(s)
<1>1. /\ n \in Nat /\ t \in Seq(Change)
      /\ DOMAIN s = 1..n /\ DOMAIN t = 1..(n + 1)
      /\ \A k \in 1..n : t[k] = s[k]
      /\ t[n + 1] = c
  OBVIOUS
<1> HIDE DEF t, n
<1>2. About(t, i) <=> About(s, i) \/ c.item = i
  <2>1. ASSUME NEW k \in DOMAIN t, t[k].item = i PROVE About(s, i) \/ c.item = i
    <3>1. k \in 1..n \/ k = n + 1
      BY <1>1
    <3> QED
      BY <1>1, <2>1, <3>1 DEF About
  <2>2. ASSUME NEW k \in DOMAIN s, s[k].item = i PROVE About(t, i)
    <3>1. k \in DOMAIN t /\ t[k] = s[k]
      BY <1>1
    <3> QED
      BY <2>2, <3>1 DEF About
  <2>3. c.item = i => About(t, i)
    <3>1. n + 1 \in DOMAIN t
      BY <1>1
    <3> QED
      BY <1>1, <3>1 DEF About
  <2> QED
    BY <2>1, <2>2, <2>3 DEF About
<1>3. ASSUME c.item = i, c.adds = TRUE <=> i \in S PROVE Says(t, i, S)
  <2>1. n + 1 \in DOMAIN t /\ \A m \in DOMAIN t : ~ m > n + 1
    BY <1>1
  <2> QED
    BY <1>1, <1>3, <2>1 DEF Says
<1>4. ASSUME c.item # i, Says(s, i, S) PROVE Says(t, i, S)
  <2>1. PICK k \in DOMAIN s :
          /\ s[k].item = i /\ (s[k].adds = TRUE <=> i \in S)
          /\ \A m \in DOMAIN s : m > k => s[m].item # i
    BY <1>4 DEF Says
  <2>2. k \in DOMAIN t /\ t[k] = s[k]
    BY <1>1
  <2>3. ASSUME NEW m \in DOMAIN t, m > k PROVE t[m].item # i
    <3>1. m \in 1..n \/ m = n + 1
      BY <1>1
    <3> QED
      BY <1>1, <1>4, <2>1, <2>3, <3>1
  <2> QED
    BY <2>1, <2>2, <2>3 DEF Says
<1> QED
  BY <1>1, <1>2, <1>3, <1>4 DEF t

LEMMA TailSteps ==
  ASSUME NEW s \in Seq(Change), s # << >>
  PROVE  /\ Tail(s) \in Seq(Change) /\ Head(s) \in Change /\ Head(s) = s[1] /\ 1 \in DOMAIN s
         /\ \A k \in DOMAIN Tail(s) : k \in Nat /\ k + 1 \in DOMAIN s /\ Tail(s)[k] = s[k + 1]
         /\ \A k \in DOMAIN s : k \in Nat /\ k >= 1
         /\ \A k \in DOMAIN s : k # 1 => k - 1 \in DOMAIN Tail(s) /\ Tail(s)[k - 1] = s[k]
OBVIOUS

LEMMA TailSays ==
  ASSUME NEW s \in Seq(Change), s # << >>, NEW i, NEW S
  PROVE  /\ About(s, i) <=> Head(s).item = i \/ About(Tail(s), i)
         /\ Says(s, i, S) /\ About(Tail(s), i) => Says(Tail(s), i, S)
         /\ Says(s, i, S) /\ ~ About(Tail(s), i)
              => Head(s).item = i /\ (Head(s).adds = TRUE <=> i \in S)
<1> DEFINE t == Tail(s)
           h == Head(s)
<1>1. /\ h = s[1] /\ 1 \in DOMAIN s
      /\ \A k \in DOMAIN t : k \in Nat /\ k + 1 \in DOMAIN s /\ t[k] = s[k + 1]
      /\ \A k \in DOMAIN s : k \in Nat /\ k >= 1
      /\ \A k \in DOMAIN s : k # 1 => k - 1 \in DOMAIN t /\ t[k - 1] = s[k]
  BY TailSteps
<1> HIDE DEF t, h
<1>2. About(s, i) <=> h.item = i \/ About(t, i)
  BY <1>1 DEF About
<1>3. ASSUME Says(s, i, S)
      PROVE  IF About(t, i) THEN Says(t, i, S) ELSE h.item = i /\ (h.adds = TRUE <=> i \in S)
  <2>1. PICK k \in DOMAIN s :
          /\ s[k].item = i /\ (s[k].adds = TRUE <=> i \in S)
          /\ \A m \in DOMAIN s : m > k => s[m].item # i
    BY <1>3 DEF Says
  <2>2. CASE k = 1
    <3>1. ~ About(t, i)
      <4>1. ASSUME NEW m \in DOMAIN t PROVE t[m].item # i
        <5>1. m \in Nat /\ m + 1 \in DOMAIN s /\ t[m] = s[m + 1] /\ m + 1 >= 1
          BY <1>1
        <5>2. m # 0
          <6>1. m # 0 \/ (m = 0 /\ 0 \in DOMAIN t)
            OBVIOUS
          <6>2. 0 \notin DOMAIN t
            BY DEF t
          <6> QED
            BY <6>1, <6>2
        <5>3. m + 1 > k
          BY <2>2, <5>1, <5>2
        <5> QED
          BY <2>1, <5>1, <5>3
      <4> QED
        BY <4>1 DEF About
    <3> QED
      BY <1>1, <2>1, <2>2, <3>1
  <2>3. CASE k # 1
    <3>1. k - 1 \in DOMAIN t /\ t[k - 1] = s[k]
      BY <1>1, <2>3
    <3>2. ASSUME NEW m \in DOMAIN t, m > k - 1 PROVE t[m].item # i
      <4>1. m + 1 \in DOMAIN s /\ t[m] = s[m + 1] /\ m \in Nat /\ k \in Nat
        BY <1>1
      <4>2. m + 1 > k
        BY <3>2, <4>1
      <4> QED
        BY <2>1, <4>1, <4>2
    <3>3. Says(t, i, S) /\ About(t, i)
      BY <2>1, <3>1, <3>2 DEF Says, About
    <3> QED
      BY <3>3
  <2> QED
    BY <2>2, <2>3
<1> QED
  BY <1>2, <1>3 DEF t, h

LEMMA SaysSame ==
  ASSUME NEW s, NEW i, NEW S, NEW T, Same(i, S, T), Says(s, i, S)
  PROVE  Says(s, i, T)
BY DEF Same, Says

LEMMA NothingSaid ==
  ASSUME NEW i
  PROVE  ~ About(<< >>, i)
BY DEF About
-----------------------------------------------------------------------------
(* What a step does to other items.                                        *)

PagesSame(i) ==
  \A w \in WebPage : /\ Ends(w, i)' <=> Ends(w, i)
                     /\ Adds(w, i)' <=> Adds(w, i)
                     /\ Ends(w, i) => d_work'[w].adds = d_work[w].adds

\* A queue stays, or a command about something else joins it.
Joined(s, t, i) == t = s \/ \E c \in Change : t = Append(s, c) /\ c.item # i

Aside(i) ==
  /\ PagesSame(i)
  /\ Same(i, d_rows, d_rows') /\ Same(i, d_told, d_told')
  /\ Joined(d_queue, d_queue', i)
  /\ UNCHANGED <<d_batch, d_step>>

LEMMA JoinedSays ==
  ASSUME NEW s \in Seq(Change), NEW t, NEW i, Joined(s, t, i)
  PROVE  /\ About(t, i) <=> About(s, i)
         /\ \A S : Says(s, i, S) => Says(t, i, S)
<1>1. CASE t = s
  BY <1>1
<1>2. CASE t # s
  <2>1. PICK c \in Change : t = Append(s, c) /\ c.item # i
    BY <1>2 DEF Joined
  <2> QED
    BY <2>1, AppendSays
<1> QED
  BY <1>1, <1>2

LEMMA PagesStill ==
  ASSUME NEW i, PagesSame(i)
  PROVE  (Ending(i)' <=> Ending(i)) /\ (Adding(i)' <=> Adding(i))
BY DEF PagesSame, Ending, Adding

LEMMA AsideStill ==
  ASSUME QueuesOK, NEW i, Aside(i)
  PROVE  Still(i)' <=> Still(i)
<1>1. About(d_queue', i) <=> About(d_queue, i)
  BY JoinedSays DEF Aside, QueuesOK
<1>2. (Ending(i)' <=> Ending(i)) /\ (Adding(i)' <=> Adding(i))
  BY PagesStill DEF Aside
<1> QED
  BY <1>1, <1>2 DEF Still

\* What the cache and the chat thread are to agree with is the same.
LEMMA AsideTargets ==
  ASSUME QueuesOK, NEW i, Aside(i)
  PROVE  /\ LeftToCache' = LeftToCache /\ LeftToTell' = LeftToTell
         /\ Same(i, CacheTarget, CacheTarget') /\ Same(i, ChatTarget, ChatTarget')
<1>1. LeftToCache' = LeftToCache /\ LeftToTell' = LeftToTell
  BY DEF Aside, LeftToCache, LeftToTell
<1>2. ASSUME d_step # "event" PROVE Same(i, Apply(Head(d_batch), d_rows), Apply(Head(d_batch), d_rows'))
  <2>1. Head(d_batch) \in Change
    BY <1>2, TailSteps DEF QueuesOK
  <2> QED
    BY <2>1, ApplyDoes DEF Aside, Same
<1>3. d_batch' = d_batch /\ d_step' = d_step /\ Same(i, d_rows, d_rows')
  BY DEF Aside
<1> QED
  BY <1>1, <1>2, <1>3 DEF CacheTarget, ChatTarget, QueuesOK

LEMMA CacheAside ==
  ASSUME QueuesOK, NEW i, Aside(i), NEW o, CacheTracks(o, i), Same(i, d_obj[o], d_obj'[o])
  PROVE  CacheTracks(o, i)'
<1>1. Still(i)' <=> Still(i)
  BY AsideStill
<1>2. LeftToCache' = LeftToCache /\ Same(i, CacheTarget, CacheTarget')
  BY AsideTargets
<1> QED
  BY <1>1, <1>2 DEF CacheTracks, Same

LEMMA ChatAside ==
  ASSUME QueuesOK, NEW i, Aside(i), ChatTracks(i),
         Joined(d_events, d_events', i),
         d_user'.loaded = TRUE => d_user.loaded = TRUE /\ Same(i, d_user.has, d_user'.has)
  PROVE  ChatTracks(i)'
<1>1. Still(i)' <=> Still(i)
  BY AsideStill
<1>2. LeftToTell' = LeftToTell /\ Same(i, ChatTarget, ChatTarget')
  BY AsideTargets
<1>3. /\ About(d_events', i) <=> About(d_events, i)
      /\ Says(d_events, i, ChatTarget) => Says(d_events', i, ChatTarget)
  BY JoinedSays DEF QueuesOK
<1>4. Says(d_events', i, ChatTarget) => Says(d_events', i, ChatTarget')
  BY <1>2, SaysSame
<1>5. SUFFICES ASSUME Still(i), ~ About(LeftToTell, i)
               PROVE  IF About(d_events', i) THEN Says(d_events', i, ChatTarget')
                      ELSE d_user'.loaded = TRUE => Same(i, d_user'.has, ChatTarget')
  BY <1>1, <1>2 DEF ChatTracks
<1>6. IF About(d_events, i) THEN Says(d_events, i, ChatTarget)
      ELSE d_user.loaded = TRUE => Same(i, d_user.has, ChatTarget)
  BY <1>5 DEF ChatTracks
<1> QED
  BY <1>2, <1>3, <1>4, <1>6 DEF Same

LEMMA ToldAside ==
  ASSUME QueuesOK, NEW i, Aside(i), ToldTracks(i)
  PROVE  ToldTracks(i)'
<1>1. (Ending(i)' <=> Ending(i)) /\ (Adding(i)' <=> Adding(i))
  BY PagesStill DEF Aside
<1>2. EndTold(i) => EndTold(i)'
  BY DEF EndTold, Aside, PagesSame, Same
<1>3. /\ About(d_queue', i) <=> About(d_queue, i)
      /\ Says(d_queue, i, d_told) => Says(d_queue', i, d_told)
  BY JoinedSays DEF Aside, QueuesOK
<1>4. /\ Says(d_queue', i, d_told) => Says(d_queue', i, d_told')
      /\ Says(d_batch, i, d_told) => Says(d_batch, i, d_told')
  BY SaysSame DEF Aside
<1>5. Same(i, d_told, d_rows) => Same(i, d_told', d_rows')
  BY DEF Aside, Same
<1>6. d_batch' = d_batch
  BY DEF Aside
<1> QED
  BY <1>1, <1>2, <1>3, <1>4, <1>5, <1>6 DEF ToldTracks

\* A step that leaves the pages, the queues and the table as they are.
LEMMA QuietAside ==
  ASSUME NEW i, PagesSame(i), UNCHANGED <<d_rows, d_told, d_queue, d_batch, d_step>>
  PROVE  Aside(i)
BY DEF Aside, Joined, Same

\* One thread moves, and is neither ending nor adding a row before or after.
OneMoves(w, k) ==
  /\ d_work'[w] = k
  /\ \A v \in Worker : v # w => d_work'[v] = d_work[v]

LEMMA MovesAside ==
  ASSUME NEW w \in Worker, NEW k, OneMoves(w, k), NEW i,
         \/ d_work[w].at \notin {"end", "write"} \/ d_work[w].item # i
         \/ d_work[w].at = "write" /\ d_work[w].does # "add",
         \/ k.at \notin {"end", "write"} \/ k.item # i
         \/ k.at = "write" /\ k.does # "add"
  PROVE  PagesSame(i)
<1> SUFFICES ASSUME NEW v \in WebPage
             PROVE  /\ Ends(v, i)' <=> Ends(v, i)
                    /\ Adds(v, i)' <=> Adds(v, i)
                    /\ Ends(v, i) => d_work'[v].adds = d_work[v].adds
  BY DEF PagesSame
<1>1. CASE v = w
  BY <1>1 DEF OneMoves, Ends, Adds, WorkerAt
<1>2. CASE v # w
  <2>1. d_work'[v] = d_work[v]
    BY <1>2 DEF OneMoves, Worker
  <2> QED
    BY <2>1 DEF Ends, Adds, WorkerAt
<1> QED
  BY <1>1, <1>2

LEMMA NobodyMoves ==
  ASSUME NEW i, UNCHANGED d_work
  PROVE  PagesSame(i)
BY DEF PagesSame, Ends, Adds, WorkerAt

LEMMA DoingChanges ==
  ASSUME NEW k \in Doing
  PROVE  /\ \A s \in PageSteps : [k EXCEPT !.at = s] \in Doing
         /\ \A b \in BOOLEAN : [k EXCEPT !.adds = b] \in Doing
         /\ \A o \in Object \cup {NoObject} : [k EXCEPT !.obj = o] \in Doing
<1>1. ASSUME NEW s \in PageSteps PROVE [k EXCEPT !.at = s] \in Doing
  BY <1>1 DEF Doing
<1>2. ASSUME NEW b \in BOOLEAN PROVE [k EXCEPT !.adds = b] \in Doing
  BY <1>2 DEF Doing
<1>3. ASSUME NEW o \in Object \cup {NoObject} PROVE [k EXCEPT !.obj = o] \in Doing
  BY <1>3 DEF Doing
<1> QED
  BY <1>1, <1>2, <1>3

LEMMA DoingFields ==
  ASSUME NEW k \in Doing
  PROVE  /\ k.at \in PageSteps /\ k.does \in {"nothing", "toggle", "remove", "add"}
         /\ k.item \in Item \cup {"none"} /\ k.obj \in Object \cup {NoObject}
         /\ k.adds \in BOOLEAN
BY DEF Doing

LEMMA GoesTo ==
  ASSUME NEW k \in Doing, NEW s \in PageSteps
  PROVE  /\ [k EXCEPT !.at = s].at = s /\ [k EXCEPT !.at = s].does = k.does
         /\ [k EXCEPT !.at = s].item = k.item /\ [k EXCEPT !.at = s].obj = k.obj
         /\ [k EXCEPT !.at = s].adds = k.adds
BY DEF Doing

LEMMA AtEaseOK ==
  ASSUME NEW w
  PROVE  /\ AtEase \in Doing /\ DoingOK(AtEase, w)
         /\ AtEase.at = "idle" /\ AtEase.obj = NoObject
<1>1. AtEase.at = "idle" /\ AtEase.does = "nothing" /\ AtEase.obj = NoObject
  BY DEF AtEase
<1>2. AtEase \in Doing
  BY DEF AtEase, Doing, PageSteps
<1> QED
  BY <1>1, <1>2 DEF DoingOK

\* Who moves leaves the others, and is itself as it should be.
LEMMA MovesOK ==
  ASSUME WorkOK, NEW w \in Worker, NEW k \in Doing, DoingOK(k, w),
         d_work' = [d_work EXCEPT ![w] = k], UNCHANGED d_table,
         d_table = "contacts" /\ w \in WebPage => k.at = "idle"
  PROVE  WorkOK' /\ OneMoves(w, k)
<1>1. d_work \in [Worker -> Doing]
  BY DEF WorkOK
<1>2. OneMoves(w, k)
  BY <1>1 DEF OneMoves
<1>3. d_work' \in [Worker -> Doing]
  BY <1>1
<1>4. ASSUME NEW v \in Worker PROVE DoingOK(d_work'[v], v)
  <2>1. CASE v = w
    BY <1>2, <2>1 DEF OneMoves
  <2>2. CASE v # w
    <3>1. d_work'[v] = d_work[v] /\ DoingOK(d_work[v], v)
      BY <1>2, <2>2 DEF OneMoves, WorkOK
    <3> QED
      BY <3>1
  <2> QED
    BY <2>1, <2>2
<1>5. ASSUME d_table = "contacts", NEW v \in WebPage PROVE d_work'[v].at = "idle"
  <2>1. CASE v = w
    BY <1>2, <1>5, <2>1 DEF OneMoves
  <2>2. CASE v # w
    <3>1. v \in Worker /\ d_work[v].at = "idle"
      BY <1>5 DEF WorkOK, WorkerAt, Worker
    <3> QED
      BY <1>2, <2>2, <3>1 DEF OneMoves
  <2> QED
    BY <2>1, <2>2
<1> QED
  BY <1>2, <1>3, <1>4, <1>5 DEF WorkOK, WorkerAt

\* Nothing changes about who may insert what.
LEMMA MovesLoaded ==
  ASSUME WorkOK, LoadedAlone, NEW w \in Worker, NEW k \in Doing, OneMoves(w, k),
         k.at # "insert",
         k.obj \in {NoObject, d_map, d_work[w].obj},
         d_map' \in {NoObject, d_map, d_work[w].obj},
         UNCHANGED d_session
  PROVE  LoadedAlone'
<1> SUFFICES ASSUME NEW v \in Worker, d_work'[v].at = "insert"
             PROVE  /\ d_work'[v].obj \notin {d_map', d_session'}
                    /\ \A u \in Worker : d_work'[u].obj = d_work'[v].obj => u = v
  BY DEF LoadedAlone, WorkerAt
<1>1. v # w /\ d_work'[v] = d_work[v] /\ d_work[v].at = "insert"
  BY DEF OneMoves
<1>2. /\ d_work[v].obj \notin {d_map, d_session}
      /\ \A u \in Worker : d_work[u].obj = d_work[v].obj => u = v
  BY <1>1 DEF LoadedAlone, WorkerAt
<1>3. d_work[v].obj # NoObject
  BY <1>1 DEF WorkOK, DoingOK, Object, NoObject
<1>4. d_work[w].obj # d_work[v].obj
  BY <1>1, <1>2
<1>5. ASSUME NEW u \in Worker, d_work'[u].obj = d_work'[v].obj PROVE u = v
  <2>1. CASE u = w
    BY <1>1, <1>2, <1>3, <1>4, <1>5, <2>1 DEF OneMoves
  <2>2. CASE u # w
    BY <1>1, <1>2, <1>5, <2>2 DEF OneMoves
  <2> QED
    BY <2>1, <2>2
<1> QED
  BY <1>1, <1>2, <1>3, <1>4, <1>5

LEMMA MovesPage ==
  ASSUME PageAlone, NEW w \in Worker, NEW k, OneMoves(w, k),
         \/ w = ChatThread
         \/ k.at = "idle"
         \/ d_work[w].at # "idle" /\ k.item = d_work[w].item,
         d_odd \subseteq d_odd'
  PROVE  PageAlone'
<1> SUFFICES ASSUME NEW v \in WebPage, NEW u \in WebPage, u # v,
                    d_work'[v].at # "idle", d_work'[u].at # "idle",
                    d_work'[v].item = d_work'[u].item
             PROVE  d_work'[v].item \in d_odd'
  BY DEF PageAlone, WorkerAt
<1>1. ASSUME NEW x \in WebPage, d_work'[x].at # "idle"
      PROVE  d_work[x].at # "idle" /\ d_work[x].item = d_work'[x].item
  <2>1. x \in Worker /\ x # ChatThread
    BY ProfilesAssumption DEF Worker
  <2> QED
    BY <1>1, <2>1 DEF OneMoves
<1>2. /\ d_work[v].at # "idle" /\ d_work[v].item = d_work'[v].item
      /\ d_work[u].at # "idle" /\ d_work[u].item = d_work'[u].item
  BY <1>1
<1> QED
  BY <1>2 DEF PageAlone, WorkerAt
LEMMA TrackedMoves ==
  ASSUME NEW w \in Worker, NEW k, OneMoves(w, k), k.at # "insert",
         w = ChatThread /\ k.at = "look"
           => k.obj = d_map \/ (d_work[w].at = "insert" /\ k.obj = d_work[w].obj),
         \/ d_map' \in {NoObject, d_map}
         \/ d_work[w].at = "insert" /\ d_map' = d_work[w].obj,
         NEW o \in Object, Tracked(o)'
  PROVE  Tracked(o)
<1>1. CASE o = d_map'
  <2>1. o # NoObject
    BY DEF Object, NoObject
  <2> QED
    BY <1>1, <2>1 DEF Tracked, WorkerAt
<1>2. CASE \E v \in Worker : d_work'[v].at = "insert" /\ d_work'[v].obj = o
  <2>1. PICK v \in Worker : d_work'[v].at = "insert" /\ d_work'[v].obj = o
    BY <1>2
  <2>2. d_work'[v] = d_work[v]
    BY <2>1 DEF OneMoves
  <2> QED
    BY <2>1, <2>2 DEF Tracked, WorkerAt
<1>3. CASE d_work'[ChatThread].at = "look" /\ d_work'[ChatThread].obj = o
  <2>1. CASE w = ChatThread
    <3>1. k.obj = o /\ k.at = "look"
      BY <1>3, <2>1 DEF OneMoves
    <3> QED
      BY <2>1, <3>1 DEF Tracked, WorkerAt
  <2>2. CASE w # ChatThread
    <3>1. d_work'[ChatThread] = d_work[ChatThread]
      BY <2>2 DEF OneMoves, Worker
    <3> QED
      BY <1>3, <3>1 DEF Tracked, WorkerAt
  <2> QED
    BY <2>1, <2>2
<1> QED
  BY <1>1, <1>2, <1>3 DEF Tracked, WorkerAt

LEMMA QuietTracks ==
  ASSUME QueuesOK, NEW i, Tracks(i), PagesSame(i),
         UNCHANGED <<d_rows, d_told, d_queue, d_batch, d_step, d_events, d_user>>,
         \A o \in Object : Tracked(o)' => Tracked(o) /\ Same(i, d_obj[o], d_obj'[o])
  PROVE  Tracks(i)'
<1>1. Aside(i)
  BY QuietAside
<1>2. ASSUME NEW o \in Object, Tracked(o)' PROVE CacheTracks(o, i)'
  <2>1. CacheTracks(o, i) /\ Same(i, d_obj[o], d_obj'[o])
    BY <1>2 DEF Tracks
  <2> QED
    BY <1>1, <2>1, CacheAside
<1>3. ChatTracks(i)'
  BY <1>1, ChatAside DEF Tracks, Joined, Same
<1>4. ToldTracks(i)'
  BY <1>1, ToldAside DEF Tracks
<1> QED
  BY <1>2, <1>3, <1>4 DEF Tracks
-----------------------------------------------------------------------------
(* The steps of db_map.                                                    *)

LEMMA FindKeeps ==
  ASSUME ProfilesInv, NEW w \in Worker, find(w)
  PROVE  ProfilesInv'
<1> DEFINE s == IF d_map = NoObject THEN "load" ELSE "look"
           j == [d_work[w] EXCEPT !.at = s]
           k == [j EXCEPT !.obj = d_map]
<1>1. /\ WorkOK /\ StoreOK /\ QueuesOK /\ LoadedAlone /\ PageAlone
      /\ d_work[w] \in Doing /\ d_work[w].at = "find" /\ DoingOK(d_work[w], w)
      /\ d_map \in Object \cup {NoObject}
  BY DEF ProfilesInv, ProfilesTypeOK, WorkOK, StoreOK, find, WorkerAt
<1>2. d_work' = [d_work EXCEPT ![w] = k]
  BY DEF find
<1>3. /\ j \in Doing /\ j.at = s /\ j.does = d_work[w].does /\ j.item = d_work[w].item
      /\ j.adds = d_work[w].adds
  <2>1. s \in PageSteps
    BY DEF PageSteps
  <2> QED
    BY <1>1, <2>1, DoingChanges, GoesTo
<1>4. /\ k \in Doing /\ k.at = s /\ k.does = d_work[w].does /\ k.item = d_work[w].item
      /\ k.obj = d_map /\ k.adds = d_work[w].adds
  <2> HIDE DEF j, s
  <2>1. k \in Doing
    BY <1>1, <1>3, DoingChanges
  <2>2. k.at = j.at /\ k.does = j.does /\ k.item = j.item /\ k.adds = j.adds /\ k.obj = d_map
    BY <1>3 DEF Doing
  <2> QED
    BY <1>3, <2>1, <2>2
<1>5. s \in {"load", "look"} /\ (s = "look" => d_map \in Object)
  BY <1>1
<1> HIDE DEF k, j, s
<1>6. DoingOK(k, w)
  BY <1>1, <1>4, <1>5 DEF DoingOK
<1>7. d_table = "contacts" /\ w \in WebPage => k.at = "idle"
  BY <1>1 DEF WorkOK, WorkerAt
<1>8. /\ UNCHANGED <<d_table, d_rows, d_map, d_obj, d_session, d_queue, d_batch, d_step,
                     d_events, d_user, d_told, d_odd>>
  BY DEF find, cacheVars
<1>9. WorkOK' /\ OneMoves(w, k)
  BY <1>1, <1>2, <1>4, <1>6, <1>7, <1>8, MovesOK
<1>10. StoreOK' /\ QueuesOK'
  BY <1>1, <1>8 DEF StoreOK, QueuesOK
<1>11. LoadedAlone'
  <2>1. k.at # "insert" /\ k.obj = d_map /\ d_map' = d_map /\ UNCHANGED d_session
    BY <1>4, <1>5, <1>8
  <2> QED
    BY <1>1, <1>4, <1>9, <2>1, MovesLoaded
<1>12. PageAlone'
  BY <1>1, <1>4, <1>8, <1>9, MovesPage
<1>13. ASSUME NEW i \in Item, i \notin d_odd' PROVE Tracks(i)'
  <2>1. Tracks(i)
    BY <1>8, <1>13 DEF ProfilesInv
  <2>2. PagesSame(i)
    BY <1>1, <1>4, <1>5, <1>9, MovesAside
  <2>3. ASSUME NEW o \in Object, Tracked(o)' PROVE Tracked(o) /\ Same(i, d_obj[o], d_obj'[o])
    <3>1. Tracked(o)
      BY <1>4, <1>5, <1>8, <1>9, <2>3, TrackedMoves
    <3> QED
      BY <1>8, <3>1 DEF Same
  <2> QED
    BY <1>1, <1>8, <2>1, <2>2, <2>3, QuietTracks
<1> QED
  BY <1>9, <1>10, <1>11, <1>12, <1>13 DEF ProfilesInv, ProfilesTypeOK

LEMMA LoadKeeps ==
  ASSUME ProfilesInv, NEW w \in Worker, load_from_db(w)
  PROVE  ProfilesInv'
<1>1. /\ WorkOK /\ StoreOK /\ QueuesOK /\ LoadedAlone /\ PageAlone
      /\ d_work[w] \in Doing /\ d_work[w].at = "load" /\ DoingOK(d_work[w], w)
      /\ d_obj \in [Object -> SUBSET Item] /\ d_rows \in SUBSET Item
  BY DEF ProfilesInv, ProfilesTypeOK, WorkOK, StoreOK, load_from_db, WorkerAt
<1>2. PICK new \in NewObject :
        /\ d_obj' = [d_obj EXCEPT ![new] = d_rows]
        /\ d_work' = [d_work EXCEPT ![w].at = "insert", ![w].obj = new]
  BY DEF load_from_db
<1>3. new \in Object /\ new # d_map /\ new # d_session /\ \A v \in Worker : d_work[v].obj # new
  BY DEF NewObject, Held
<1> DEFINE j == [d_work[w] EXCEPT !.at = "insert"]
           k == [j EXCEPT !.obj = new]
<1>4. d_work' = [d_work EXCEPT ![w] = k]
  BY <1>2
<1>5. /\ j \in Doing /\ j.at = "insert" /\ j.does = d_work[w].does /\ j.item = d_work[w].item
      /\ j.adds = d_work[w].adds
  <2>1. "insert" \in PageSteps
    BY DEF PageSteps
  <2> QED
    BY <1>1, <2>1, DoingChanges, GoesTo
<1>6. /\ k \in Doing /\ k.at = "insert" /\ k.does = d_work[w].does /\ k.item = d_work[w].item
      /\ k.obj = new /\ k.adds = d_work[w].adds
  <2> HIDE DEF j
  <2>1. k \in Doing
    BY <1>3, <1>5, DoingChanges
  <2>2. k.at = j.at /\ k.does = j.does /\ k.item = j.item /\ k.adds = j.adds /\ k.obj = new
    BY <1>5 DEF Doing
  <2> QED
    BY <1>5, <2>1, <2>2
<1> HIDE DEF k, j
<1>7. DoingOK(k, w)
  BY <1>1, <1>3, <1>6 DEF DoingOK
<1>8. d_table = "contacts" /\ w \in WebPage => k.at = "idle"
  BY <1>1 DEF WorkOK, WorkerAt
<1>9. /\ UNCHANGED <<d_table, d_rows, d_map, d_session, d_queue, d_batch, d_step,
                     d_events, d_user, d_told>>
      /\ d_odd' = d_odd \cup Updating
  BY DEF load_from_db
<1>10. WorkOK' /\ OneMoves(w, k)
  BY <1>1, <1>4, <1>6, <1>7, <1>8, <1>9, MovesOK
<1>11. StoreOK' /\ QueuesOK'
  <2>1. d_obj' \in [Object -> SUBSET Item]
    BY <1>1, <1>2
  <2> QED
    BY <1>1, <1>9, <2>1 DEF StoreOK, QueuesOK
<1>12. LoadedAlone'
  <2> SUFFICES ASSUME NEW v \in Worker, d_work'[v].at = "insert"
               PROVE  /\ d_work'[v].obj \notin {d_map', d_session'}
                      /\ \A u \in Worker : d_work'[u].obj = d_work'[v].obj => u = v
    BY DEF LoadedAlone, WorkerAt
  <2>1. CASE v = w
    <3>1. d_work'[v].obj = new
      BY <1>6, <1>10, <2>1 DEF OneMoves
    <3>2. ASSUME NEW u \in Worker, d_work'[u].obj = new PROVE u = w
      BY <1>3, <1>10, <3>2 DEF OneMoves
    <3> QED
      BY <1>3, <1>9, <2>1, <3>1, <3>2
  <2>2. CASE v # w
    <3>1. d_work'[v] = d_work[v] /\ d_work[v].obj # new
      BY <1>3, <1>10, <2>2 DEF OneMoves
    <3>2. ASSUME NEW u \in Worker, d_work'[u].obj = d_work[v].obj PROVE u = v
      <4>1. u # w
        BY <1>6, <1>10, <3>1, <3>2 DEF OneMoves
      <4>2. d_work[u].obj = d_work[v].obj
        BY <1>10, <3>2, <4>1 DEF OneMoves
      <4> QED
        BY <1>1, <3>1, <4>2 DEF LoadedAlone, WorkerAt
    <3> QED
      BY <1>1, <1>9, <3>1, <3>2 DEF LoadedAlone, WorkerAt
  <2> QED
    BY <2>1, <2>2
<1>13. PageAlone'
  BY <1>1, <1>6, <1>9, <1>10, MovesPage
<1>14. ASSUME NEW i \in Item, i \notin d_odd' PROVE Tracks(i)'
  <2>1. Tracks(i) /\ i \notin Updating
    BY <1>9, <1>14 DEF ProfilesInv
  <2>2. PagesSame(i)
    BY <1>1, <1>6, <1>10, MovesAside
  <2>3. Aside(i)
    BY <1>9, <2>2, QuietAside
  <2>4. ASSUME NEW o \in Object, Tracked(o)' PROVE CacheTracks(o, i)'
    <3>1. CASE o = new
      <4>1. d_obj'[o] = d_rows
        BY <1>1, <1>2, <3>1
      <4>2. Same(i, d_rows, CacheTarget)
        <5>1. CASE d_step = "query"
          <6>1. Head(d_batch) \in Change
            BY <1>1, <5>1, TailSteps DEF QueuesOK
          <6>2. Head(d_batch).item # i
            BY <2>1, <5>1 DEF Updating
          <6> QED
            BY <5>1, <6>1, <6>2, ApplyDoes DEF CacheTarget, Same
        <5>2. CASE d_step # "query"
          BY <5>2 DEF CacheTarget, Same
        <5> QED
          BY <5>1, <5>2
      <4>3. CacheTarget' = CacheTarget
        BY <1>9 DEF CacheTarget
      <4> QED
        BY <4>1, <4>2, <4>3 DEF CacheTracks
    <3>2. CASE o # new
      <4>1. Tracked(o)
        <5>1. CASE o = d_map'
          BY <1>9, <5>1 DEF Tracked
        <5>2. CASE \E v \in Worker : d_work'[v].at = "insert" /\ d_work'[v].obj = o
          <6>1. PICK v \in Worker : d_work'[v].at = "insert" /\ d_work'[v].obj = o
            BY <5>2
          <6>2. d_work'[v] = d_work[v]
            BY <1>6, <1>10, <3>2, <6>1 DEF OneMoves
          <6> QED
            BY <6>1, <6>2 DEF Tracked, WorkerAt
        <5>3. CASE d_work'[ChatThread].at = "look" /\ d_work'[ChatThread].obj = o
          <6>1. w # ChatThread
            BY <1>6, <1>10, <3>2, <5>3 DEF OneMoves
          <6>2. d_work'[ChatThread] = d_work[ChatThread]
            BY <1>10, <6>1 DEF OneMoves, Worker
          <6> QED
            BY <5>3, <6>2 DEF Tracked, WorkerAt
        <5> QED
          BY <2>4, <5>1, <5>2, <5>3 DEF Tracked, WorkerAt
      <4>2. CacheTracks(o, i) /\ Same(i, d_obj[o], d_obj'[o])
        <5>1. d_obj'[o] = d_obj[o]
          BY <1>1, <1>2, <3>2
        <5> QED
          BY <2>1, <4>1, <5>1 DEF Tracks, Same
      <4> QED
        BY <1>1, <2>3, <4>2, CacheAside
    <3> QED
      BY <3>1, <3>2
  <2>5. ChatTracks(i)'
    BY <1>1, <1>9, <2>1, <2>3, ChatAside DEF Tracks, Joined, Same
  <2>6. ToldTracks(i)'
    BY <1>1, <2>1, <2>3, ToldAside DEF Tracks
  <2> QED
    BY <2>4, <2>5, <2>6 DEF Tracks
<1> QED
  BY <1>10, <1>11, <1>12, <1>13, <1>14 DEF ProfilesInv, ProfilesTypeOK

LEMMA InsertKeeps ==
  ASSUME ProfilesInv, NEW w \in Worker, insert(w)
  PROVE  ProfilesInv'
<1> DEFINE k == [d_work[w] EXCEPT !.at = "look"]
<1>1. /\ WorkOK /\ StoreOK /\ QueuesOK /\ LoadedAlone /\ PageAlone
      /\ d_work[w] \in Doing /\ d_work[w].at = "insert" /\ DoingOK(d_work[w], w)
      /\ d_map \in Object \cup {NoObject} /\ d_work[w].obj \in Object
  BY DEF ProfilesInv, ProfilesTypeOK, WorkOK, StoreOK, insert, WorkerAt, DoingOK
<1>2. d_work' = [d_work EXCEPT ![w] = k] /\ d_map' \in {d_map, d_work[w].obj}
  BY DEF insert, GoTo, Inserted
<1>3. /\ k \in Doing /\ k.at = "look" /\ k.does = d_work[w].does /\ k.item = d_work[w].item
      /\ k.obj = d_work[w].obj /\ k.adds = d_work[w].adds
  <2>1. "look" \in PageSteps
    BY DEF PageSteps
  <2> QED
    BY <1>1, <2>1, DoingChanges, GoesTo
<1> HIDE DEF k
<1>4. DoingOK(k, w)
  BY <1>1, <1>3 DEF DoingOK
<1>5. d_table = "contacts" /\ w \in WebPage => k.at = "idle"
  BY <1>1 DEF WorkOK, WorkerAt
<1>6. UNCHANGED <<d_table, d_rows, d_obj, d_session, d_queue, d_batch, d_step, d_events,
                  d_user, d_told, d_odd>>
  BY DEF insert
<1>7. WorkOK' /\ OneMoves(w, k)
  BY <1>1, <1>2, <1>3, <1>4, <1>5, <1>6, MovesOK
<1>8. StoreOK' /\ QueuesOK'
  BY <1>1, <1>2, <1>6 DEF StoreOK, QueuesOK
<1>9. LoadedAlone'
  <2>1. k.at # "insert" /\ k.obj = d_work[w].obj /\ d_map' \in {d_map, d_work[w].obj}
    BY <1>2, <1>3
  <2> QED
    BY <1>1, <1>3, <1>6, <1>7, <2>1, MovesLoaded
<1>10. PageAlone'
  BY <1>1, <1>3, <1>6, <1>7, MovesPage
<1>11. ASSUME NEW i \in Item, i \notin d_odd' PROVE Tracks(i)'
  <2>1. Tracks(i)
    BY <1>6, <1>11 DEF ProfilesInv
  <2>2. PagesSame(i)
    BY <1>1, <1>3, <1>7, MovesAside
  <2>3. ASSUME NEW o \in Object, Tracked(o)' PROVE Tracked(o) /\ Same(i, d_obj[o], d_obj'[o])
    <3>1. Tracked(o)
      BY <1>1, <1>2, <1>3, <1>7, <2>3, TrackedMoves
    <3> QED
      BY <1>6, <3>1 DEF Same
  <2> QED
    BY <1>1, <1>6, <2>1, <2>2, <2>3, QuietTracks
<1> QED
  BY <1>7, <1>8, <1>9, <1>10, <1>11 DEF ProfilesInv, ProfilesTypeOK

LEMMA DropKeeps ==
  ASSUME ProfilesInv, NEW flushes, drop(flushes)
  PROVE  ProfilesInv'
<1>1. WorkOK /\ StoreOK /\ QueuesOK /\ LoadedAlone /\ PageAlone
  BY DEF ProfilesInv, ProfilesTypeOK
<1>2. /\ UNCHANGED <<d_table, d_rows, d_obj, d_session, d_work, d_queue, d_batch, d_step, d_events,
                     d_user, d_told, d_odd>>
      /\ d_map' = NoObject
  BY DEF drop
<1>3. WorkOK' /\ StoreOK' /\ QueuesOK' /\ PageAlone'
  BY <1>1, <1>2 DEF WorkOK, StoreOK, QueuesOK, PageAlone, WorkerAt
<1>4. LoadedAlone'
  <2>1. ASSUME NEW v \in Worker, d_work[v].at = "insert" PROVE d_work[v].obj # NoObject
    <3>1. d_work[v].obj \in Object
      BY <1>1, <2>1 DEF WorkOK, DoingOK
    <3> QED
      BY <3>1 DEF Object, NoObject
  <2> QED
    BY <1>1, <1>2, <2>1 DEF LoadedAlone, WorkerAt
<1>5. ASSUME NEW i \in Item, i \notin d_odd' PROVE Tracks(i)'
  <2>1. Tracks(i)
    BY <1>2, <1>5 DEF ProfilesInv
  <2>2. PagesSame(i)
    BY <1>2, NobodyMoves
  <2>3. ASSUME NEW o \in Object, Tracked(o)' PROVE Tracked(o) /\ Same(i, d_obj[o], d_obj'[o])
    <3>1. o # NoObject
      BY DEF Object, NoObject
    <3> QED
      BY <1>2, <2>3, <3>1 DEF Tracked, WorkerAt, Same
  <2> QED
    BY <1>1, <1>2, <2>1, <2>2, <2>3, QuietTracks
<1> QED
  BY <1>3, <1>4, <1>5 DEF ProfilesInv, ProfilesTypeOK
-----------------------------------------------------------------------------
(* The steps of pages.                                                     *)

LEMMA StartsAlone ==
  ASSUME PageAlone, NEW w \in WebPage, NEW k, OneMoves(w, k), NEW i, k.item = i,
         d_odd' = d_odd \cup Crowded(i)
  PROVE  PageAlone'
<1> SUFFICES ASSUME NEW v \in WebPage, NEW u \in WebPage, u # v,
                    d_work'[v].at # "idle", d_work'[u].at # "idle",
                    d_work'[v].item = d_work'[u].item
             PROVE  d_work'[v].item \in d_odd'
  BY DEF PageAlone, WorkerAt
<1>1. v \in Worker /\ u \in Worker
  BY DEF Worker
<1>2. ASSUME NEW x \in WebPage, x # w, d_work[x].item = i PROVE i \in d_odd'
  BY <1>2 DEF Crowded
<1>3. CASE v = w
  <2>1. d_work'[v].item = i /\ d_work[u].item = i
    BY <1>1, <1>3 DEF OneMoves
  <2> QED
    BY <1>2, <1>3, <2>1
<1>4. CASE u = w
  <2>1. d_work'[v].item = i /\ d_work[v].item = i
    BY <1>1, <1>4 DEF OneMoves
  <2> QED
    BY <1>2, <1>4, <2>1
<1>5. CASE v # w /\ u # w
  <2>1. d_work'[v] = d_work[v] /\ d_work'[u] = d_work[u]
    BY <1>1, <1>5 DEF OneMoves
  <2> QED
    BY <2>1 DEF PageAlone, WorkerAt
<1> QED
  BY <1>3, <1>4, <1>5

LEMMA StartKeeps ==
  ASSUME ProfilesInv, NEW w \in WebPage, NEW what \in {"toggle", "remove", "add"}, NEW i \in Item,
         d_table # "contacts", start_page(w, what, i)
  PROVE  ProfilesInv'
<1> DEFINE k == [AtEase EXCEPT !.at = "find", !.does = what, !.item = i]
<1>1. /\ WorkOK /\ StoreOK /\ QueuesOK /\ LoadedAlone /\ PageAlone
      /\ w \in Worker /\ w # ChatThread /\ d_work[w].at = "idle"
  BY ProfilesAssumption DEF ProfilesInv, ProfilesTypeOK, start_page, WorkerAt, Worker
<1>2. d_work' = [d_work EXCEPT ![w] = k] /\ d_odd' = d_odd \cup Crowded(i)
  BY DEF start_page
<1>3. k \in Doing /\ k.at = "find" /\ k.does = what /\ k.item = i /\ k.obj = NoObject
  <2>1. k.at = "find" /\ k.does = what /\ k.item = i /\ k.obj = NoObject
    BY DEF AtEase
  <2>2. k \in Doing
    <3> DEFINE j == [AtEase EXCEPT !.at = "find"]
               l == [j EXCEPT !.does = what]
    <3>1. j \in Doing
      <4>1. "find" \in PageSteps
        BY DEF PageSteps
      <4> QED
        BY <4>1, AtEaseOK, DoingChanges
    <3>2. k = [l EXCEPT !.item = i]
      OBVIOUS
    <3> HIDE DEF j, k
    <3>3. l \in Doing
      BY <3>1 DEF Doing
    <3> HIDE DEF l
    <3> QED
      BY <3>2, <3>3 DEF Doing
  <2> QED
    BY <2>1, <2>2
<1> HIDE DEF k
<1>4. DoingOK(k, w)
  BY <1>3 DEF DoingOK
<1>5. /\ UNCHANGED <<d_table, d_rows, d_map, d_obj, d_session, d_queue, d_batch, d_step,
                     d_events, d_user, d_told>>
  BY DEF start_page, cacheVars
<1>6. WorkOK' /\ OneMoves(w, k)
  BY <1>1, <1>2, <1>3, <1>4, <1>5, MovesOK
<1>7. StoreOK' /\ QueuesOK'
  BY <1>1, <1>5 DEF StoreOK, QueuesOK
<1>8. LoadedAlone'
  BY <1>1, <1>3, <1>5, <1>6, MovesLoaded
<1>9. PageAlone'
  BY <1>1, <1>2, <1>3, <1>6, StartsAlone
<1>10. ASSUME NEW x \in Item, x \notin d_odd' PROVE Tracks(x)'
  <2>1. Tracks(x)
    BY <1>2, <1>10 DEF ProfilesInv
  <2>2. PagesSame(x)
    BY <1>1, <1>3, <1>6, MovesAside
  <2>3. ASSUME NEW o \in Object, Tracked(o)' PROVE Tracked(o) /\ Same(x, d_obj[o], d_obj'[o])
    <3>1. Tracked(o)
      BY <1>1, <1>3, <1>5, <1>6, <2>3, TrackedMoves
    <3> QED
      BY <1>5, <3>1 DEF Same
  <2> QED
    BY <1>1, <1>5, <2>1, <2>2, <2>3, QuietTracks
<1> QED
  BY <1>6, <1>7, <1>8, <1>9, <1>10 DEF ProfilesInv, ProfilesTypeOK

\* A page whose thread changes nothing but what it is doing itself.
LEMMA PageGoesOn ==
  ASSUME ProfilesInv, NEW w \in WebPage, NEW k \in Doing, DoingOK(k, w),
         d_work' = [d_work EXCEPT ![w] = k],
         d_work[w].at \in {"look", "write"},
         d_work[w].at = "write" => d_work[w].does # "add",
         k.at \notin {"insert", "end"}, k.at = "write" => k.does # "add",
         k.at = "idle" \/ k.item = d_work[w].item,
         k.obj \in {NoObject, d_work[w].obj},
         UNCHANGED <<d_table, d_rows, cacheVars, d_queue, d_batch, d_step, d_events, d_user, d_told, d_odd>>
  PROVE  ProfilesInv'
<1>1. /\ WorkOK /\ StoreOK /\ QueuesOK /\ LoadedAlone /\ PageAlone
      /\ w \in Worker /\ w # ChatThread /\ d_work[w].at # "idle"
  BY ProfilesAssumption DEF ProfilesInv, ProfilesTypeOK, Worker
<1>2. UNCHANGED <<d_table, d_rows, d_map, d_obj, d_session, d_queue, d_batch, d_step,
                  d_events, d_user, d_told, d_odd>>
  BY DEF cacheVars
<1>3. d_table = "contacts" /\ w \in WebPage => k.at = "idle"
  BY <1>1 DEF WorkOK, WorkerAt
<1>4. WorkOK' /\ OneMoves(w, k)
  BY <1>1, <1>2, <1>3, MovesOK
<1>5. StoreOK' /\ QueuesOK'
  BY <1>1, <1>2 DEF StoreOK, QueuesOK
<1>6. LoadedAlone'
  BY <1>1, <1>2, <1>4, MovesLoaded
<1>7. PageAlone'
  BY <1>1, <1>2, <1>4, MovesPage
<1>8. ASSUME NEW x \in Item, x \notin d_odd' PROVE Tracks(x)'
  <2>1. Tracks(x)
    BY <1>2, <1>8 DEF ProfilesInv
  <2>2. PagesSame(x)
    BY <1>1, <1>4, MovesAside
  <2>3. ASSUME NEW o \in Object, Tracked(o)' PROVE Tracked(o) /\ Same(x, d_obj[o], d_obj'[o])
    <3>1. Tracked(o)
      BY <1>1, <1>2, <1>4, <2>3, TrackedMoves
    <3> QED
      BY <1>2, <3>1 DEF Same
  <2> QED
    BY <1>1, <1>2, <2>1, <2>2, <2>3, QuietTracks
<1> QED
  BY <1>4, <1>5, <1>6, <1>7, <1>8 DEF ProfilesInv, ProfilesTypeOK

LEMMA LookKeeps ==
  ASSUME ProfilesInv, NEW w \in Worker, look(w)
  PROVE  ProfilesInv'
<1> DEFINE d == d_work[w]
<1>1. /\ w \in WebPage /\ w # ChatThread /\ d \in Doing /\ DoingOK(d, w) /\ d.at = "look"
      /\ UNCHANGED <<d_table, d_rows, cacheVars, d_queue, d_batch, d_step, d_events, d_user, d_told, d_odd>>
  BY DEF ProfilesInv, ProfilesTypeOK, WorkOK, look, WorkerAt, Worker
<1>2. /\ d.obj \in Object /\ d.item \in Item
  BY <1>1 DEF DoingOK
<1>3. CASE d.does = "toggle" /\ d_work' = [d_work EXCEPT ![w].at = "write", ![w].adds = d.item \notin d_obj[d.obj]]
  <2> DEFINE b == d.item \notin d_obj[d.obj]
             j == [d EXCEPT !.at = "write"]
             k == [j EXCEPT !.adds = b]
  <2>1. d_work' = [d_work EXCEPT ![w] = k]
    BY <1>3
  <2>2. j \in Doing /\ j.at = "write" /\ j.does = d.does /\ j.item = d.item /\ j.obj = d.obj
    <3>1. "write" \in PageSteps
      BY DEF PageSteps
    <3> HIDE DEF d
    <3> QED
      BY <1>1, <3>1, DoingChanges, GoesTo
  <2>3. b \in BOOLEAN
    OBVIOUS
  <2> HIDE DEF j, b, d
  <2>4. k \in Doing
    BY <2>2, <2>3, DoingChanges
  <2>5. k.at = "write" /\ k.does = d.does /\ k.item = d.item /\ k.obj = d.obj
    BY <2>2 DEF Doing
  <2> HIDE DEF k
  <2>6. DoingOK(k, w)
    BY <1>1, <1>2, <1>3, <2>5 DEF DoingOK
  <2>7. d = d_work[w]
    BY DEF d
  <2> QED
    BY <1>1, <1>3, <2>1, <2>4, <2>5, <2>6, <2>7, PageGoesOn
<1>4. CASE d.does = "remove" /\ d_work' = [d_work EXCEPT ![w] = [d EXCEPT !.at = "write"]]
  <2> DEFINE k == [d EXCEPT !.at = "write"]
  <2>1. k \in Doing /\ k.at = "write" /\ k.does = d.does /\ k.item = d.item /\ k.obj = d.obj
    <3>1. "write" \in PageSteps
      BY DEF PageSteps
    <3> HIDE DEF d
    <3> QED
      BY <1>1, <3>1, DoingChanges, GoesTo
  <2>2. d_work' = [d_work EXCEPT ![w] = k] /\ d = d_work[w]
    BY <1>4
  <2> HIDE DEF k, d
  <2>3. DoingOK(k, w)
    BY <1>1, <1>2, <1>4, <2>1 DEF DoingOK
  <2> QED
    BY <1>1, <1>4, <2>1, <2>2, <2>3, PageGoesOn
<1>5. CASE d_work' = [d_work EXCEPT ![w] = AtEase]
  BY <1>1, <1>5, AtEaseOK, PageGoesOn
<1>6. CASE d.does = "add" /\ d_work' = [d_work EXCEPT ![w].at = "row", ![w].adds = TRUE]
  <2> DEFINE j == [d EXCEPT !.at = "row"]
             k == [j EXCEPT !.adds = TRUE]
  <2>1. d_work' = [d_work EXCEPT ![w] = k]
    BY <1>6
  <2>2. j \in Doing /\ j.at = "row" /\ j.does = d.does /\ j.item = d.item /\ j.obj = d.obj
    <3>1. "row" \in PageSteps
      BY DEF PageSteps
    <3> HIDE DEF d
    <3> QED
      BY <1>1, <3>1, DoingChanges, GoesTo
  <2> HIDE DEF j, d
  <2>4. k \in Doing
    BY <2>2, DoingChanges
  <2>5. k.at = "row" /\ k.does = d.does /\ k.item = d.item /\ k.obj = d.obj
    BY <2>2 DEF Doing
  <2>6. k.adds = TRUE
    BY <2>2 DEF Doing
  <2> HIDE DEF k
  <2>7. DoingOK(k, w)
    BY <1>1, <1>2, <1>6, <2>5, <2>6 DEF DoingOK
  <2>8. d = d_work[w]
    BY DEF d
  <2> QED
    BY <1>1, <1>6, <2>1, <2>4, <2>5, <2>7, <2>8, PageGoesOn
<1> QED
  BY <1>3, <1>4, <1>5, <1>6 DEF look

\* While a page is about an item, or a command about it waits, only what the
\* user was told matters.
LEMMA BusyTracks ==
  ASSUME NEW i, ~ Still(i)', ToldTracks(i)'
  PROVE  Tracks(i)'
BY DEF Tracks, CacheTracks, ChatTracks

LEMMA AsideTracks ==
  ASSUME QueuesOK, NEW i, Tracks(i), Aside(i), Joined(d_events, d_events', i),
         d_user'.loaded = TRUE => d_user.loaded = TRUE /\ Same(i, d_user.has, d_user'.has),
         \A o \in Object : Tracked(o)' => Tracked(o) /\ Same(i, d_obj[o], d_obj'[o])
  PROVE  Tracks(i)'
<1>1. ASSUME NEW o \in Object, Tracked(o)' PROVE CacheTracks(o, i)'
  <2>1. CacheTracks(o, i) /\ Same(i, d_obj[o], d_obj'[o])
    BY <1>1 DEF Tracks
  <2> QED
    BY <2>1, CacheAside
<1>2. ChatTracks(i)'
  BY ChatAside DEF Tracks
<1>3. ToldTracks(i)'
  BY ToldAside DEF Tracks
<1> QED
  BY <1>1, <1>2, <1>3 DEF Tracks

LEMMA InsertRowKeeps ==
  ASSUME ProfilesInv, NEW w \in Worker, insert_row(w)
  PROVE  ProfilesInv'
<1> DEFINE d == d_work[w]
           k == [d EXCEPT !.at = "write"]
<1>1. /\ WorkOK /\ StoreOK /\ QueuesOK /\ LoadedAlone /\ PageAlone
      /\ d \in Doing /\ d.at = "row" /\ DoingOK(d, w)
  BY DEF ProfilesInv, ProfilesTypeOK, WorkOK, insert_row, WorkerAt
<1>2. /\ w \in WebPage /\ w # ChatThread
      /\ d.does = "add" /\ d.item \in Item /\ d.obj \in Object /\ d.adds = TRUE
  BY <1>1 DEF DoingOK, Worker
<1>3. d_work' = [d_work EXCEPT ![w] = k]
  BY DEF insert_row, GoTo
<1>4. k \in Doing /\ k.at = "write" /\ k.does = d.does /\ k.item = d.item /\ k.obj = d.obj /\ k.adds = d.adds
  <2>1. "write" \in PageSteps
    BY DEF PageSteps
  <2> HIDE DEF d
  <2> QED
    BY <1>1, <2>1, DoingChanges, GoesTo
<1>5. /\ UNCHANGED <<d_table, d_map, d_obj, d_session, d_queue, d_batch, d_step, d_events,
                     d_user, d_told, d_odd>>
      /\ d_rows' = d_rows \cup {d.item} /\ d = d_work[w]
  BY DEF insert_row, cacheVars
<1> HIDE DEF k, d
<1>6. DoingOK(k, w)
  BY <1>1, <1>2, <1>4 DEF DoingOK
<1>7. d_table = "contacts" /\ w \in WebPage => k.at = "idle"
  BY <1>1, <1>5 DEF WorkOK, WorkerAt
<1>8. WorkOK' /\ OneMoves(w, k)
  BY <1>1, <1>3, <1>4, <1>5, <1>6, <1>7, MovesOK
<1>9. StoreOK' /\ QueuesOK'
  BY <1>1, <1>2, <1>5 DEF StoreOK, QueuesOK
<1>10. LoadedAlone'
  BY <1>1, <1>4, <1>5, <1>8, MovesLoaded
<1>11. PageAlone'
  BY <1>1, <1>4, <1>5, <1>8, MovesPage
<1>12. ASSUME NEW i \in Item, i \notin d_odd' PROVE Tracks(i)'
  <2>1. Tracks(i)
    BY <1>5, <1>12 DEF ProfilesInv
  <2>2. CASE i = d.item
    <3>1. Adds(w, i)'
      BY <1>2, <1>4, <1>8, <2>2 DEF Adds, OneMoves, WorkerAt
    <3>2. Adding(i)'
      BY <1>2, <3>1 DEF Adding
    <3> QED
      BY <3>2, BusyTracks DEF Still, ToldTracks
  <2>3. CASE i # d.item
    <3>1. PagesSame(i)
      BY <1>4, <1>5, <1>8, <2>3, MovesAside
    <3>2. Aside(i)
      BY <1>5, <2>3, <3>1 DEF Aside, Same, Joined
    <3>3. ASSUME NEW o \in Object, Tracked(o)' PROVE Tracked(o) /\ Same(i, d_obj[o], d_obj'[o])
      <4>1. Tracked(o)
        BY <1>2, <1>4, <1>5, <1>8, <3>3, TrackedMoves
      <4> QED
        BY <1>5, <4>1 DEF Same
    <3>4. Joined(d_events, d_events', i) /\ d_user' = d_user
      BY <1>5 DEF Joined
    <3> QED
      BY <1>1, <2>1, <3>2, <3>3, <3>4, AsideTracks DEF Same
  <2> QED
    BY <2>2, <2>3
<1> QED
  BY <1>8, <1>9, <1>10, <1>11, <1>12 DEF ProfilesInv, ProfilesTypeOK

\* A page that changes an object and tells the user, and has then to queue the
\* command.
LEMMA ChangeKeeps ==
  ASSUME ProfilesInv, NEW w \in WebPage, NEW k \in Doing, DoingOK(k, w), k.at = "end",
         d_work' = [d_work EXCEPT ![w] = k], d_table # "contacts",
         NEW c \in Change, c.item = k.item, c.adds = k.adds,
         NEW o \in Object, d_obj' = [d_obj EXCEPT ![o] = Apply(c, @)],
         d_told' = Apply(c, d_told),
         d_events' = d_events \/ d_events' = Append(d_events, c),
         k.obj \in {NoObject, d_work[w].obj},
         d_work[w].at # "idle" => d_work[w].item = k.item,
         d_work[w].at # "idle" \/ d_odd' = d_odd \cup Crowded(k.item),
         d_odd \subseteq d_odd',
         UNCHANGED <<d_table, d_rows, d_map, d_session, d_queue, d_batch, d_step, d_user>>
  PROVE  ProfilesInv'
<1>1. /\ WorkOK /\ StoreOK /\ QueuesOK /\ LoadedAlone /\ PageAlone
      /\ w \in Worker /\ w # ChatThread
      /\ d_obj \in [Object -> SUBSET Item] /\ d_told \in SUBSET Item
  BY ProfilesAssumption DEF ProfilesInv, ProfilesTypeOK, Worker, StoreOK
<1>2. WorkOK' /\ OneMoves(w, k)
  BY <1>1, MovesOK
<1>3. StoreOK' /\ QueuesOK'
  <2>1. Apply(c, d_told) \in SUBSET Item /\ Apply(c, d_obj[o]) \in SUBSET Item
    BY <1>1, ApplyType
  <2>2. d_obj' \in [Object -> SUBSET Item]
    BY <1>1, <2>1
  <2>3. StoreOK'
    BY <1>1, <2>1, <2>2 DEF StoreOK
  <2>4. d_events' \in Seq(Change)
    <3>1. d_events \in Seq(Change) /\ Append(d_events, c) \in Seq(Change)
      BY <1>1, AppendSays DEF QueuesOK
    <3> QED
      BY <3>1
  <2>5. QueuesOK'
    BY <1>1, <2>4 DEF QueuesOK
  <2> QED
    BY <2>3, <2>5
<1>4. LoadedAlone'
  BY <1>1, <1>2, MovesLoaded
<1>5. PageAlone'
  BY <1>1, <1>2, StartsAlone, MovesPage
<1>6. ASSUME NEW i \in Item, i \notin d_odd' PROVE Tracks(i)'
  <2>1. Tracks(i)
    BY <1>6 DEF ProfilesInv
  <2>2. CASE i = k.item
    <3>1. Ends(w, i)'
      BY <1>1, <1>2, <2>2 DEF Ends, OneMoves, WorkerAt
    <3>2. d_work'[w].adds = TRUE <=> i \in d_told'
      <4>1. i \in Apply(c, d_told) <=> c.adds = TRUE
        BY <2>2, ApplyDoes
      <4> QED
        BY <1>2, <4>1 DEF OneMoves
    <3>3. Ending(i)' /\ EndTold(i)'
      BY <3>1, <3>2 DEF Ending, EndTold
    <3>4. ToldTracks(i)'
      BY <3>3 DEF ToldTracks
    <3> QED
      BY <3>3, <3>4, BusyTracks DEF Still
  <2>3. CASE i # k.item
    <3>1. PagesSame(i)
      BY <1>1, <1>2, <2>3, MovesAside
    <3>2. Same(i, d_told, d_told') /\ \A q \in Object : Same(i, d_obj[q], d_obj'[q])
      <4>1. i \in Apply(c, d_told) <=> i \in d_told
        BY <2>3, ApplyDoes
      <4>2. i \in Apply(c, d_obj[o]) <=> i \in d_obj[o]
        BY <2>3, ApplyDoes
      <4>3. ASSUME NEW q \in Object PROVE i \in d_obj'[q] <=> i \in d_obj[q]
        BY <1>1, <4>2
      <4> QED
        BY <4>1, <4>3 DEF Same
    <3>3. Aside(i)
      BY <3>1, <3>2 DEF Aside, Same, Joined
    <3>4. ASSUME NEW q \in Object, Tracked(q)' PROVE Tracked(q) /\ Same(i, d_obj[q], d_obj'[q])
      BY <1>1, <1>2, <3>2, <3>4, TrackedMoves
    <3>5. Joined(d_events, d_events', i)
      BY <2>3 DEF Joined
    <3> QED
      BY <1>1, <2>1, <3>3, <3>4, <3>5, AsideTracks DEF Same
  <2> QED
    BY <2>2, <2>3
<1> QED
  BY <1>2, <1>3, <1>4, <1>5, <1>6 DEF ProfilesInv, ProfilesTypeOK

LEMMA WriteKeeps ==
  ASSUME ProfilesInv, NEW w \in Worker, write(w)
  PROVE  ProfilesInv'
<1> DEFINE d == d_work[w]
<1>1. /\ WorkOK /\ StoreOK /\ QueuesOK /\ LoadedAlone /\ PageAlone
      /\ d \in Doing /\ d.at = "write" /\ DoingOK(d, w) /\ d = d_work[w]
      /\ UNCHANGED <<d_table, d_rows, d_map, d_session, d_queue, d_batch, d_step, d_events, d_user, d_odd>>
  BY DEF ProfilesInv, ProfilesTypeOK, WorkOK, write, WorkerAt
<1>2. w \in WebPage /\ w # ChatThread /\ d.item \in Item /\ d.obj \in Object /\ d_table # "contacts"
  BY <1>1 DEF DoingOK, Worker, WorkOK, WorkerAt
<1>3. CASE d.does = "remove" /\ d_work' = [d_work EXCEPT ![w] = AtEase] /\ UNCHANGED <<d_obj, d_told>>
  <2>1. UNCHANGED cacheVars
    BY <1>1, <1>3 DEF cacheVars
  <2> QED
    BY <1>1, <1>2, <1>3, <2>1, AtEaseOK, PageGoesOn
<1>4. CASE /\ d_obj' = [d_obj EXCEPT ![d.obj] = Apply(Command(w), @)]
           /\ d_told' = Apply(Command(w), d_told)
           /\ GoTo(w, "end")
  <2> DEFINE k == [d EXCEPT !.at = "end"]
             c == Command(w)
  <2>1. k \in Doing /\ k.at = "end" /\ k.does = d.does /\ k.item = d.item /\ k.obj = d.obj /\ k.adds = d.adds
    <3>1. "end" \in PageSteps
      BY DEF PageSteps
    <3> HIDE DEF d
    <3> QED
      BY <1>1, <3>1, DoingChanges, GoesTo
  <2>2. c \in Change /\ c.item = d.item /\ c.adds = d.adds
    <3>1. d.adds \in BOOLEAN
      <4> HIDE DEF d
      <4> QED
        BY <1>1, DoingFields
    <3> QED
      BY <1>2, <3>1 DEF Command, Change
  <2>3. d_work' = [d_work EXCEPT ![w] = k]
    BY <1>4 DEF GoTo
  <2>4. d_obj' = [d_obj EXCEPT ![d.obj] = Apply(c, @)] /\ d_told' = Apply(c, d_told)
    BY <1>4
  <2> HIDE DEF c, k, d
  <2>5. DoingOK(k, w)
    BY <1>1, <1>2, <2>1 DEF DoingOK
  <2> QED
    BY <1>1, <1>2, <2>1, <2>2, <2>3, <2>4, <2>5, ChangeKeeps
<1> QED
  BY <1>3, <1>4 DEF write

LEMMA ChangeModeKeeps ==
  ASSUME ProfilesInv, NEW w \in WebPage, NEW i \in Item, url_change_mode(w, i)
  PROVE  ProfilesInv'
<1> DEFINE b == i \notin d_obj[d_session]
           c == [item |-> i, adds |-> b]
           k == [AtEase EXCEPT !.at = "end", !.item = i, !.adds = c.adds]
<1>1. /\ StoreOK /\ d_table = "settings" /\ d_work[w].at = "idle"
      /\ UNCHANGED <<d_table, d_rows, d_map, d_session, d_queue, d_batch, d_step, d_user>>
  BY DEF ProfilesInv, ProfilesTypeOK, url_change_mode, WorkerAt
<1>2. d_session \in Object
  BY <1>1, ProfilesAssumption DEF StoreOK, Object
<1>3. /\ d_obj' = [d_obj EXCEPT ![d_session] = Apply(c, @)]
      /\ d_told' = Apply(c, d_told)
      /\ d_events' = Append(d_events, c)
      /\ d_work' = [d_work EXCEPT ![w] = k]
      /\ d_odd' = d_odd \cup Crowded(i)
  BY DEF url_change_mode
<1>4. b \in BOOLEAN /\ c \in Change /\ c.item = i /\ c.adds = b
  <2>1. b \in BOOLEAN /\ c.item = i /\ c.adds = b
    OBVIOUS
  <2> HIDE DEF b
  <2> QED
    BY <2>1 DEF Change
<1> HIDE DEF c, b
<1>5. k \in Doing /\ k.at = "end" /\ k.item = i /\ k.adds = c.adds /\ k.obj = NoObject /\ k.does = "nothing"
  <2> DEFINE j == [AtEase EXCEPT !.at = "end"]
             l == [j EXCEPT !.item = i]
             b0 == c.adds
  <2>1. j \in Doing /\ j.at = "end" /\ j.obj = NoObject /\ j.does = "nothing"
    <3>1. "end" \in PageSteps
      BY DEF PageSteps
    <3>2. AtEase.obj = NoObject /\ AtEase.does = "nothing"
      BY DEF AtEase
    <3> QED
      BY <3>1, <3>2, AtEaseOK, DoingChanges, GoesTo
  <2>2. k = [l EXCEPT !.adds = b0]
    OBVIOUS
  <2>3. b0 \in BOOLEAN
    BY <1>4
  <2> HIDE DEF j, k
  <2>4. l \in Doing /\ l.at = "end" /\ l.item = i /\ l.obj = NoObject /\ l.does = "nothing"
    BY <2>1 DEF Doing
  <2>5. b0 = c.adds
    OBVIOUS
  <2> HIDE DEF l, b0
  <2>6. [l EXCEPT !.adds = b0] \in Doing
    BY <2>3, <2>4, DoingChanges
  <2>7. /\ [l EXCEPT !.adds = b0].at = "end" /\ [l EXCEPT !.adds = b0].item = i
        /\ [l EXCEPT !.adds = b0].obj = NoObject /\ [l EXCEPT !.adds = b0].does = "nothing"
        /\ [l EXCEPT !.adds = b0].adds = b0
    BY <2>4 DEF Doing
  <2> QED
    BY <2>2, <2>5, <2>6, <2>7
<1> HIDE DEF k
<1>6. DoingOK(k, w)
  <2>1. w # ChatThread
    BY ProfilesAssumption
  <2> QED
    BY <1>5, <2>1 DEF DoingOK
<1>7. d_odd \subseteq d_odd' /\ d_table # "contacts"
  BY <1>1, <1>3
<1> QED
  BY <1>1, <1>2, <1>3, <1>4, <1>5, <1>6, <1>7, ChangeKeeps

LEMMA EndKeeps ==
  ASSUME ProfilesInv, NEW w \in Worker, end(w)
  PROVE  ProfilesInv'
<1> DEFINE d == d_work[w]
           c == Command(w)
<1>1. /\ WorkOK /\ StoreOK /\ QueuesOK /\ LoadedAlone /\ PageAlone
      /\ d \in Doing /\ d.at = "end" /\ DoingOK(d, w) /\ d = d_work[w]
  BY DEF ProfilesInv, ProfilesTypeOK, WorkOK, end, WorkerAt
<1>2. w \in WebPage /\ w # ChatThread /\ d.item \in Item
  BY <1>1 DEF DoingOK, Worker
<1>3. /\ UNCHANGED <<d_table, d_rows, d_map, d_obj, d_session, d_batch, d_step, d_events, d_user, d_told, d_odd>>
      /\ d_queue' = Append(d_queue, c)
      /\ d_work' = [d_work EXCEPT ![w] = AtEase]
  BY DEF end, Queued, cacheVars
<1>4. c \in Change /\ c.item = d.item /\ c.adds = d.adds
  <2>1. d.adds \in BOOLEAN
    <3> HIDE DEF d
    <3> QED
      BY <1>1, DoingFields
  <2> QED
    BY <1>2, <2>1 DEF Command, Change
<1> HIDE DEF c, d
<1>5. WorkOK' /\ OneMoves(w, AtEase)
  BY <1>1, <1>3, AtEaseOK, MovesOK
<1>6. StoreOK' /\ QueuesOK'
  <2>1. d_queue' \in Seq(Change)
    BY <1>1, <1>3, <1>4, AppendSays DEF QueuesOK
  <2> QED
    BY <1>1, <1>3, <2>1 DEF StoreOK, QueuesOK
<1>7. LoadedAlone'
  BY <1>1, <1>3, <1>5, AtEaseOK, MovesLoaded
<1>8. PageAlone'
  BY <1>1, <1>3, <1>5, AtEaseOK, MovesPage
<1>9. ASSUME NEW i \in Item, i \notin d_odd' PROVE Tracks(i)'
  <2>1. Tracks(i) /\ i \notin d_odd
    BY <1>3, <1>9 DEF ProfilesInv
  <2>2. CASE i = d.item
    <3>1. ASSUME NEW v \in WebPage, d_work[v].at # "idle", d_work[v].item = i PROVE v = w
      BY <1>1, <1>2, <2>1, <2>2, <3>1 DEF PageAlone, WorkerAt
    <3>2. Ends(w, i) /\ ~ Adding(i) /\ Ending(i)
      BY <1>1, <1>2, <2>2, <3>1 DEF Ends, Adding, Adds, Ending, WorkerAt
    <3>3. c.adds = TRUE <=> i \in d_told
      <4>1. EndTold(i)
        BY <2>1, <3>2 DEF Tracks, ToldTracks
      <4>2. PICK v \in WebPage : Ends(v, i) /\ (d_work[v].adds = TRUE <=> i \in d_told)
        BY <4>1 DEF EndTold
      <4>3. v = w
        BY <3>1, <4>2 DEF Ends, WorkerAt
      <4> QED
        BY <1>1, <1>4, <4>2, <4>3
    <3>4. About(d_queue', i) /\ Says(d_queue', i, d_told)
      BY <1>1, <1>3, <1>4, <2>2, <3>3, AppendSays DEF QueuesOK
    <3>5. ~ Ending(i)'
      <4>1. ASSUME NEW v \in WebPage, Ends(v, i)' PROVE FALSE
        <5>1. v # w
          BY <1>5, <4>1, AtEaseOK DEF OneMoves, Ends, WorkerAt
        <5>2. d_work'[v] = d_work[v]
          BY <1>5, <5>1 DEF OneMoves, Worker
        <5> QED
          BY <3>1, <4>1, <5>1, <5>2 DEF Ends, WorkerAt
      <4> QED
        BY <4>1 DEF Ending
    <3>6. ToldTracks(i)'
      BY <1>3, <3>4, <3>5 DEF ToldTracks
    <3> QED
      BY <3>4, <3>6, BusyTracks DEF Still
  <2>3. CASE i # d.item
    <3>1. PagesSame(i)
      BY <1>1, <1>5, <2>3, AtEaseOK, MovesAside
    <3>2. Aside(i)
      BY <1>3, <1>4, <2>3, <3>1 DEF Aside, Same, Joined
    <3>3. ASSUME NEW o \in Object, Tracked(o)' PROVE Tracked(o) /\ Same(i, d_obj[o], d_obj'[o])
      <4>1. Tracked(o)
        BY <1>2, <1>3, <1>5, <3>3, AtEaseOK, TrackedMoves
      <4> QED
        BY <1>3, <4>1 DEF Same
    <3>4. Joined(d_events, d_events', i) /\ d_user' = d_user
      BY <1>3 DEF Joined
    <3> QED
      BY <1>1, <2>1, <3>2, <3>3, <3>4, AsideTracks DEF Same
  <2> QED
    BY <2>2, <2>3
<1> QED
  BY <1>5, <1>6, <1>7, <1>8, <1>9 DEF ProfilesInv, ProfilesTypeOK
-----------------------------------------------------------------------------
(* The steps of the chat thread.                                           *)

LEMMA PreloadKeeps ==
  ASSUME ProfilesInv, preload_user
  PROVE  ProfilesInv'
<1> DEFINE w == ChatThread
           d == d_work[w]
           k == [d EXCEPT !.at = "find"]
<1>1. /\ WorkOK /\ StoreOK /\ QueuesOK /\ LoadedAlone /\ PageAlone
      /\ w \in Worker /\ w \notin WebPage /\ d \in Doing /\ d.at = "idle" /\ DoingOK(d, w)
      /\ d = d_work[w] /\ w = ChatThread
  BY ProfilesAssumption DEF ProfilesInv, ProfilesTypeOK, WorkOK, preload_user, WorkerAt, Worker
<1>2. /\ UNCHANGED <<d_table, d_rows, d_map, d_obj, d_session, d_queue, d_batch, d_step, d_events,
                     d_user, d_told, d_odd>>
      /\ d_work' = [d_work EXCEPT ![w] = k]
  BY DEF preload_user, GoTo, cacheVars
<1>3. k \in Doing /\ k.at = "find" /\ k.does = d.does /\ k.item = d.item /\ k.obj = d.obj
  <2>1. "find" \in PageSteps
    BY DEF PageSteps
  <2> HIDE DEF d
  <2> QED
    BY <1>1, <2>1, DoingChanges, GoesTo
<1> HIDE DEF k, d, w
<1>4. DoingOK(k, w)
  BY <1>1, <1>3 DEF DoingOK
<1>5. WorkOK' /\ OneMoves(w, k)
  BY <1>1, <1>2, <1>3, <1>4, MovesOK
<1>6. StoreOK' /\ QueuesOK'
  BY <1>1, <1>2 DEF StoreOK, QueuesOK
<1>7. LoadedAlone'
  BY <1>1, <1>2, <1>3, <1>5, MovesLoaded
<1>8. PageAlone'
  BY <1>1, <1>2, <1>5, MovesPage
<1>9. ASSUME NEW i \in Item, i \notin d_odd' PROVE Tracks(i)'
  <2>1. Tracks(i)
    BY <1>2, <1>9 DEF ProfilesInv
  <2>2. PagesSame(i)
    BY <1>1, <1>3, <1>5, MovesAside
  <2>3. ASSUME NEW o \in Object, Tracked(o)' PROVE Tracked(o) /\ Same(i, d_obj[o], d_obj'[o])
    <3>1. Tracked(o)
      BY <1>1, <1>2, <1>3, <1>5, <2>3, TrackedMoves
    <3> QED
      BY <1>2, <3>1 DEF Same
  <2> QED
    BY <1>1, <1>2, <2>1, <2>2, <2>3, QuietTracks
<1> QED
  BY <1>5, <1>6, <1>7, <1>8, <1>9 DEF ProfilesInv, ProfilesTypeOK

\* What the object agrees with, the chat thread is to agree with, but for the
\* command in flight.
LEMMA CopiedTracks ==
  ASSUME QueuesOK, NEW i, i \notin InFlight, NEW o, CacheTracks(o, i),
         Still(i), ~ About(LeftToTell, i)
  PROVE  Same(i, d_obj[o], ChatTarget)
<1>1. CASE d_step = "event"
  <2>1. LeftToCache = LeftToTell /\ CacheTarget = ChatTarget
    BY <1>1 DEF LeftToCache, LeftToTell, CacheTarget, ChatTarget
  <2> QED
    BY <2>1 DEF CacheTracks
<1>2. CASE d_step # "event"
  <2>1. d_batch # << >> /\ Head(d_batch) \in Change /\ Head(d_batch).item # i
    BY <1>2, TailSteps DEF QueuesOK, InFlight
  <2>2. LeftToTell = Tail(d_batch) /\ ChatTarget = Apply(Head(d_batch), d_rows)
    BY <1>2 DEF LeftToTell, ChatTarget
  <2>3. ~ About(LeftToCache, i)
    <3>1. About(d_batch, i) <=> About(Tail(d_batch), i)
      BY <2>1, TailSays DEF QueuesOK
    <3> QED
      BY <2>2, <3>1 DEF LeftToCache
  <2>4. Same(i, d_obj[o], CacheTarget)
    BY <2>3 DEF CacheTracks
  <2>5. Same(i, CacheTarget, ChatTarget)
    <3>1. i \in Apply(Head(d_batch), d_rows) <=> i \in d_rows
      BY <2>1, ApplyDoes
    <3> QED
      BY <2>2, <3>1 DEF CacheTarget, Same
  <2> QED
    BY <2>4, <2>5 DEF Same
<1> QED
  BY <1>1, <1>2

LEMMA PreloadedKeeps ==
  ASSUME ProfilesInv, preloaded
  PROVE  ProfilesInv'
<1> DEFINE w == ChatThread
           o == d_work[w].obj
<1>1. /\ WorkOK /\ StoreOK /\ QueuesOK /\ LoadedAlone /\ PageAlone
      /\ w \in Worker /\ w \notin WebPage /\ d_work[w].at = "look" /\ DoingOK(d_work[w], w)
      /\ w = ChatThread
  BY ProfilesAssumption DEF ProfilesInv, ProfilesTypeOK, WorkOK, preloaded, WorkerAt, Worker
<1>2. /\ UNCHANGED <<d_table, d_rows, d_map, d_obj, d_session, d_queue, d_batch, d_step, d_events, d_told>>
      /\ d_odd' = d_odd \cup InFlight
      /\ d_work' = [d_work EXCEPT ![w] = AtEase]
      /\ d_user' = [loaded |-> TRUE, has |-> d_obj[o]]
  BY DEF preloaded, cacheVars
<1>3. o \in Object /\ Tracked(o)
  BY <1>1 DEF DoingOK, Tracked, WorkerAt
<1>4. d_obj[o] \in SUBSET Item /\ d_user'.has = d_obj[o]
  BY <1>1, <1>2, <1>3 DEF StoreOK
<1> HIDE DEF o, w
<1>5. WorkOK' /\ OneMoves(w, AtEase)
  BY <1>1, <1>2, AtEaseOK, MovesOK
<1>6. StoreOK' /\ QueuesOK'
  <2>1. d_user' \in [loaded : BOOLEAN, has : SUBSET Item]
    BY <1>2, <1>4
  <2> QED
    BY <1>1, <1>2, <2>1 DEF StoreOK, QueuesOK
<1>7. LoadedAlone'
  BY <1>1, <1>2, <1>5, AtEaseOK, MovesLoaded
<1>8. PageAlone'
  BY <1>1, <1>2, <1>5, AtEaseOK, MovesPage
<1>9. ASSUME NEW i \in Item, i \notin d_odd' PROVE Tracks(i)'
  <2>1. Tracks(i) /\ i \notin InFlight
    BY <1>2, <1>9 DEF ProfilesInv
  <2>2. PagesSame(i)
    BY <1>1, <1>5, AtEaseOK, MovesAside
  <2>3. Aside(i)
    BY <1>2, <2>2, QuietAside
  <2>4. ASSUME NEW p \in Object, Tracked(p)' PROVE CacheTracks(p, i)'
    <3>1. Tracked(p)
      BY <1>1, <1>2, <1>5, <2>4, AtEaseOK, TrackedMoves
    <3>2. CacheTracks(p, i) /\ Same(i, d_obj[p], d_obj'[p])
      BY <1>2, <2>1, <3>1 DEF Tracks, Same
    <3> QED
      BY <1>1, <2>3, <3>2, CacheAside
  <2>5. ChatTracks(i)'
    <3>1. Still(i)' <=> Still(i)
      BY <1>1, <2>3, AsideStill
    <3>2. LeftToTell' = LeftToTell /\ ChatTarget' = ChatTarget
      BY <1>2 DEF LeftToTell, ChatTarget
    <3>3. ASSUME Still(i), ~ About(LeftToTell, i) PROVE Same(i, d_user'.has, ChatTarget)
      <4>1. CacheTracks(o, i)
        BY <1>3, <2>1 DEF Tracks
      <4> QED
        BY <1>1, <1>4, <2>1, <3>3, <4>1, CopiedTracks
    <3> QED
      BY <1>2, <2>1, <3>1, <3>2, <3>3 DEF ChatTracks, Tracks
  <2>6. ToldTracks(i)'
    BY <1>1, <2>1, <2>3, ToldAside DEF Tracks
  <2> QED
    BY <2>4, <2>5, <2>6 DEF Tracks
<1> QED
  BY <1>5, <1>6, <1>7, <1>8, <1>9 DEF ProfilesInv, ProfilesTypeOK

\* Steps of nobody's but the queues'.
LEMMA StillAlone ==
  ASSUME WorkOK, LoadedAlone, PageAlone, UNCHANGED <<d_table, d_work, d_map, d_session>>, d_odd \subseteq d_odd'
  PROVE  WorkOK' /\ LoadedAlone' /\ PageAlone'
BY DEF WorkOK, LoadedAlone, PageAlone, WorkerAt

LEMMA StillTracked ==
  ASSUME NEW o, UNCHANGED <<d_work, d_map>>
  PROVE  Tracked(o)' <=> Tracked(o)
BY DEF Tracked, WorkerAt

LEMMA UnloadKeeps ==
  ASSUME ProfilesInv, unload_user
  PROVE  ProfilesInv'
<1>1. WorkOK /\ StoreOK /\ QueuesOK /\ LoadedAlone /\ PageAlone
  BY DEF ProfilesInv, ProfilesTypeOK
<1>2. /\ UNCHANGED <<d_table, d_rows, d_map, d_obj, d_session, d_work, d_queue, d_batch, d_step,
                     d_events, d_told, d_odd>>
      /\ d_user' = [loaded |-> FALSE, has |-> {}]
  BY DEF unload_user, cacheVars
<1>3. WorkOK' /\ LoadedAlone' /\ PageAlone'
  BY <1>1, <1>2, StillAlone
<1>4. StoreOK' /\ QueuesOK'
  <2>1. d_user' \in [loaded : BOOLEAN, has : SUBSET Item]
    BY <1>2
  <2> QED
    BY <1>1, <1>2, <2>1 DEF StoreOK, QueuesOK
<1>5. ASSUME NEW i \in Item, i \notin d_odd' PROVE Tracks(i)'
  <2>1. Tracks(i)
    BY <1>2, <1>5 DEF ProfilesInv
  <2>2. Aside(i)
    BY <1>2, NobodyMoves, QuietAside
  <2>3. ASSUME NEW o \in Object, Tracked(o)' PROVE Tracked(o) /\ Same(i, d_obj[o], d_obj'[o])
    BY <1>2, <2>3, StillTracked DEF Same
  <2>4. d_user'.loaded # TRUE /\ Joined(d_events, d_events', i)
    BY <1>2 DEF Joined
  <2> QED
    BY <1>1, <2>1, <2>2, <2>3, <2>4, AsideTracks
<1> QED
  BY <1>3, <1>4, <1>5 DEF ProfilesInv, ProfilesTypeOK

LEMMA UpdateDataKeeps ==
  ASSUME ProfilesInv, on_UPDATE_DATA
  PROVE  ProfilesInv'
<1> DEFINE h == Head(d_events)
           t == Tail(d_events)
<1>1. /\ WorkOK /\ StoreOK /\ QueuesOK /\ LoadedAlone /\ PageAlone
      /\ d_events \in Seq(Change) /\ d_events # << >>
      /\ d_user \in [loaded : BOOLEAN, has : SUBSET Item]
  BY DEF ProfilesInv, ProfilesTypeOK, on_UPDATE_DATA, QueuesOK, StoreOK
<1>2. /\ UNCHANGED <<d_table, d_rows, d_map, d_obj, d_session, d_work, d_queue, d_batch, d_step,
                     d_told, d_odd>>
      /\ d_user' = IF d_user.loaded THEN [d_user EXCEPT !.has = Apply(h, @)] ELSE d_user
      /\ d_events' = t
  BY DEF on_UPDATE_DATA, cacheVars
<1>3. h \in Change /\ t \in Seq(Change)
  BY <1>1, TailSteps
<1>4. WorkOK' /\ LoadedAlone' /\ PageAlone'
  BY <1>1, <1>2, StillAlone
<1>5. \A i, S : /\ About(d_events, i) <=> h.item = i \/ About(t, i)
                /\ Says(d_events, i, S) /\ About(t, i) => Says(t, i, S)
                /\ Says(d_events, i, S) /\ ~ About(t, i) => h.item = i /\ (h.adds = TRUE <=> i \in S)
  BY <1>1, TailSays
<1> HIDE DEF h, t
<1>6. /\ d_user' \in [loaded : BOOLEAN, has : SUBSET Item]
      /\ d_user'.loaded = TRUE => d_user.loaded = TRUE /\ d_user'.has = Apply(h, d_user.has)
  <2>1. Apply(h, d_user.has) \in SUBSET Item
    BY <1>1, <1>3, ApplyType
  <2> DEFINE n == Apply(h, d_user.has)
  <2>2. d_user' = IF d_user.loaded THEN [d_user EXCEPT !.has = n] ELSE d_user
    BY <1>2
  <2> HIDE DEF n
  <2>3. [d_user EXCEPT !.has = n] \in [loaded : BOOLEAN, has : SUBSET Item]
    BY <1>1, <2>1 DEF n
  <2>4. CASE d_user.loaded
    <3>1. d_user' = [d_user EXCEPT !.has = n]
      BY <2>2, <2>4
    <3>2. d_user'.has = n
      BY <1>1, <3>1
    <3> QED
      BY <2>3, <2>4, <3>1, <3>2 DEF n
  <2>5. CASE ~ d_user.loaded
    BY <1>1, <2>2, <2>5
  <2> QED
    BY <2>4, <2>5
<1>7. StoreOK' /\ QueuesOK'
  BY <1>1, <1>2, <1>3, <1>6 DEF StoreOK, QueuesOK
<1>8. ASSUME NEW i \in Item, i \notin d_odd' PROVE Tracks(i)'
  <2>1. Tracks(i)
    BY <1>2, <1>8 DEF ProfilesInv
  <2>2. Aside(i)
    BY <1>2, NobodyMoves, QuietAside
  <2>3. ASSUME NEW o \in Object, Tracked(o)' PROVE CacheTracks(o, i)'
    <3>1. CacheTracks(o, i) /\ Same(i, d_obj[o], d_obj'[o])
      BY <1>2, <2>1, <2>3, StillTracked DEF Tracks, Same
    <3> QED
      BY <1>1, <2>2, <3>1, CacheAside
  <2>4. ChatTracks(i)'
    <3>1. Still(i)' <=> Still(i)
      BY <1>1, <2>2, AsideStill
    <3>2. LeftToTell' = LeftToTell /\ ChatTarget' = ChatTarget
      BY <1>2 DEF LeftToTell, ChatTarget
    <3>3. SUFFICES ASSUME Still(i), ~ About(LeftToTell, i)
                   PROVE  IF About(t, i) THEN Says(t, i, ChatTarget)
                          ELSE d_user'.loaded = TRUE => Same(i, d_user'.has, ChatTarget)
      BY <1>2, <3>1, <3>2 DEF ChatTracks
    <3>4. IF About(d_events, i) THEN Says(d_events, i, ChatTarget)
          ELSE d_user.loaded = TRUE => Same(i, d_user.has, ChatTarget)
      BY <2>1, <3>3 DEF Tracks, ChatTracks
    <3>5. i \in Apply(h, d_user.has) <=> IF h.item = i THEN h.adds = TRUE ELSE i \in d_user.has
      BY <1>3, ApplyDoes
    <3>6. CASE About(t, i)
      BY <1>5, <3>4, <3>6
    <3>7. CASE ~ About(t, i) /\ h.item = i
      <4>1. h.adds = TRUE <=> i \in ChatTarget
        BY <1>5, <3>4, <3>7
      <4> QED
        BY <1>6, <3>5, <3>7, <4>1 DEF Same
    <3>8. CASE ~ About(t, i) /\ h.item # i
      <4>1. d_user.loaded = TRUE => Same(i, d_user.has, ChatTarget)
        BY <1>5, <3>4, <3>8
      <4> QED
        BY <1>6, <3>5, <3>8, <4>1 DEF Same
    <3> QED
      BY <3>6, <3>7, <3>8
  <2>5. ToldTracks(i)'
    BY <1>1, <2>1, <2>2, ToldAside DEF Tracks
  <2> QED
    BY <2>3, <2>4, <2>5 DEF Tracks
<1> QED
  BY <1>4, <1>7, <1>8 DEF ProfilesInv, ProfilesTypeOK

LEMMA SendKeeps ==
  ASSUME ProfilesInv, NEW x \in Item, send_message_priv(x)
  PROVE  ProfilesInv'
<1> DEFINE c == [item |-> x, adds |-> TRUE]
<1>1. /\ WorkOK /\ StoreOK /\ QueuesOK /\ LoadedAlone /\ PageAlone
      /\ d_table = "contacts" /\ d_user \in [loaded : BOOLEAN, has : SUBSET Item]
  BY DEF ProfilesInv, ProfilesTypeOK, send_message_priv, StoreOK
<1>2. /\ UNCHANGED <<d_table, d_rows, d_map, d_obj, d_session, d_work, d_batch, d_step, d_events, d_odd>>
      /\ d_user' = [d_user EXCEPT !.has = @ \cup {x}]
      /\ d_queue' = Append(d_queue, c)
      /\ d_told' = d_told \cup {x}
  BY DEF send_message_priv, Queued, cacheVars
<1>3. c \in Change /\ c.item = x /\ c.adds = TRUE
  BY DEF Change
<1> HIDE DEF c
<1>4. WorkOK' /\ LoadedAlone' /\ PageAlone'
  BY <1>1, <1>2, StillAlone
<1>5. /\ d_user' \in [loaded : BOOLEAN, has : SUBSET Item]
      /\ d_user'.loaded = d_user.loaded /\ d_user'.has = d_user.has \cup {x}
  BY <1>1, <1>2
<1>6. StoreOK' /\ QueuesOK'
  <2>1. d_queue' \in Seq(Change)
    BY <1>1, <1>2, <1>3, AppendSays DEF QueuesOK
  <2> QED
    BY <1>1, <1>2, <1>5, <2>1 DEF StoreOK, QueuesOK
<1>7. ASSUME NEW i \in Item, i \notin d_odd' PROVE Tracks(i)'
  <2>1. Tracks(i)
    BY <1>2, <1>7 DEF ProfilesInv
  <2>2. CASE i = x
    <3>1. ~ Ending(i)'
      BY <1>1, <1>2 DEF WorkOK, Ending, Ends, WorkerAt
    <3>2. About(d_queue', i) /\ Says(d_queue', i, d_told')
      <4>1. c.adds = TRUE <=> i \in d_told'
        BY <1>2, <1>3, <2>2
      <4> QED
        BY <1>1, <1>2, <1>3, <2>2, <4>1, AppendSays DEF QueuesOK
    <3>3. ToldTracks(i)'
      BY <3>1, <3>2 DEF ToldTracks
    <3> QED
      BY <3>2, <3>3, BusyTracks DEF Still
  <2>3. CASE i # x
    <3>1. Aside(i)
      BY <1>2, <1>3, <2>3, NobodyMoves DEF Aside, Same, Joined
    <3>2. ASSUME NEW o \in Object, Tracked(o)' PROVE Tracked(o) /\ Same(i, d_obj[o], d_obj'[o])
      BY <1>2, <3>2, StillTracked DEF Same
    <3>3. Joined(d_events, d_events', i) /\ Same(i, d_user.has, d_user'.has)
      BY <1>2, <1>5, <2>3 DEF Joined, Same
    <3> QED
      BY <1>1, <1>5, <2>1, <3>1, <3>2, <3>3, AsideTracks
  <2> QED
    BY <2>2, <2>3
<1> QED
  BY <1>4, <1>6, <1>7 DEF ProfilesInv, ProfilesTypeOK
-----------------------------------------------------------------------------
(* The steps of update_processor.                                          *)

LEMMA ExtractKeeps ==
  ASSUME ProfilesInv, extract_all
  PROVE  ProfilesInv'
<1>1. /\ WorkOK /\ StoreOK /\ QueuesOK /\ LoadedAlone /\ PageAlone
      /\ d_batch = << >> /\ d_queue # << >> /\ d_step = "event"
  BY DEF ProfilesInv, ProfilesTypeOK, extract_all, QueuesOK
<1>2. /\ UNCHANGED <<d_table, d_rows, d_map, d_obj, d_session, d_work, d_step, d_events, d_user, d_told, d_odd>>
      /\ d_batch' = d_queue /\ d_queue' = << >>
  BY DEF extract_all, cacheVars
<1>3. WorkOK' /\ LoadedAlone' /\ PageAlone'
  BY <1>1, <1>2, StillAlone
<1>4. StoreOK' /\ QueuesOK'
  BY <1>1, <1>2 DEF StoreOK, QueuesOK
<1>5. ASSUME NEW i \in Item, i \notin d_odd' PROVE Tracks(i)'
  <2>1. Tracks(i)
    BY <1>2, <1>5 DEF ProfilesInv
  <2>2. PagesSame(i)
    BY <1>2, NobodyMoves
  <2>3. (Ending(i)' <=> Ending(i)) /\ (Adding(i)' <=> Adding(i)) /\ (EndTold(i)' <=> EndTold(i))
    <3>1. EndTold(i)' <=> EndTold(i)
      BY <1>2 DEF EndTold, Ends, WorkerAt
    <3> QED
      BY <2>2, <3>1, PagesStill
  <2>4. ~ About(d_batch, i) /\ ~ About(d_queue', i)
    BY <1>1, <1>2, NothingSaid
  <2>5. Still(i)' /\ ~ About(d_batch', i) => Still(i)
    BY <1>2, <2>3 DEF Still
  <2>6. /\ LeftToCache' = d_batch' /\ LeftToTell' = d_batch'
        /\ LeftToCache = d_batch /\ LeftToTell = d_batch
        /\ CacheTarget' = CacheTarget /\ ChatTarget' = ChatTarget
    BY <1>1, <1>2 DEF LeftToCache, LeftToTell, CacheTarget, ChatTarget
  <2>7. ASSUME NEW o \in Object, Tracked(o)' PROVE CacheTracks(o, i)'
    <3>1. CacheTracks(o, i)
      BY <1>2, <2>1, <2>7, StillTracked DEF Tracks
    <3> QED
      BY <1>2, <2>4, <2>5, <2>6, <3>1 DEF CacheTracks
  <2>8. ChatTracks(i)'
    BY <1>2, <2>1, <2>4, <2>5, <2>6 DEF ChatTracks, Tracks
  <2>9. ToldTracks(i)'
    BY <1>2, <2>1, <2>3, <2>4 DEF ToldTracks, Tracks
  <2> QED
    BY <2>7, <2>8, <2>9 DEF Tracks
<1> QED
  BY <1>3, <1>4, <1>5 DEF ProfilesInv, ProfilesTypeOK

LEMMA SendEventKeeps ==
  ASSUME ProfilesInv, send_event
  PROVE  ProfilesInv'
<1> DEFINE h == Head(d_batch)
           t == Tail(d_batch)
<1>1. /\ WorkOK /\ StoreOK /\ QueuesOK /\ LoadedAlone /\ PageAlone
      /\ d_batch # << >> /\ d_step = "event"
      /\ d_batch \in Seq(Change) /\ d_events \in Seq(Change)
  BY DEF ProfilesInv, ProfilesTypeOK, send_event, QueuesOK
<1>2. /\ UNCHANGED <<d_table, d_rows, d_map, d_obj, d_session, d_work, d_queue, d_batch, d_user, d_told, d_odd>>
      /\ d_events' = Append(d_events, h) /\ d_step' = "cache"
  BY DEF send_event, Notified, cacheVars
<1>3. h \in Change /\ \A i : About(d_batch, i) <=> h.item = i \/ About(t, i)
  BY <1>1, TailSteps, TailSays
<1>4. /\ LeftToCache' = d_batch /\ LeftToCache = d_batch /\ CacheTarget' = CacheTarget
      /\ LeftToTell' = t /\ LeftToTell = d_batch
      /\ ChatTarget' = Apply(h, d_rows) /\ ChatTarget = d_rows
  BY <1>1, <1>2 DEF LeftToCache, LeftToTell, CacheTarget, ChatTarget
<1> HIDE DEF h, t
<1>5. WorkOK' /\ LoadedAlone' /\ PageAlone'
  BY <1>1, <1>2, StillAlone
<1>6. StoreOK' /\ QueuesOK'
  <2>1. d_events' \in Seq(Change)
    BY <1>1, <1>2, <1>3, AppendSays
  <2> QED
    BY <1>1, <1>2, <2>1 DEF StoreOK, QueuesOK
<1>7. ASSUME NEW i \in Item, i \notin d_odd' PROVE Tracks(i)'
  <2>1. Tracks(i)
    BY <1>2, <1>7 DEF ProfilesInv
  <2>2. (Ending(i)' <=> Ending(i)) /\ (Adding(i)' <=> Adding(i)) /\ (EndTold(i)' <=> EndTold(i))
    <3>1. EndTold(i)' <=> EndTold(i)
      BY <1>2 DEF EndTold, Ends, WorkerAt
    <3> QED
      BY <1>2, <3>1, NobodyMoves, PagesStill
  <2>3. Still(i)' <=> Still(i)
    BY <1>2, <2>2 DEF Still
  <2>4. ASSUME NEW o \in Object, Tracked(o)' PROVE CacheTracks(o, i)'
    <3>1. CacheTracks(o, i)
      BY <1>2, <2>1, <2>4, StillTracked DEF Tracks
    <3> QED
      BY <1>2, <1>4, <2>3, <3>1 DEF CacheTracks
  <2>5. ChatTracks(i)'
    <3>1. SUFFICES ASSUME Still(i), ~ About(t, i)
                   PROVE  IF About(d_events', i) THEN Says(d_events', i, Apply(h, d_rows))
                          ELSE d_user.loaded = TRUE => Same(i, d_user.has, Apply(h, d_rows))
      BY <1>2, <1>4, <2>3 DEF ChatTracks
    <3>2. i \in Apply(h, d_rows) <=> IF h.item = i THEN h.adds = TRUE ELSE i \in d_rows
      BY <1>3, ApplyDoes
    <3>3. /\ About(d_events', i) <=> About(d_events, i) \/ h.item = i
          /\ h.item = i /\ (h.adds = TRUE <=> i \in Apply(h, d_rows)) => Says(d_events', i, Apply(h, d_rows))
          /\ h.item # i /\ Says(d_events, i, Apply(h, d_rows)) => Says(d_events', i, Apply(h, d_rows))
      BY <1>1, <1>2, <1>3, AppendSays
    <3>4. CASE h.item = i
      BY <3>2, <3>3, <3>4
    <3>5. CASE h.item # i
      <4>1. IF About(d_events, i) THEN Says(d_events, i, d_rows)
            ELSE d_user.loaded = TRUE => Same(i, d_user.has, d_rows)
        BY <1>3, <1>4, <2>1, <3>1, <3>5 DEF Tracks, ChatTracks
      <4>2. Same(i, d_rows, Apply(h, d_rows))
        BY <3>2, <3>5 DEF Same
      <4>3. Says(d_events, i, d_rows) => Says(d_events, i, Apply(h, d_rows))
        BY <4>2, SaysSame
      <4> QED
        BY <3>3, <3>5, <4>1, <4>2, <4>3 DEF Same
    <3> QED
      BY <3>4, <3>5
  <2>6. ToldTracks(i)'
    BY <1>2, <2>1, <2>2 DEF ToldTracks, Tracks
  <2> QED
    BY <2>4, <2>5, <2>6 DEF Tracks
<1> QED
  BY <1>5, <1>6, <1>7 DEF ProfilesInv, ProfilesTypeOK

LEMMA UpdateCacheKeeps ==
  ASSUME ProfilesInv, update_cache
  PROVE  ProfilesInv'
<1> DEFINE h == Head(d_batch)
           t == Tail(d_batch)
<1>1. /\ WorkOK /\ StoreOK /\ QueuesOK /\ LoadedAlone /\ PageAlone
      /\ d_batch # << >> /\ d_step = "cache" /\ d_batch \in Seq(Change)
      /\ d_obj \in [Object -> SUBSET Item] /\ d_map \in Object \cup {NoObject}
  BY DEF ProfilesInv, ProfilesTypeOK, update_cache, QueuesOK, StoreOK
<1>2. /\ UNCHANGED <<d_table, d_rows, d_map, d_session, d_work, d_queue, d_batch, d_events, d_user, d_told>>
      /\ d_step' = "query"
      /\ d_obj' = IF d_map = NoObject THEN d_obj ELSE [d_obj EXCEPT ![d_map] = Apply(h, @)]
      /\ d_odd \subseteq d_odd'
      /\ h.item \notin d_odd' => WorkerAt(ChatThread, "idle") /\ \A w \in WebPage : ~ WorkerAt(w, "insert")
  BY DEF update_cache, Refreshed
<1>3. h \in Change /\ \A i : About(d_batch, i) <=> h.item = i \/ About(t, i)
  BY <1>1, TailSteps, TailSays
<1>4. /\ LeftToCache' = t /\ LeftToCache = d_batch
      /\ CacheTarget' = Apply(h, d_rows) /\ CacheTarget = d_rows
      /\ LeftToTell' = LeftToTell /\ ChatTarget' = ChatTarget
  BY <1>1, <1>2 DEF LeftToCache, LeftToTell, CacheTarget, ChatTarget
<1> HIDE DEF h, t
<1>5. WorkOK' /\ LoadedAlone' /\ PageAlone'
  BY <1>1, <1>2, StillAlone
<1>6. StoreOK' /\ QueuesOK'
  <2>1. d_obj' \in [Object -> SUBSET Item]
    <3>1. CASE d_map = NoObject
      BY <1>1, <1>2, <3>1
    <3>2. CASE d_map # NoObject
      <4>1. Apply(h, d_obj[d_map]) \in SUBSET Item
        BY <1>1, <1>3, <3>2, ApplyType
      <4> QED
        BY <1>1, <1>2, <3>2, <4>1
    <3> QED
      BY <3>1, <3>2
  <2> QED
    BY <1>1, <1>2, <2>1 DEF StoreOK, QueuesOK
<1>7. ASSUME NEW i \in Item, i \notin d_odd' PROVE Tracks(i)'
  <2>1. Tracks(i)
    BY <1>2, <1>7 DEF ProfilesInv
  <2>2. (Ending(i)' <=> Ending(i)) /\ (Adding(i)' <=> Adding(i)) /\ (EndTold(i)' <=> EndTold(i))
    <3>1. EndTold(i)' <=> EndTold(i)
      BY <1>2 DEF EndTold, Ends, WorkerAt
    <3> QED
      BY <1>2, <3>1, NobodyMoves, PagesStill
  <2>3. Still(i)' <=> Still(i)
    BY <1>2, <2>2 DEF Still
  <2>4. i \in Apply(h, d_rows) <=> IF h.item = i THEN h.adds = TRUE ELSE i \in d_rows
    BY <1>3, ApplyDoes
  <2>5. ASSUME NEW o \in Object, Tracked(o)' PROVE CacheTracks(o, i)'
    <3>1. Tracked(o) /\ CacheTracks(o, i)
      BY <1>2, <2>1, <2>5, StillTracked DEF Tracks
    <3>2. CASE h.item = i
      <4>1. o = d_map
        <5>1. WorkerAt(ChatThread, "idle") /\ \A w \in WebPage : ~ WorkerAt(w, "insert")
          BY <1>2, <1>7, <3>2
        <5> QED
          BY <3>1, <5>1 DEF Tracked, WorkerAt, Worker
      <4>2. d_obj'[o] = Apply(h, d_obj[o])
        <5>1. d_map # NoObject
          BY <4>1 DEF Object, NoObject
        <5> QED
          BY <1>1, <1>2, <4>1, <5>1
      <4>3. i \in Apply(h, d_obj[o]) <=> h.adds = TRUE
        BY <1>3, <3>2, ApplyDoes
      <4>4. Same(i, d_obj'[o], CacheTarget')
        BY <1>4, <2>4, <3>2, <4>2, <4>3 DEF Same
      <4> QED
        BY <4>4 DEF CacheTracks
    <3>3. CASE h.item # i
      <4>1. Same(i, d_obj[o], d_obj'[o])
        <5>1. CASE d_map = NoObject \/ o # d_map
          BY <1>1, <1>2, <5>1 DEF Same
        <5>2. CASE d_map # NoObject /\ o = d_map
          <6>1. d_obj'[o] = Apply(h, d_obj[o])
            BY <1>1, <1>2, <5>2
          <6> QED
            BY <1>3, <3>3, <6>1, ApplyDoes DEF Same
        <5> QED
          BY <5>1, <5>2
      <4>2. Same(i, CacheTarget, CacheTarget')
        BY <1>4, <2>4, <3>3 DEF Same
      <4> QED
        BY <1>3, <1>4, <2>3, <3>1, <3>3, <4>1, <4>2 DEF CacheTracks, Same
    <3> QED
      BY <3>2, <3>3
  <2>6. ChatTracks(i)'
    BY <1>2, <1>4, <2>1, <2>3 DEF ChatTracks, Tracks
  <2>7. ToldTracks(i)'
    BY <1>2, <2>1, <2>2 DEF ToldTracks, Tracks
  <2> QED
    BY <2>5, <2>6, <2>7 DEF Tracks
<1> QED
  BY <1>5, <1>6, <1>7 DEF ProfilesInv, ProfilesTypeOK

LEMMA UpdateRowKeeps ==
  ASSUME ProfilesInv, update_row
  PROVE  ProfilesInv'
<1> DEFINE h == Head(d_batch)
           t == Tail(d_batch)
<1>1. /\ WorkOK /\ StoreOK /\ QueuesOK /\ LoadedAlone /\ PageAlone
      /\ d_batch # << >> /\ d_step = "query" /\ d_batch \in Seq(Change) /\ d_rows \in SUBSET Item
  BY DEF ProfilesInv, ProfilesTypeOK, update_row, QueuesOK, StoreOK
<1>2. /\ UNCHANGED <<d_table, d_map, d_obj, d_session, d_work, d_queue, d_events, d_user, d_told, d_odd>>
      /\ d_step' = "event" /\ d_rows' = Apply(h, d_rows) /\ d_batch' = t
  BY DEF update_row, cacheVars
<1>3. h \in Change /\ t \in Seq(Change)
  BY <1>1, TailSteps
<1>4. \A i, S : /\ About(d_batch, i) <=> h.item = i \/ About(t, i)
                /\ Says(d_batch, i, S) /\ About(t, i) => Says(t, i, S)
                /\ Says(d_batch, i, S) /\ ~ About(t, i) => h.item = i /\ (h.adds = TRUE <=> i \in S)
  BY <1>1, TailSays
<1>5. /\ LeftToCache' = t /\ LeftToCache = t /\ CacheTarget' = d_rows' /\ CacheTarget = d_rows'
      /\ LeftToTell' = t /\ LeftToTell = t /\ ChatTarget' = d_rows' /\ ChatTarget = d_rows'
  BY <1>1, <1>2 DEF LeftToCache, LeftToTell, CacheTarget, ChatTarget
<1> HIDE DEF h, t
<1>6. WorkOK' /\ LoadedAlone' /\ PageAlone'
  BY <1>1, <1>2, StillAlone
<1>7. StoreOK' /\ QueuesOK'
  BY <1>1, <1>2, <1>3, ApplyType DEF StoreOK, QueuesOK
<1>8. ASSUME NEW i \in Item, i \notin d_odd' PROVE Tracks(i)'
  <2>1. Tracks(i)
    BY <1>2, <1>8 DEF ProfilesInv
  <2>2. (Ending(i)' <=> Ending(i)) /\ (Adding(i)' <=> Adding(i)) /\ (EndTold(i)' <=> EndTold(i))
    <3>1. EndTold(i)' <=> EndTold(i)
      BY <1>2 DEF EndTold, Ends, WorkerAt
    <3> QED
      BY <1>2, <3>1, NobodyMoves, PagesStill
  <2>3. Still(i)' <=> Still(i)
    BY <1>2, <2>2 DEF Still
  <2>4. ASSUME NEW o \in Object, Tracked(o)' PROVE CacheTracks(o, i)'
    <3>1. CacheTracks(o, i)
      BY <1>2, <2>1, <2>4, StillTracked DEF Tracks
    <3> QED
      BY <1>2, <1>5, <2>3, <3>1 DEF CacheTracks
  <2>5. ChatTracks(i)'
    BY <1>2, <1>5, <2>1, <2>3 DEF ChatTracks, Tracks
  <2>6. ToldTracks(i)'
    <3>1. i \in d_rows' <=> IF h.item = i THEN h.adds = TRUE ELSE i \in d_rows
      BY <1>2, <1>3, ApplyDoes
    <3>2. ASSUME ~ Adding(i), ~ Ending(i), ~ About(d_queue, i)
          PROVE  IF About(t, i) THEN Says(t, i, d_told) ELSE Same(i, d_told, d_rows')
      <4>1. IF About(d_batch, i) THEN Says(d_batch, i, d_told) ELSE Same(i, d_told, d_rows)
        BY <2>1, <3>2 DEF Tracks, ToldTracks
      <4>2. CASE About(t, i)
        BY <1>4, <4>1, <4>2
      <4>3. CASE ~ About(t, i)
        BY <1>4, <3>1, <4>1, <4>3 DEF Same
      <4> QED
        BY <4>2, <4>3
    <3> QED
      BY <1>2, <2>1, <2>2, <3>2 DEF ToldTracks, Tracks
  <2> QED
    BY <2>4, <2>5, <2>6 DEF Tracks
<1> QED
  BY <1>6, <1>7, <1>8 DEF ProfilesInv, ProfilesTypeOK

LEMMA UpdateFailsKeeps ==
  ASSUME ProfilesInv, update_fails
  PROVE  ProfilesInv'
<1> DEFINE h == Head(d_batch)
           t == Tail(d_batch)
<1>1. /\ WorkOK /\ StoreOK /\ QueuesOK /\ LoadedAlone /\ PageAlone
      /\ d_batch # << >> /\ d_step = "query" /\ d_batch \in Seq(Change)
  BY DEF ProfilesInv, ProfilesTypeOK, update_fails, QueuesOK
<1>2. /\ UNCHANGED <<d_table, d_rows, d_map, d_obj, d_session, d_work, d_queue, d_events, d_user, d_told>>
      /\ d_step' = "event" /\ d_batch' = << >> /\ d_odd' = d_odd \cup Unsaved(d_batch)
  BY DEF update_fails, cacheVars
<1>3. h \in Change
  BY <1>1, TailSteps
<1>4. \A i : About(d_batch, i) <=> h.item = i \/ About(t, i)
  BY <1>1, TailSays
<1>5. /\ LeftToCache' = << >> /\ LeftToCache = t /\ CacheTarget' = d_rows /\ CacheTarget = Apply(h, d_rows)
      /\ LeftToTell' = << >> /\ LeftToTell = t /\ ChatTarget' = d_rows /\ ChatTarget = Apply(h, d_rows)
  BY <1>1, <1>2 DEF LeftToCache, LeftToTell, CacheTarget, ChatTarget
<1> HIDE DEF h, t
<1>6. WorkOK' /\ LoadedAlone' /\ PageAlone'
  BY <1>1, <1>2, StillAlone
<1>7. StoreOK' /\ QueuesOK'
  BY <1>1, <1>2 DEF StoreOK, QueuesOK
<1>8. ASSUME NEW i \in Item, i \notin d_odd' PROVE Tracks(i)'
  <2>1. Tracks(i) /\ ~ About(d_batch, i)
    BY <1>2, <1>8 DEF ProfilesInv, About, Unsaved
  <2>2. ~ About(t, i) /\ h.item # i
    BY <1>4, <2>1
  <2>3. Same(i, d_rows, Apply(h, d_rows))
    BY <1>3, <2>2, ApplyDoes DEF Same
  <2>4. (Ending(i)' <=> Ending(i)) /\ (Adding(i)' <=> Adding(i)) /\ (EndTold(i)' <=> EndTold(i))
    <3>1. EndTold(i)' <=> EndTold(i)
      BY <1>2 DEF EndTold, Ends, WorkerAt
    <3> QED
      BY <1>2, <3>1, NobodyMoves, PagesStill
  <2>5. Still(i)' <=> Still(i)
    BY <1>2, <2>4 DEF Still
  <2>6. ASSUME NEW o \in Object, Tracked(o)' PROVE CacheTracks(o, i)'
    <3>1. CacheTracks(o, i)
      BY <1>2, <2>1, <2>6, StillTracked DEF Tracks
    <3> QED
      BY <1>2, <1>5, <2>2, <2>3, <2>5, <3>1 DEF CacheTracks, Same
  <2>7. ChatTracks(i)'
    <3>1. Says(d_events, i, Apply(h, d_rows)) => Says(d_events, i, d_rows)
      <4>1. Same(i, Apply(h, d_rows), d_rows)
        BY <2>3 DEF Same
      <4> QED
        BY <4>1, SaysSame
    <3> QED
      BY <1>2, <1>5, <2>1, <2>2, <2>3, <2>5, <3>1 DEF ChatTracks, Tracks, Same
  <2>8. ToldTracks(i)'
    BY <1>2, <2>1, <2>4, NothingSaid DEF ToldTracks, Tracks
  <2> QED
    BY <2>6, <2>7, <2>8 DEF Tracks
<1> QED
  BY <1>6, <1>7, <1>8 DEF ProfilesInv, ProfilesTypeOK
-----------------------------------------------------------------------------
(* The invariant, and what follows from it.                                *)

LEMMA ProfilesInitInv == ProfilesInit => ProfilesInv
<1> SUFFICES ASSUME ProfilesInit PROVE ProfilesInv
  OBVIOUS
<1>1. /\ d_rows = Stored /\ d_told = Stored /\ Stored \in SUBSET Item
      /\ d_obj = [o \in Object |-> IF o = 1 THEN Stored ELSE {}]
      /\ d_map = (IF d_table = "settings" THEN 1 ELSE NoObject) /\ d_session = d_map
      /\ d_work = [w \in Worker |-> AtEase]
      /\ d_queue = << >> /\ d_batch = << >> /\ d_events = << >> /\ d_step = "event"
      /\ d_user = [loaded |-> FALSE, has |-> {}]
  BY ProfilesAssumption DEF ProfilesInit
<1>2. 1 \in Object /\ NoObject \notin Object
  BY ProfilesAssumption DEF Object, NoObject
<1>3. \A w \in Worker : d_work[w] = AtEase /\ d_work[w].at = "idle"
  BY <1>1, AtEaseOK
<1>4. WorkOK
  <2>1. d_work \in [Worker -> Doing]
    BY <1>1, AtEaseOK
  <2>2. \A w \in Worker : DoingOK(d_work[w], w)
    BY <1>3, AtEaseOK
  <2> QED
    BY <1>3, <2>1, <2>2 DEF WorkOK, WorkerAt, Worker
<1>5. StoreOK /\ QueuesOK
  <2>1. d_obj \in [Object -> SUBSET Item]
    BY <1>1
  <2>2. d_user \in [loaded : BOOLEAN, has : SUBSET Item]
    BY <1>1
  <2>3. d_map \in Object \cup {NoObject} /\ d_session = (IF d_table = "settings" THEN 1 ELSE NoObject)
    BY <1>1, <1>2
  <2>4. d_queue \in Seq(Change) /\ d_batch \in Seq(Change) /\ d_events \in Seq(Change)
    BY <1>1
  <2> QED
    BY <1>1, <2>1, <2>2, <2>3, <2>4 DEF StoreOK, QueuesOK
<1>6. LoadedAlone /\ PageAlone
  BY <1>3 DEF LoadedAlone, PageAlone, WorkerAt, Worker
<1>7. ASSUME NEW i \in Item PROVE Tracks(i)
  <2>1. ~ Ending(i) /\ ~ Adding(i)
    BY <1>3 DEF Ending, Adding, Ends, Adds, WorkerAt, Worker
  <2>2. ~ About(d_queue, i) /\ ~ About(d_batch, i) /\ ~ About(d_events, i)
    BY <1>1, NothingSaid
  <2>3. ASSUME NEW o \in Object, Tracked(o) PROVE CacheTracks(o, i)
    <3>1. o = 1 /\ d_obj[o] = d_rows
      <4>1. o = d_map
        BY <1>3, <2>3 DEF Tracked, WorkerAt, Worker
      <4> QED
        BY <1>1, <1>2, <4>1
    <3> QED
      BY <1>1, <3>1 DEF CacheTracks, CacheTarget, Same
  <2>4. ChatTracks(i)
    BY <1>1, <2>2 DEF ChatTracks
  <2>5. ToldTracks(i)
    BY <1>1, <2>1, <2>2 DEF ToldTracks, Same
  <2> QED
    BY <2>3, <2>4, <2>5 DEF Tracks
<1> QED
  BY <1>4, <1>5, <1>6, <1>7 DEF ProfilesInv, ProfilesTypeOK

LEMMA ProfilesStep == ProfilesInv /\ [ProfilesNext]_profilesVars => ProfilesInv'
<1> SUFFICES ASSUME ProfilesInv, [ProfilesNext]_profilesVars PROVE ProfilesInv'
  OBVIOUS
<1>1. ASSUME NEW w \in Worker, WorkerSteps(w) PROVE ProfilesInv'
  <2>1. CASE find(w)
    BY <2>1, FindKeeps
  <2>2. CASE load_from_db(w)
    BY <2>2, LoadKeeps
  <2>3. CASE insert(w)
    BY <2>3, InsertKeeps
  <2>4. CASE look(w)
    BY <2>4, LookKeeps
  <2>5. CASE insert_row(w)
    BY <2>5, InsertRowKeeps
  <2>6. CASE write(w)
    BY <2>6, WriteKeeps
  <2>7. CASE end(w)
    BY <2>7, EndKeeps
  <2> QED
    BY <1>1, <2>1, <2>2, <2>3, <2>4, <2>5, <2>6, <2>7 DEF WorkerSteps
<1>2. ASSUME NEW w \in WebPage, Requests(w) PROVE ProfilesInv'
  <2> PICK i \in Item :
        url_ignore_user(w, i) \/ url_remove_nick(w, i) \/ url_New_nick(w, i) \/ url_change_mode(w, i)
    BY <1>2 DEF Requests
  <2>1. CASE url_ignore_user(w, i)
    BY <2>1, StartKeeps DEF url_ignore_user
  <2>2. CASE url_remove_nick(w, i)
    BY <2>2, StartKeeps DEF url_remove_nick
  <2>3. CASE url_New_nick(w, i)
    BY <2>3, StartKeeps DEF url_New_nick
  <2>4. CASE url_change_mode(w, i)
    BY <2>4, ChangeModeKeeps
  <2> QED
    BY <2>1, <2>2, <2>3, <2>4
<1>3. ASSUME NEW flushes \in BOOLEAN, drop(flushes) PROVE ProfilesInv'
  BY <1>3, DropKeeps
<1>4. ASSUME ChatSteps PROVE ProfilesInv'
  <2>1. CASE preload_user
    BY <2>1, PreloadKeeps
  <2>2. CASE preloaded
    BY <2>2, PreloadedKeeps
  <2>3. CASE unload_user
    BY <2>3, UnloadKeeps
  <2>4. CASE on_UPDATE_DATA
    BY <2>4, UpdateDataKeeps
  <2>5. CASE \E i \in Item : send_message_priv(i)
    BY <2>5, SendKeeps
  <2> QED
    BY <1>4, <2>1, <2>2, <2>3, <2>4, <2>5 DEF ChatSteps
<1>5. ASSUME Updater PROVE ProfilesInv'
  <2>1. CASE extract_all
    BY <2>1, ExtractKeeps
  <2>2. CASE send_event
    BY <2>2, SendEventKeeps
  <2>3. CASE update_cache
    BY <2>3, UpdateCacheKeeps
  <2>4. CASE update_row
    BY <2>4, UpdateRowKeeps
  <2>5. CASE update_fails
    BY <2>5, UpdateFailsKeeps
  <2> QED
    BY <1>5, <2>1, <2>2, <2>3, <2>4, <2>5 DEF Updater
<1>6. CASE UNCHANGED profilesVars
  <2>1. UNCHANGED <<d_table, d_rows, d_map, d_obj, d_session, d_work, d_queue, d_batch, d_step,
                    d_events, d_user, d_told, d_odd>>
    BY <1>6 DEF profilesVars, cacheVars
  <2>2. WorkOK' /\ LoadedAlone' /\ PageAlone' /\ StoreOK' /\ QueuesOK'
    BY <2>1, StillAlone DEF ProfilesInv, ProfilesTypeOK, StoreOK, QueuesOK
  <2>3. ASSUME NEW i \in Item, i \notin d_odd' PROVE Tracks(i)'
    <3>1. Tracks(i) /\ QueuesOK
      BY <2>1, <2>3 DEF ProfilesInv, ProfilesTypeOK
    <3>2. PagesSame(i)
      BY <2>1, NobodyMoves
    <3>3. ASSUME NEW o \in Object, Tracked(o)' PROVE Tracked(o) /\ Same(i, d_obj[o], d_obj'[o])
      BY <2>1, <3>3, StillTracked DEF Same
    <3> QED
      BY <2>1, <3>1, <3>2, <3>3, QuietTracks
  <2> QED
    BY <2>2, <2>3 DEF ProfilesInv, ProfilesTypeOK
<1> QED
  BY <1>1, <1>2, <1>3, <1>4, <1>5, <1>6 DEF ProfilesNext

\* Whatever pages, the chat thread and update_processor do at once, each item
\* that was not changed by two at a time, read while it was being changed, or
\* lost with a failing query is followed: what is still queued about it makes up
\* the difference between the table, the cached object, the chat thread's copy
\* and what the user was told.
THEOREM ProfilesInvariant == ProfilesSpec => []ProfilesInv
<1>1. ProfilesInit => ProfilesInv
  BY ProfilesInitInv
<1>2. ProfilesInv /\ [ProfilesNext]_profilesVars => ProfilesInv'
  BY ProfilesStep
<1> QED
  BY <1>1, <1>2, PTL DEF ProfilesSpec

LEMMA SettledFollows == ProfilesInv => ProfileFollows
<1> SUFFICES ASSUME ProfilesInv, Settled PROVE ProfileFollows
  BY DEF ProfileFollows, CacheFollows, ChatFollows, ToldIsStored
<1>1. /\ d_queue = << >> /\ d_batch = << >> /\ d_events = << >> /\ d_step = "event"
      /\ \A w \in Worker : d_work[w].at = "idle"
      /\ d_rows \in SUBSET Item /\ d_told \in SUBSET Item /\ d_user.has \in SUBSET Item
      /\ d_map \in Object \cup {NoObject} /\ d_obj \in [Object -> SUBSET Item]
  BY DEF ProfilesInv, ProfilesTypeOK, QueuesOK, StoreOK, Settled, WorkerAt
<1>2. ASSUME NEW i \in Item, i \notin d_odd
      PROVE  /\ d_map # NoObject => Same(i, d_obj[d_map], d_rows)
             /\ d_user.loaded = TRUE => Same(i, d_user.has, d_rows)
             /\ Same(i, d_told, d_rows)
  <2>1. Tracks(i)
    BY <1>2 DEF ProfilesInv
  <2>2. ~ Ending(i) /\ ~ Adding(i)
    BY <1>1 DEF Ending, Adding, Ends, Adds, WorkerAt, Worker
  <2>3. ~ About(d_queue, i) /\ ~ About(d_batch, i) /\ ~ About(d_events, i)
    BY <1>1, NothingSaid
  <2>4. /\ Still(i) /\ LeftToCache = d_batch /\ LeftToTell = d_batch
        /\ CacheTarget = d_rows /\ ChatTarget = d_rows
    BY <1>1, <2>2, <2>3 DEF Still, LeftToCache, LeftToTell, CacheTarget, ChatTarget
  <2>5. d_map # NoObject => Same(i, d_obj[d_map], d_rows)
    <3>1. d_map # NoObject => d_map \in Object /\ Tracked(d_map)
      BY <1>1 DEF Tracked
    <3> QED
      BY <2>1, <2>3, <2>4, <3>1 DEF Tracks, CacheTracks
  <2>6. d_user.loaded = TRUE => Same(i, d_user.has, d_rows)
    BY <2>1, <2>3, <2>4 DEF Tracks, ChatTracks
  <2>7. Same(i, d_told, d_rows)
    BY <2>1, <2>2, <2>3 DEF Tracks, ToldTracks
  <2> QED
    BY <2>5, <2>6, <2>7
<1>3. CacheFollows
  BY <1>1, <1>2 DEF CacheFollows, Differ, Same
<1>4. ChatFollows
  BY <1>1, <1>2 DEF ChatFollows, Differ, Same
<1>5. ToldIsStored
  BY <1>1, <1>2 DEF ToldIsStored, Differ, Same
<1> QED
  BY <1>3, <1>4, <1>5 DEF ProfileFollows

\* When all is done, the cached object, the chat thread's copy and what the user
\* was told agree with the table, but for what overlapped or was lost.
THEOREM ProfileIsFollowed == ProfilesSpec => []ProfileFollows
<1>1. ProfilesInv => ProfileFollows
  BY SettledFollows
<1> QED
  BY <1>1, ProfilesInvariant, PTL
-----------------------------------------------------------------------------
(* Numbers and sums.                                                       *)

\* A set of natural numbers has a least one.
Below == {ss \in Nat \X Nat : ss[1] < ss[2]}

LEMMA BelowIsWellFounded == IsWellFoundedOn(Below, Nat)
  BY NatLessThanWellFounded DEF OpToRel, Below

LEMMA HasLeast == ASSUME NEW T, T \subseteq Nat, T # {} PROVE \E x \in T : \A y \in T : x <= y
<1>1. PICK x \in T : \A y \in T : ~ (<<y, x>> \in Below)
  BY BelowIsWellFounded, WFMin
<1>2. ASSUME NEW y \in T PROVE x <= y
  <2>1. y \in Nat /\ x \in Nat
    OBVIOUS
  <2>2. ~ (<<y, x>> \in Below)
    BY <1>1
  <2>3. ~ (y < x)
    BY <2>1, <2>2 DEF Below
  <2> QED
    BY <2>1, <2>3
<1> QED
  BY <1>2

\* A function that starts no higher and never climbs faster stays below.
LEMMA ClimbsSlower ==
  ASSUME NEW n \in Nat, NEW f \in [0..n -> Int], NEW g \in [0..n -> Int], f[0] <= g[0],
         \A i \in 1..n : f[i] - f[i - 1] <= g[i] - g[i - 1]
  PROVE  \A i \in 0..n : f[i] <= g[i]
<1> DEFINE T == {i \in 0..n : ~ (f[i] <= g[i])}
<1>1. SUFFICES ASSUME T # {} PROVE FALSE
  OBVIOUS
<1>2. T \subseteq Nat
  OBVIOUS
<1>3. PICK k \in T : \A y \in T : k <= y
  <2> HIDE DEF T
  <2> QED
    BY <1>1, <1>2, HasLeast
<1>4. k \in 1..n /\ k - 1 \in 0..n /\ k - 1 \notin T /\ k \in 0..n
  BY <1>3
<1>5. f[k - 1] <= g[k - 1] /\ f[k] - f[k - 1] <= g[k] - g[k - 1]
  BY <1>4
<1>6. f[k] \in Int /\ g[k] \in Int /\ f[k - 1] \in Int /\ g[k - 1] \in Int
  BY <1>4
<1> QED
  BY <1>3, <1>5, <1>6

\* Functions that start and climb alike are the same.
LEMMA ClimbsAlike ==
  ASSUME NEW n \in Nat, NEW f \in [0..n -> Int], NEW g \in [0..n -> Int], f[0] = g[0],
         \A i \in 1..n : f[i] - f[i - 1] = g[i] - g[i - 1]
  PROVE  \A i \in 0..n : f[i] = g[i]
<1>1. f[0] <= g[0] /\ g[0] <= f[0]
  OBVIOUS
<1>2. \A i \in 1..n : f[i] - f[i - 1] <= g[i] - g[i - 1] /\ g[i] - g[i - 1] <= f[i] - f[i - 1]
  <2> SUFFICES ASSUME NEW i \in 1..n PROVE f[i] - f[i - 1] <= g[i] - g[i - 1] /\ g[i] - g[i - 1] <= f[i] - f[i - 1]
    OBVIOUS
  <2>1. f[i] - f[i - 1] \in Int /\ g[i] - g[i - 1] \in Int /\ f[i] - f[i - 1] = g[i] - g[i - 1]
    OBVIOUS
  <2> QED
    BY <2>1
<1>3. \A i \in 0..n : f[i] <= g[i]
  BY <1>1, <1>2, ClimbsSlower
<1>4. \A i \in 0..n : g[i] <= f[i]
  BY <1>1, <1>2, ClimbsSlower
<1> QED
  BY <1>3, <1>4

\* The sums of v over the beginnings of s.
IsSum(f, s, v) == f = [n \in 0..Len(s) |-> IF n = 0 THEN 0 ELSE f[n - 1] + v[s[n]]]

LEMMA SumsExist ==
  ASSUME NEW T, NEW s \in Seq(T), NEW v \in [T -> Int]
  PROVE  \E f \in [0..Len(s) -> Int] : IsSum(f, s, v)
<1> DEFINE Upto(k, f) == f = [n \in 0..k |-> IF n = 0 THEN 0 ELSE f[n - 1] + v[s[n]]]
           Bad == {k \in 0..Len(s) : ~ \E f \in [0..k -> Int] : Upto(k, f)}
<1>1. Len(s) \in Nat
  OBVIOUS
<1>2. SUFFICES ASSUME Bad # {} PROVE FALSE
  BY <1>1 DEF IsSum
<1>3. PICK k \in Bad : \A y \in Bad : k <= y
  <2>1. Bad \subseteq Nat
    OBVIOUS
  <2> HIDE DEF Bad
  <2> QED
    BY <1>2, <2>1, HasLeast
<1>4. k # 0
  <2>1. Upto(0, [n \in 0..0 |-> 0])
    OBVIOUS
  <2>2. [n \in 0..0 |-> 0] \in [0..0 -> Int]
    OBVIOUS
  <2> HIDE DEF Upto
  <2> QED
    BY <1>3, <2>1, <2>2
<1>5. k \in 1..Len(s) /\ k - 1 \in 0..Len(s) /\ k - 1 \notin Bad
  <2>1. k \in 0..Len(s)
    OBVIOUS
  <2> HIDE DEF Bad
  <2> QED
    BY <1>1, <1>3, <1>4, <2>1
<1>6. PICK f \in [0..(k - 1) -> Int] : Upto(k - 1, f)
  BY <1>5
<1> DEFINE g == [n \in 0..k |-> IF n = k THEN f[k - 1] + v[s[k]] ELSE f[n]]
<1>7. v[s[k]] \in Int /\ f[k - 1] \in Int /\ f[k - 1] + v[s[k]] \in Int
  BY <1>1, <1>5
<1>8. g \in [0..k -> Int]
  <2> SUFFICES ASSUME NEW n \in 0..k PROVE (IF n = k THEN f[k - 1] + v[s[k]] ELSE f[n]) \in Int
    OBVIOUS
  <2> QED
    BY <1>5, <1>7
<1>9. Upto(k, g)
  <2> SUFFICES ASSUME NEW n \in 0..k PROVE g[n] = IF n = 0 THEN 0 ELSE g[n - 1] + v[s[n]]
    BY <1>5
  <2>1. CASE n = k
    <3>1. g[k] = f[k - 1] + v[s[k]] /\ g[k - 1] = f[k - 1] /\ k # 0
      BY <1>5
    <3> QED
      BY <2>1, <3>1
  <2>2. CASE n # k
    <3>1. n \in 0..(k - 1) /\ g[n] = f[n]
      BY <1>5, <2>2
    <3>2. f[n] = IF n = 0 THEN 0 ELSE f[n - 1] + v[s[n]]
      BY <1>6, <3>1
    <3>3. n # 0 => n - 1 \in 0..k /\ n - 1 # k /\ g[n - 1] = f[n - 1]
      BY <1>5, <3>1
    <3> QED
      BY <3>1, <3>2, <3>3
  <2> QED
    BY <2>1, <2>2
<1> QED
  <2> HIDE DEF g, Upto
  <2> QED
    BY <1>3, <1>8, <1>9

\* The sums of the beginnings, in one function.
Upto(s, v) == CHOOSE f : IsSum(f, s, v)

LEMMA SumsUpto ==
  ASSUME NEW T, NEW s \in Seq(T), NEW v \in [T -> Int]
  PROVE  /\ Upto(s, v) \in [0..Len(s) -> Int]
         /\ Upto(s, v)[0] = 0
         /\ \A i \in 1..Len(s) : Upto(s, v)[i] = Upto(s, v)[i - 1] + v[s[i]]
         /\ SumAlong(s, v) = Upto(s, v)[Len(s)]
         /\ SumAlong(s, v) \in Int
<1>1. PICK f \in [0..Len(s) -> Int] : IsSum(f, s, v)
  BY SumsExist
<1> DEFINE g == Upto(s, v)
<1>2. g = [n \in 0..Len(s) |-> IF n = 0 THEN 0 ELSE g[n - 1] + v[s[n]]]
  BY <1>1 DEF Upto, IsSum
<1>3. Len(s) \in Nat /\ DOMAIN g = 0..Len(s)
  BY <1>2
<1>4. g[0] = 0 /\ \A i \in 1..Len(s) : g[i] = g[i - 1] + v[s[i]]
  <2> HIDE DEF g
  <2> QED
    BY <1>2, <1>3
<1>5. SumAlong(s, v) = g[Len(s)]
  BY DEF SumAlong, Upto, IsSum
<1>6. \A n \in 0..Len(s) : g[n] \in Int
  <2> DEFINE Bad == {k \in 0..Len(s) : g[k] \notin Int}
  <2>1. SUFFICES ASSUME Bad # {} PROVE FALSE
    OBVIOUS
  <2>2. Bad \subseteq Nat
    OBVIOUS
  <2>3. PICK k \in Bad : \A y \in Bad : k <= y
    <3> HIDE DEF Bad
    <3> QED
      BY <2>1, <2>2, HasLeast
  <2>4. k \in 0..Len(s) /\ g[k] \notin Int
    OBVIOUS
  <2>5. k # 0
    BY <1>4, <2>4
  <2>6. k \in 1..Len(s) /\ k - 1 \in 0..Len(s) /\ k - 1 \notin Bad
    <3> HIDE DEF Bad
    <3> QED
      BY <1>3, <2>3, <2>4, <2>5
  <2>7. g[k - 1] \in Int /\ v[s[k]] \in Int
    <3>1. s[k] \in T
      BY <2>6
    <3> QED
      BY <2>6, <3>1
  <2> HIDE DEF g
  <2> QED
    BY <1>4, <2>4, <2>6, <2>7
<1> HIDE DEF g
<1>7. g \in [0..Len(s) -> Int] /\ g[Len(s)] \in Int
  <2>1. ASSUME NEW k, k = [n \in 0..Len(s) |-> IF n = 0 THEN 0 ELSE g[n - 1] + v[s[n]]]
        PROVE  k = [n \in 0..Len(s) |-> k[n]]
    BY <2>1
  <2>2. g = [n \in 0..Len(s) |-> g[n]]
    BY <1>2, <2>1
  <2>3. [n \in 0..Len(s) |-> g[n]] \in [0..Len(s) -> Int]
    BY <1>6
  <2> QED
    BY <1>3, <1>6, <2>2, <2>3
<1> QED
  BY <1>4, <1>5, <1>7 DEF g

\* The sum of v over s is at most that of w over t, when they are as long and each
\* place brings at most as much.
LEMMA SumsCompare ==
  ASSUME NEW T, NEW s \in Seq(T), NEW v \in [T -> Int],
         NEW U, NEW t \in Seq(U), NEW w \in [U -> Int],
         Len(s) = Len(t), \A i \in 1..Len(s) : v[s[i]] <= w[t[i]]
  PROVE  SumAlong(s, v) <= SumAlong(t, w)
<1> DEFINE f == Upto(s, v)
           g == Upto(t, w)
           n == Len(s)
<1>1. /\ f \in [0..n -> Int] /\ f[0] = 0 /\ \A i \in 1..n : f[i] = f[i - 1] + v[s[i]]
      /\ SumAlong(s, v) = f[n]
  BY SumsUpto
<1>2. /\ g \in [0..n -> Int] /\ g[0] = 0 /\ \A i \in 1..n : g[i] = g[i - 1] + w[t[i]]
      /\ SumAlong(t, w) = g[n]
  BY SumsUpto
<1>3. n \in Nat /\ \A i \in 1..n : v[s[i]] \in Int /\ w[t[i]] \in Int
  OBVIOUS
<1> HIDE DEF f, g, n
<1>4. ASSUME NEW i \in 1..n PROVE f[i] - f[i - 1] <= g[i] - g[i - 1]
  <2>1. v[s[i]] <= w[t[i]]
    BY DEF n
  <2>2. f[i - 1] \in Int /\ g[i - 1] \in Int /\ i - 1 \in 0..n
    BY <1>1, <1>2, <1>3
  <2>3. f[i] = f[i - 1] + v[s[i]] /\ g[i] = g[i - 1] + w[t[i]] /\ v[s[i]] \in Int /\ w[t[i]] \in Int
    BY <1>1, <1>2, <1>3
  <2> QED
    BY <2>1, <2>2, <2>3
<1>5. f[0] <= g[0]
  BY <1>1, <1>2
<1>6. \A i \in 0..n : f[i] <= g[i]
  BY <1>1, <1>2, <1>3, <1>4, <1>5, ClimbsSlower
<1> QED
  BY <1>1, <1>2, <1>3, <1>6

\* Sums of what is put together.
LEMMA SumsJoin ==
  ASSUME NEW T, NEW s \in Seq(T), NEW t \in Seq(T), NEW v \in [T -> Int]
  PROVE  SumAlong(s \o t, v) = SumAlong(s, v) + SumAlong(t, v)
<1> DEFINE st == s \o t
           f == Upto(s, v)
           g == Upto(t, v)
           h == Upto(st, v)
           m == Len(s)
           n == Len(t)
<1>1. m \in Nat /\ n \in Nat /\ st \in Seq(T) /\ Len(st) = m + n
  OBVIOUS
<1>2. /\ f \in [0..m -> Int] /\ f[0] = 0 /\ \A i \in 1..m : f[i] = f[i - 1] + v[s[i]]
      /\ SumAlong(s, v) = f[m]
  BY SumsUpto
<1>3. /\ g \in [0..n -> Int] /\ g[0] = 0 /\ \A i \in 1..n : g[i] = g[i - 1] + v[t[i]]
      /\ SumAlong(t, v) = g[n]
  BY SumsUpto
<1>4. /\ h \in [0..(m + n) -> Int] /\ h[0] = 0 /\ \A i \in 1..(m + n) : h[i] = h[i - 1] + v[st[i]]
      /\ SumAlong(st, v) = h[m + n]
  <2> HIDE DEF st
  <2> QED
    BY <1>1, SumsUpto
<1>5. \A i \in 1..m : st[i] = s[i] /\ s[i] \in T
  OBVIOUS
<1>6. \A i \in 1..n : st[m + i] = t[i] /\ t[i] \in T
  OBVIOUS
<1> HIDE DEF f, g, h, m, n, st
<1> DEFINE h1 == [i \in 0..m |-> h[i]]
           h2 == [i \in 0..n |-> h[m + i] - h[m]]
<1>7. h1 \in [0..m -> Int] /\ h2 \in [0..n -> Int]
  BY <1>1, <1>4
<1>8. \A i \in 1..m : h1[i] - h1[i - 1] = f[i] - f[i - 1]
  <2> SUFFICES ASSUME NEW i \in 1..m PROVE h1[i] - h1[i - 1] = f[i] - f[i - 1]
    OBVIOUS
  <2>1. i \in 1..(m + n) /\ i \in 0..m /\ i - 1 \in 0..m /\ i - 1 \in 0..(m + n)
    BY <1>1
  <2>2. h1[i] = h[i] /\ h1[i - 1] = h[i - 1]
    BY <2>1
  <2>3. h[i] = h[i - 1] + v[s[i]] /\ f[i] = f[i - 1] + v[s[i]] /\ v[s[i]] \in Int
    BY <1>2, <1>4, <1>5, <2>1
  <2>4. h[i - 1] \in Int /\ f[i - 1] \in Int
    BY <1>2, <1>4, <2>1
  <2> QED
    BY <2>2, <2>3, <2>4
<1>9. h1[0] = f[0] /\ h2[0] = g[0]
  BY <1>1, <1>2, <1>3, <1>4
<1>10. \A i \in 1..n : h2[i] - h2[i - 1] = g[i] - g[i - 1]
  <2> SUFFICES ASSUME NEW i \in 1..n PROVE h2[i] - h2[i - 1] = g[i] - g[i - 1]
    OBVIOUS
  <2>1. m + i \in 1..(m + n) /\ i \in 0..n /\ i - 1 \in 0..n /\ m + (i - 1) \in 0..(m + n) /\ m \in 0..(m + n)
        /\ m + (i - 1) = (m + i) - 1
    BY <1>1
  <2>2. h2[i] = h[m + i] - h[m] /\ h2[i - 1] = h[m + (i - 1)] - h[m]
    BY <2>1
  <2>3. h[m + i] = h[m + (i - 1)] + v[t[i]] /\ g[i] = g[i - 1] + v[t[i]] /\ v[t[i]] \in Int
    BY <1>3, <1>4, <1>6, <2>1
  <2>4. h[m + (i - 1)] \in Int /\ h[m] \in Int /\ g[i - 1] \in Int
    BY <1>3, <1>4, <2>1
  <2> QED
    BY <2>2, <2>3, <2>4
<1>11. h1[m] = f[m] /\ h2[n] = g[n]
  <2>1. \A i \in 0..m : h1[i] = f[i]
    <3> HIDE DEF h1
    <3> QED
      BY <1>1, <1>2, <1>7, <1>8, <1>9, ClimbsAlike
  <2>2. \A i \in 0..n : h2[i] = g[i]
    <3> HIDE DEF h2
    <3> QED
      BY <1>1, <1>3, <1>7, <1>9, <1>10, ClimbsAlike
  <2> QED
    BY <1>1, <2>1, <2>2
<1>12. h[m] = f[m] /\ h[m + n] - h[m] = g[n] /\ h[m] \in Int /\ h[m + n] \in Int /\ g[n] \in Int
  BY <1>1, <1>3, <1>4, <1>11
<1> QED
  BY <1>2, <1>3, <1>4, <1>12 DEF st

\* Nothing sums up to nothing, and one thing to what it brings.
LEMMA SumsOfOne ==
  ASSUME NEW T, NEW v \in [T -> Int]
  PROVE  /\ SumAlong(<<>>, v) = 0
         /\ \A x \in T : SumAlong(<<x>>, v) = v[x]
<1>1. SumAlong(<<>>, v) = 0
  <2>1. <<>> \in Seq(T) /\ Len(<<>>) = 0
    OBVIOUS
  <2> QED
    BY <2>1, SumsUpto
<1>2. ASSUME NEW x \in T PROVE SumAlong(<<x>>, v) = v[x]
  <2> DEFINE s == <<x>>
  <2>1. s \in Seq(T) /\ Len(s) = 1 /\ s[1] = x
    OBVIOUS
  <2> HIDE DEF s
  <2>2. /\ Upto(s, v)[0] = 0 /\ SumAlong(s, v) = Upto(s, v)[Len(s)]
        /\ \A i \in 1..Len(s) : Upto(s, v)[i] = Upto(s, v)[i - 1] + v[s[i]]
    BY <2>1, SumsUpto
  <2>3. v[x] \in Int
    OBVIOUS
  <2> DEFINE f == Upto(s, v)
  <2> HIDE DEF f
  <2>4. f[0] = 0 /\ f[1] = f[1 - 1] + v[x] /\ SumAlong(s, v) = f[1]
    BY <2>1, <2>2 DEF f
  <2> QED
    BY <2>3, <2>4 DEF s
<1> QED
  BY <1>1, <1>2

LEMMA SumsOfNothing ==
  ASSUME NEW T, NEW s \in Seq(T), Len(s) = 0, NEW v \in [T -> Int]
  PROVE  SumAlong(s, v) = 0
<1>1. Upto(s, v)[0] = 0 /\ SumAlong(s, v) = Upto(s, v)[Len(s)]
  BY SumsUpto
<1> QED
  BY <1>1

\* The sum of the same everywhere.
LEMMA SumsOfSame ==
  ASSUME NEW T, NEW s \in Seq(T), NEW v \in [T -> Int], NEW c \in Int, \A x \in T : v[x] = c
  PROVE  SumAlong(s, v) = Len(s) * c
<1> DEFINE f == Upto(s, v)
           n == Len(s)
           g == [i \in 0..n |-> i * c]
<1>1. /\ f \in [0..n -> Int] /\ f[0] = 0 /\ \A i \in 1..n : f[i] = f[i - 1] + v[s[i]]
      /\ SumAlong(s, v) = f[n]
  BY SumsUpto
<1>2. n \in Nat /\ \A i \in 1..n : v[s[i]] = c
  OBVIOUS
<1> HIDE DEF f, n
<1>3. g \in [0..n -> Int]
  <2>1. \A i \in 0..n : i * c \in Int
    BY <1>2
  <2> QED
    BY <2>1
<1>4. f[0] = g[0] /\ g[n] = n * c
  BY <1>1, <1>2
<1>5. ASSUME NEW i \in 1..n PROVE f[i] - f[i - 1] = g[i] - g[i - 1]
  <2>1. g[i] = i * c /\ g[i - 1] = (i - 1) * c
    BY <1>2
  <2>2. i * c = (i - 1) * c + c /\ (i - 1) * c \in Int
    BY <1>2
  <2>3. f[i] = f[i - 1] + c /\ f[i - 1] \in Int
    <3>1. i - 1 \in 0..n /\ v[s[i]] = c
      BY <1>2
    <3> QED
      BY <1>1, <3>1
  <2> QED
    BY <2>1, <2>2, <2>3
<1> HIDE DEF g
<1>6. \A i \in 0..n : f[i] = g[i]
  BY <1>1, <1>2, <1>3, <1>4, <1>5, ClimbsAlike
<1> QED
  BY <1>1, <1>2, <1>4, <1>6 DEF n

OnlyAt(k, s, v, w) == \A i \in 1..Len(s) : i # k => w[s[i]] = v[s[i]]

\* The sum of v over an enumeration changes by what one of its elements does.
LEMMA SumsChange ==
  ASSUME NEW T, NEW s \in Seq(T), NEW v \in [T -> Int], NEW w \in [T -> Int],
         NEW k \in 1..Len(s), OnlyAt(k, s, v, w)
  PROVE  SumAlong(s, w) = SumAlong(s, v) + (w[s[k]] - v[s[k]])
<1> DEFINE f == Upto(s, v)
           h == Upto(s, w)
           n == Len(s)
           d == w[s[k]] - v[s[k]]
           g == [i \in 0..n |-> IF i < k THEN f[i] ELSE f[i] + d]
<1>1. /\ f \in [0..n -> Int] /\ f[0] = 0 /\ \A i \in 1..n : f[i] = f[i - 1] + v[s[i]]
      /\ SumAlong(s, v) = f[n]
  BY SumsUpto
<1>2. /\ h \in [0..n -> Int] /\ h[0] = 0 /\ \A i \in 1..n : h[i] = h[i - 1] + w[s[i]]
      /\ SumAlong(s, w) = h[n]
  BY SumsUpto
<1>3. n \in Nat /\ k \in 1..n /\ d \in Int /\ w[s[k]] = v[s[k]] + d
      /\ \A i \in 1..n : v[s[i]] \in Int /\ w[s[i]] \in Int /\ (i # k => w[s[i]] = v[s[i]])
  BY DEF OnlyAt
<1>4. d = w[s[k]] - v[s[k]]
  OBVIOUS
<1> HIDE DEF f, h, n, d
<1>5. g \in [0..n -> Int]
  <2>1. \A i \in 0..n : f[i] \in Int
    BY <1>1
  <2>2. \A i \in 0..n : f[i] + d \in Int
    BY <1>3, <2>1
  <2> QED
    BY <2>1, <2>2
<1>6. g[0] = h[0] /\ g[n] = f[n] + d
  BY <1>1, <1>2, <1>3
<1>7. ASSUME NEW i \in 1..n PROVE h[i] - h[i - 1] = g[i] - g[i - 1]
  <2>0. i \in 0..n /\ i - 1 \in 0..n
    BY <1>3
  <2>1. i \in 0..n /\ i - 1 \in 0..n /\ f[i - 1] \in Int /\ f[i] = f[i - 1] + v[s[i]] /\ v[s[i]] \in Int
    BY <1>1, <1>3, <2>0
  <2>2. h[i - 1] \in Int /\ h[i] = h[i - 1] + w[s[i]] /\ w[s[i]] \in Int
    BY <1>2, <1>3, <2>1
  <2>3. g[i] - g[i - 1] = w[s[i]]
    <3>1. g[i] = (IF i < k THEN f[i] ELSE f[i] + d) /\ g[i - 1] = IF i - 1 < k THEN f[i - 1] ELSE f[i - 1] + d
      BY <2>1
    <3>2. CASE i < k
      <4>1. g[i] = f[i] /\ g[i - 1] = f[i - 1] /\ w[s[i]] = v[s[i]]
        BY <1>3, <3>1, <3>2
      <4> QED
        BY <2>1, <4>1
    <3>3. CASE i = k
      <4>1. g[i] = f[i] + d /\ g[i - 1] = f[i - 1] /\ w[s[i]] = v[s[i]] + d
        BY <1>3, <3>1, <3>3
      <4> QED
        BY <1>3, <2>1, <4>1
    <3>4. CASE i > k
      <4>1. g[i] = f[i] + d /\ g[i - 1] = f[i - 1] + d /\ w[s[i]] = v[s[i]]
        BY <1>3, <3>1, <3>4
      <4> QED
        BY <1>3, <2>1, <4>1
    <3> QED
      BY <1>3, <3>2, <3>3, <3>4
  <2> QED
    BY <2>2, <2>3
<1> HIDE DEF g
<1>8. \A i \in 0..n : h[i] = g[i]
  BY <1>2, <1>3, <1>5, <1>6, <1>7, ClimbsAlike
<1>9. h[n] = f[n] + d
  BY <1>3, <1>6, <1>8
<1> QED
  BY <1>1, <1>2, <1>4, <1>9

\* SetToSeq enumerates a finite set.
LEMMA Enumerated ==
  ASSUME NEW T, IsFiniteSet(T)
  PROVE  /\ SetToSeq(T) \in Seq(T) /\ Len(SetToSeq(T)) = Cardinality(T)
         /\ \A x \in T : \E k \in 1..Len(SetToSeq(T)) : SetToSeq(T)[k] = x
         /\ \A i, j \in 1..Len(SetToSeq(T)) : SetToSeq(T)[i] = SetToSeq(T)[j] => i = j
<1> DEFINE n == Cardinality(T)
<1>1. n \in Nat /\ ExistsBijection(1..n, T)
  BY FS_CardinalityType
<1>2. PICK f \in Bijection(1..n, T) : TRUE
  BY <1>1 DEF ExistsBijection
<1>3. f \in [1..n -> T] /\ IsInjective(f)
  BY <1>2 DEF Bijection, Injection, Surjection, IsInjective
<1>4. SetToSeq(T) \in [1..n -> T] /\ IsInjective(SetToSeq(T))
  BY <1>3 DEF SetToSeq
<1> DEFINE e == SetToSeq(T)
<1> HIDE DEF e, n
<1>5. e \in Seq(T) /\ Len(e) = n
  BY <1>1, <1>4 DEF e
<1>6. \A i, j \in 1..n : e[i] = e[j] => i = j
  BY <1>4 DEF IsInjective, e
<1>7. e \in Injection(1..n, T)
  BY <1>4, <1>6 DEF Injection, IsInjective, e
<1>8. IsFiniteSet(1..n) /\ Cardinality(1..n) = Cardinality(T)
  BY <1>1, FS_Interval DEF n
<1>9. e \in Surjection(1..n, T)
  BY <1>7, <1>8, FS_Injection
<1>10. \A x \in T : \E k \in 1..n : e[k] = x
  BY <1>9 DEF Surjection
<1> QED
  BY <1>5, <1>6, <1>10 DEF e, n
\* The sum over a finite set, of which one element changes.
LEMMA OneChanges ==
  ASSUME NEW T, IsFiniteSet(T), NEW v \in [T -> Int], NEW w \in [T -> Int],
         NEW x \in T, \A y \in T : y # x => w[y] = v[y]
  PROVE  /\ SumAlong(SetToSeq(T), w) = SumAlong(SetToSeq(T), v) + (w[x] - v[x])
         /\ SumAlong(SetToSeq(T), v) \in Int
<1>1. PICK e \in Seq(T) : /\ e = SetToSeq(T)
                         /\ \A y \in T : \E k \in 1..Len(e) : e[k] = y
                         /\ \A i, j \in 1..Len(e) : e[i] = e[j] => i = j
  BY Enumerated
<1>2. PICK k \in 1..Len(e) : e[k] = x
  BY <1>1
<1>3. ASSUME NEW i \in 1..Len(e), i # k PROVE w[e[i]] = v[e[i]]
  <2>1. e[i] \in T
    BY <1>1
  <2>2. e[i] # x
    BY <1>1, <1>2, <1>3
  <2> QED
    BY <2>1, <2>2
<1>4. SumAlong(e, w) = SumAlong(e, v) + (w[e[k]] - v[e[k]])
  <2>1. OnlyAt(k, e, v, w)
    BY <1>3 DEF OnlyAt
  <2> QED
    BY <2>1, SumsChange
<1>5. SumAlong(e, v) \in Int
  BY SumsUpto
<1> QED
  BY <1>1, <1>2, <1>4, <1>5

\* The transaction that is being inserted, in a sequence.
LEMMA OneInSequence == SetToSeq({}) = <<>> /\ \A x : SetToSeq({x}) = <<x>>
<1>1. SetToSeq({}) = <<>>
  <2>1. IsFiniteSet({}) /\ Cardinality({}) = 0
    BY FS_EmptySet
  <2>2. SetToSeq({}) \in Seq({}) /\ Len(SetToSeq({})) = 0
    BY <2>1, Enumerated
  <2> QED
    BY <2>2
<1>2. ASSUME NEW x PROVE SetToSeq({x}) = <<x>>
  <2>1. IsFiniteSet({x}) /\ Cardinality({x}) = 1
    BY FS_Singleton
  <2>2. SetToSeq({x}) \in Seq({x}) /\ Len(SetToSeq({x})) = 1
    BY <2>1, Enumerated
  <2> DEFINE e == SetToSeq({x})
  <2> HIDE DEF e
  <2>3. e \in Seq({x}) /\ Len(e) = 1
    BY <2>2 DEF e
  <2>4. e[1] \in {x}
    <3>1. ASSUME NEW T, NEW s \in Seq(T), Len(s) = 1 PROVE s[1] \in T
      BY <3>1
    <3> QED
      BY <2>3, <3>1
  <2>5. e = <<x>>
    BY <2>3, <2>4
  <2> QED
    BY <2>5 DEF e
<1> QED
  BY <1>1, <1>2

-----------------------------------------------------------------------------
(* Credits: checking and taking.                                           *)

Most == Max(Sums)

\* What a teller is doing.
Work ==
  {Idle} \cup
  [from : Account, to : Account, sum : Sums, next : {"check", "minus", "plus", "log"}, have : Int]

CreditTypeOK ==
  /\ k_bal \in [Account -> Int]
  /\ k_work \in [Teller -> Work]

\* The tellers that have found enough on the account and have not taken it yet.
Checked(a) == {t \in Teller : k_work[t].next = "minus" /\ k_work[t].from = a}

\* What all tellers but n could take too much.
Slack(n) == (Cardinality(Teller) - n) * Most

\* One of those in S, the last to check, had all it needs but for what others
\* could take first.
Bounded(bal, S, sum) ==
  /\ S = {} => bal >= 0 - Slack(1)
  /\ S # {} => \E t \in S : bal - sum[t] >= 0 - Slack(Cardinality(S))

AskedSum == [t \in Teller |-> k_work[t].sum]

CreditInv ==
  /\ CreditTypeOK
  /\ \A a \in Account : Bounded(k_bal[a], Checked(a), AskedSum)
-----------------------------------------------------------------------------
(* Sums and slack.                                                         *)

USE CreditsAssumption

LEMMA MostIsMost == Most \in Nat /\ \A s \in Sums : s \in 0..Most
<1>1. \E m \in Sums : \A s \in Sums : m >= s
  OBVIOUS
<1>2. Most \in Sums /\ \A s \in Sums : Most >= s
  BY <1>1 DEF Most, Max
<1> QED
  BY <1>2

LEMMA SlackType ==
  /\ Cardinality(Teller) \in Nat /\ Cardinality(Teller) >= 1
  /\ \A n \in Nat : Slack(n) \in Int
  /\ \A n \in Nat : Slack(n) = Slack(n + 1) + Most
  /\ \A n \in Nat : n <= Cardinality(Teller) => Slack(n) >= 0
<1> DEFINE T == Cardinality(Teller)
<1>1. T \in Nat /\ T >= 1
  BY FS_CardinalityType, FS_EmptySet
<1>2. Most \in Nat
  BY MostIsMost
<1> HIDE DEF T
<1>3. ASSUME NEW n \in Nat PROVE (T - n) * Most \in Int /\ (T - n) * Most = (T - (n + 1)) * Most + Most
  BY <1>1, <1>2
<1>4. ASSUME NEW n \in Nat, n <= T PROVE (T - n) * Most >= 0
  <2>1. T - n \in Nat
    BY <1>1, <1>4
  <2>2. \A x, y \in Nat : x * y >= 0
    OBVIOUS
  <2> QED
    BY <1>2, <2>1, <2>2
<1> QED
  BY <1>1, <1>3, <1>4 DEF Slack, T

\* A teller that finds enough joins those who have checked.
LEMMA CheckBounded ==
  ASSUME NEW bal \in Int, NEW S \in SUBSET Teller, NEW t \in Teller, NEW sum,
         sum[t] \in Nat, bal >= sum[t]
  PROVE  Bounded(bal, S \cup {t}, sum)
<1> DEFINE n == Cardinality(S \cup {t})
<1>1. n \in Nat /\ n <= Cardinality(Teller)
  <2>1. S \cup {t} \in SUBSET Teller
    OBVIOUS
  <2> QED
    BY <2>1, FS_Subset, FS_CardinalityType
<1>2. Slack(n) \in Int /\ Slack(n) >= 0
  BY <1>1, SlackType
<1> HIDE DEF n
<1>3. bal - sum[t] >= 0 - Slack(n)
  BY <1>2
<1> QED
  BY <1>3 DEF Bounded, n

\* One that takes its sum, or fails, leaves them.
LEMMA TakeBounded ==
  ASSUME NEW bal \in Int, NEW S \in SUBSET Teller, NEW t \in S, NEW sum, NEW new \in Int,
         \A x \in S : sum[x] \in 0..Most,
         Bounded(bal, S, sum), new >= bal - sum[t]
  PROVE  Bounded(new, S \ {t}, sum)
<1> DEFINE n == Cardinality(S)
           R == S \ {t}
<1>1. n \in Nat /\ Cardinality(R) \in Nat /\ n = Cardinality(R) + 1 /\ (R = {} => n = 1)
  <2>1. IsFiniteSet(S) /\ IsFiniteSet(R)
    BY FS_Subset
  <2>2. n \in Nat /\ Cardinality(R) \in Nat
    BY <2>1, FS_CardinalityType
  <2>3. Cardinality(R) = n - 1
    BY <2>1, FS_RemoveElement
  <2>4. R = {} => Cardinality(R) = 0
    BY FS_EmptySet
  <2> QED
    BY <2>2, <2>3, <2>4
<1>2. PICK t0 \in S : bal - sum[t0] >= 0 - Slack(n)
  BY DEF Bounded
<1>3. Slack(n) \in Int /\ Slack(1) \in Int /\ Slack(n - 1) = Slack(n) + Most /\ Slack(n - 1) \in Int /\ Most \in Nat
  BY <1>1, SlackType, MostIsMost
<1>4. sum[t] \in 0..Most /\ sum[t0] \in 0..Most
  OBVIOUS
<1> HIDE DEF n, R
<1>5. CASE t0 = t
  <2>1. new >= 0 - Slack(n)
    BY <1>2, <1>3, <1>4, <1>5
  <2>2. ASSUME NEW x \in R PROVE new - sum[x] >= 0 - Slack(n - 1)
    <3>1. sum[x] \in 0..Most
      BY DEF R
    <3> QED
      BY <1>3, <2>1, <3>1
  <2>3. CASE R = {}
    BY <1>1, <1>3, <2>1, <2>3 DEF Bounded, R
  <2>4. CASE R # {}
    <3>1. PICK x \in R : TRUE
      BY <2>4
    <3>2. new - sum[x] >= 0 - Slack(Cardinality(R))
      BY <1>1, <2>2
    <3> QED
      BY <2>4, <3>2 DEF Bounded, R
  <2> QED
    BY <2>3, <2>4
<1>6. CASE t0 # t
  <2>1. t0 \in R /\ R # {}
    BY <1>6 DEF R
  <2>2. new - sum[t0] >= 0 - Slack(n - 1)
    BY <1>2, <1>3, <1>4
  <2>3. new - sum[t0] >= 0 - Slack(Cardinality(R))
    BY <1>1, <2>2
  <2> QED
    BY <2>1, <2>3 DEF Bounded, R
<1> QED
  BY <1>5, <1>6

\* What is added only helps.
LEMMA MoreBounded ==
  ASSUME NEW bal \in Int, NEW S \in SUBSET Teller, NEW sum, NEW new \in Int,
         \A x \in S : sum[x] \in 0..Most,
         Bounded(bal, S, sum), new >= bal
  PROVE  Bounded(new, S, sum)
<1> DEFINE n == Cardinality(S)
<1>1. Slack(1) \in Int /\ Slack(n) \in Int
  BY FS_Subset, FS_CardinalityType, SlackType
<1> HIDE DEF n
<1>2. CASE S = {}
  BY <1>1, <1>2 DEF Bounded
<1>3. CASE S # {}
  <2>1. PICK t \in S : bal - sum[t] >= 0 - Slack(n)
    BY <1>3 DEF Bounded, n
  <2>2. new - sum[t] >= 0 - Slack(n)
    <3>1. sum[t] \in Int
      BY MostIsMost
    <3> QED
      BY <1>1, <2>1, <3>1
  <2> QED
    BY <1>3, <2>2 DEF Bounded, n
<1> QED
  BY <1>2, <1>3
-----------------------------------------------------------------------------
(* The steps.                                                              *)

LEMMA Busy ==
  ASSUME NEW k \in Work, k.next # "idle"
  PROVE  /\ k.from \in Account /\ k.to \in Account /\ k.sum \in Sums /\ k.have \in Int
         /\ k.next \in {"check", "minus", "plus", "log"}
         /\ k = [from |-> k.from, to |-> k.to, sum |-> k.sum, next |-> k.next, have |-> k.have]
<1>1. k \in [from : Account, to : Account, sum : Sums, next : {"check", "minus", "plus", "log"}, have : Int]
  BY DEF Work, Idle
<1> QED
  BY <1>1

LEMMA ToMinus ==
  ASSUME NEW k \in Work, k.next # "idle", NEW b \in Int
  PROVE  [k EXCEPT !.next = "minus", !.have = b]
           = [from |-> k.from, to |-> k.to, sum |-> k.sum, next |-> "minus", have |-> b]
<1>1. k = [from |-> k.from, to |-> k.to, sum |-> k.sum, next |-> k.next, have |-> k.have]
  BY Busy
<1>2. [k EXCEPT !.next = "minus"] = [from |-> k.from, to |-> k.to, sum |-> k.sum, next |-> "minus", have |-> k.have]
  <2>1. ASSUME NEW f, NEW o, NEW m, NEW n, NEW h, k = [from |-> f, to |-> o, sum |-> m, next |-> n, have |-> h]
        PROVE  [k EXCEPT !.next = "minus"] = [from |-> f, to |-> o, sum |-> m, next |-> "minus", have |-> h]
    BY <2>1
  <2> QED
    BY <1>1, <2>1
<1>3. [k EXCEPT !.next = "minus", !.have = b] = [[k EXCEPT !.next = "minus"] EXCEPT !.have = b]
  <2>1. k \in [from : Account, to : Account, sum : Sums, next : {"check", "minus", "plus", "log"}, have : Int]
    BY DEF Work, Idle
  <2> QED
    BY <2>1
<1>4. ASSUME NEW f, NEW o, NEW m, NEW n, NEW h
      PROVE  [[from |-> f, to |-> o, sum |-> m, next |-> n, have |-> h] EXCEPT !.have = b]
               = [from |-> f, to |-> o, sum |-> m, next |-> n, have |-> b]
  OBVIOUS
<1>5. [[k EXCEPT !.next = "minus"] EXCEPT !.have = b]
        = [[from |-> k.from, to |-> k.to, sum |-> k.sum, next |-> "minus", have |-> k.have] EXCEPT !.have = b]
  BY <1>2
<1> QED
  BY <1>3, <1>4, <1>5

LEMMA AskedIsSmall ==
  ASSUME CreditTypeOK
  PROVE  \A a \in Account : /\ Checked(a) \in SUBSET Teller
                            /\ \A t \in Checked(a) : AskedSum[t] \in 0..Most
<1> SUFFICES ASSUME NEW a \in Account, NEW t \in Checked(a) PROVE AskedSum[t] \in 0..Most
  BY DEF Checked
<1>1. t \in Teller /\ k_work[t].next = "minus" /\ k_work[t] \in Work
  BY DEF Checked, CreditTypeOK
<1>2. k_work[t].sum \in Sums
  BY <1>1 DEF Work, Idle
<1> QED
  BY <1>1, <1>2, MostIsMost DEF AskedSum

\* What a teller does changes what it has checked, and nobody else's.
LEMMA WorkChanges ==
  ASSUME CreditTypeOK, NEW t \in Teller, NEW w \in Work, k_work' = [k_work EXCEPT ![t] = w]
  PROVE  /\ k_work' \in [Teller -> Work]
         /\ \A x \in Teller : x # t => AskedSum'[x] = AskedSum[x]
         /\ AskedSum'[t] = w.sum
         /\ \A a \in Account :
              Checked(a)' = (Checked(a) \ {t}) \cup {x \in {t} : w.next = "minus" /\ w.from = a}
<1>1. k_work \in [Teller -> Work]
  BY DEF CreditTypeOK
<1>2. k_work' \in [Teller -> Work] /\ \A x \in Teller : k_work'[x] = IF x = t THEN w ELSE k_work[x]
  BY <1>1
<1> QED
  BY <1>2 DEF AskedSum, Checked

\* The bound looks only at the sums of those in the set.
LEMMA SameSums ==
  ASSUME NEW bal, NEW S, NEW sum, NEW other, \A x \in S : sum[x] = other[x], Bounded(bal, S, sum)
  PROVE  Bounded(bal, S, other)
BY DEF Bounded

LEMMA CommandKeeps ==
  ASSUME CreditInv, NEW t \in Teller, NEW a \in Account, NEW sum \in Sums, NEW takes \in BOOLEAN,
         command(t, a, sum, takes)
  PROVE  CreditInv'
<1> USE DEF command
<1>1. CreditTypeOK /\ k_bal' = k_bal
  BY DEF CreditInv
<1>2. CASE UNCHANGED k_work
  BY <1>1, <1>2 DEF CreditInv, CreditTypeOK, Checked, AskedSum
<1>3. CASE ~ UNCHANGED k_work
  <2> DEFINE tr == IF takes THEN [from |-> a, to |-> BotOf[t], sum |-> sum]
                   ELSE [from |-> BotOf[t], to |-> a, sum |-> sum]
             w == [from |-> tr.from, to |-> tr.to, sum |-> tr.sum, next |-> "check", have |-> 0]
  <2>1. k_work' = [k_work EXCEPT ![t] = w] /\ k_work[t].next = "idle"
    BY <1>3 DEF Going
  <2>2. w \in Work /\ w.next = "check"
    BY DEF Work
  <2> HIDE DEF w
  <2>3. /\ k_work' \in [Teller -> Work]
        /\ \A x \in Teller : x # t => AskedSum'[x] = AskedSum[x]
        /\ \A b \in Account : Checked(b)' = Checked(b) /\ t \notin Checked(b)
    BY <1>1, <2>1, <2>2, WorkChanges DEF Checked
  <2>4. ASSUME NEW b \in Account PROVE Bounded(k_bal[b], Checked(b)', AskedSum')
    BY <1>1, <2>3, SameSums, AskedIsSmall DEF CreditInv
  <2> QED
    BY <1>1, <2>3, <2>4 DEF CreditInv, CreditTypeOK
<1> QED
  BY <1>2, <1>3

LEMMA CheckKeeps ==
  ASSUME CreditInv, NEW t \in Teller, check_summa(t)
  PROVE  CreditInv'
<1> USE DEF check_summa, Going
<1>1. CreditTypeOK /\ k_bal' = k_bal /\ k_work[t] \in Work /\ k_work[t].next = "check"
  BY DEF CreditInv, CreditTypeOK
<1> DEFINE k == k_work[t]
<1>2. /\ k.from \in Account /\ k.to \in Account /\ k.sum \in Sums /\ k_bal[k.from] \in Int
      /\ k = [from |-> k.from, to |-> k.to, sum |-> k.sum, next |-> k.next, have |-> k.have]
  BY <1>1, Busy DEF CreditTypeOK
<1>3. PICK w \in Work :
        /\ k_work' = [k_work EXCEPT ![t] = w]
        /\ w.next = "minus" => w.from = k.from /\ w.sum = k.sum /\ Affords(t)
  <2>1. CASE Affords(t)
    <3> DEFINE w == [from |-> k.from, to |-> k.to, sum |-> k.sum, next |-> "minus", have |-> k_bal[k.from]]
    <3>1. [k EXCEPT !.next = "minus", !.have = k_bal[k.from]] = w
      <4>1. k \in Work /\ k.next # "idle"
        BY <1>1
      <4> HIDE DEF k
      <4> QED
        BY <1>2, <4>1, ToMinus
    <3>2. w \in Work
      BY <1>2 DEF Work
    <3>3. k_work' = [k_work EXCEPT ![t] = [k EXCEPT !.next = "minus", !.have = k_bal[k.from]]]
      BY <1>1, <2>1 DEF CreditTypeOK
    <3> QED
      BY <2>1, <3>1, <3>2, <3>3
  <2>2. CASE ~ Affords(t)
    BY <2>2 DEF Work, Idle
  <2> QED
    BY <2>1, <2>2
<1>4. /\ k_work' \in [Teller -> Work]
      /\ \A x \in Teller : x # t => AskedSum'[x] = AskedSum[x]
      /\ AskedSum'[t] = w.sum
      /\ \A b \in Account : /\ t \notin Checked(b)
                            /\ Checked(b)' = Checked(b) \cup {x \in {t} : w.next = "minus" /\ w.from = b}
  <2>1. \A b \in Account : /\ t \notin Checked(b)
                           /\ Checked(b)' = (Checked(b) \ {t}) \cup {x \in {t} : w.next = "minus" /\ w.from = b}
    BY <1>1, <1>3, WorkChanges DEF Checked
  <2>2. \A b \in Account : Checked(b)' = Checked(b) \cup {x \in {t} : w.next = "minus" /\ w.from = b}
    <3>1. \A b \in Account : Checked(b) \ {t} = Checked(b)
      BY <2>1
    <3> QED
      BY <2>1, <3>1
  <2>3. /\ k_work' \in [Teller -> Work] /\ AskedSum'[t] = w.sum
        /\ \A x \in Teller : x # t => AskedSum'[x] = AskedSum[x]
    BY <1>1, <1>3, WorkChanges
  <2> QED
    BY <2>1, <2>2, <2>3
<1>5. ASSUME NEW b \in Account PROVE Bounded(k_bal[b], Checked(b)', AskedSum')
  <2>1. CASE w.next = "minus" /\ w.from = b
    <3>1. Checked(b)' = Checked(b) \cup {t} /\ Checked(b) \in SUBSET Teller
      BY <1>1, <1>4, <2>1, AskedIsSmall
    <3>2. AskedSum'[t] = k.sum /\ k_bal[b] >= k.sum /\ k.sum \in Nat /\ k_bal[b] \in Int
      BY <1>2, <1>3, <1>4, <2>1 DEF Affords
    <3>3. Bounded(k_bal[b], Checked(b) \cup {t}, AskedSum')
      BY <3>1, <3>2, CheckBounded
    <3> QED
      BY <3>1, <3>3
  <2>2. CASE ~ (w.next = "minus" /\ w.from = b)
    <3>1. Checked(b)' = Checked(b)
      BY <1>4, <2>2
    <3>2. Bounded(k_bal[b], Checked(b), AskedSum) /\ Checked(b) \in SUBSET Teller
      BY <1>1, AskedIsSmall DEF CreditInv
    <3> QED
      BY <1>4, <3>1, <3>2, SameSums
  <2> QED
    BY <2>1, <2>2
<1> QED
  BY <1>1, <1>4, <1>5 DEF CreditInv, CreditTypeOK

\* A teller that ends what it was doing, or goes on after its check, leaves
\* those that have checked; the account is no lower than by its sum.
LEMMA LeaveKeeps ==
  ASSUME CreditInv, NEW t \in Teller, NEW w \in Work, w.next # "minus",
         k_work' = [k_work EXCEPT ![t] = w],
         k_bal' \in [Account -> Int],
         \A a \in Account : k_bal'[a] >= IF t \in Checked(a) THEN k_bal[a] - AskedSum[t] ELSE k_bal[a]
  PROVE  CreditInv'
<1>1. CreditTypeOK /\ k_bal \in [Account -> Int]
  BY DEF CreditInv, CreditTypeOK
<1>2. /\ k_work' \in [Teller -> Work]
      /\ \A x \in Teller : x # t => AskedSum'[x] = AskedSum[x]
      /\ \A a \in Account : Checked(a)' = Checked(a) \ {t}
  <2>1. \A a \in Account : Checked(a)' = (Checked(a) \ {t}) \cup {x \in {t} : w.next = "minus" /\ w.from = a}
    BY <1>1, WorkChanges
  <2>2. \A a \in Account : Checked(a)' = Checked(a) \ {t}
    <3> SUFFICES ASSUME NEW a \in Account PROVE Checked(a)' = Checked(a) \ {t}
      OBVIOUS
    <3>1. {x \in {t} : w.next = "minus" /\ w.from = a} = {}
      OBVIOUS
    <3> QED
      BY <2>1, <3>1
  <2>3. /\ k_work' \in [Teller -> Work]
        /\ \A x \in Teller : x # t => AskedSum'[x] = AskedSum[x]
    BY <1>1, WorkChanges
  <2> QED
    BY <2>2, <2>3
<1>3. ASSUME NEW a \in Account PROVE Bounded(k_bal'[a], Checked(a)', AskedSum')
  <2>1. /\ Checked(a) \in SUBSET Teller /\ \A x \in Checked(a) : AskedSum[x] \in 0..Most
        /\ Bounded(k_bal[a], Checked(a), AskedSum) /\ k_bal[a] \in Int /\ k_bal'[a] \in Int
    BY <1>1, AskedIsSmall DEF CreditInv
  <2>2. Bounded(k_bal'[a], Checked(a) \ {t}, AskedSum)
    <3>1. CASE t \in Checked(a)
      BY <2>1, <3>1, TakeBounded
    <3>2. CASE t \notin Checked(a)
      <4>1. Checked(a) \ {t} = Checked(a) /\ k_bal'[a] >= k_bal[a]
        BY <3>2
      <4> QED
        BY <2>1, <4>1, MoreBounded
    <3> QED
      BY <3>1, <3>2
  <2> QED
    BY <1>2, <2>1, <2>2, SameSums
<1> QED
  BY <1>2, <1>3 DEF CreditInv, CreditTypeOK

LEMMA TellerKeeps ==
  ASSUME CreditInv, NEW t \in Teller, take_from(t) \/ give_to(t) \/ log_move(t) \/ command_fails(t)
  PROVE  CreditInv'
<1> USE DEF Going, GoOn
<1>1. CreditTypeOK /\ k_work[t] \in Work /\ k_bal \in [Account -> Int]
  BY DEF CreditInv, CreditTypeOK
<1> DEFINE k == k_work[t]
<1>2. k.next # "idle"
  BY DEF take_from, give_to, log_move, command_fails
<1>3. /\ k.from \in Account /\ k.to \in Account /\ k.sum \in Sums /\ k.have \in Int /\ k.sum \in Nat
      /\ k = [from |-> k.from, to |-> k.to, sum |-> k.sum, next |-> k.next, have |-> k.have]
  BY <1>1, <1>2, Busy
<1>4. Idle \in Work /\ Idle.next # "minus"
  BY DEF Work, Idle
<1>5. \A q \in {"plus", "log"} : [k EXCEPT !.next = q] \in Work /\ [k EXCEPT !.next = q].next # "minus"
  BY <1>3 DEF Work
<1>6. \A a \in Account : AskedSum[t] = k.sum /\ (t \in Checked(a) <=> k.next = "minus" /\ k.from = a)
  BY DEF AskedSum, Checked
<1>7. \A a \in Account : k_bal[a] \in Int /\ k_bal[a] - k.sum \in Int /\ k_bal[a] + k.sum \in Int
                         /\ k_bal[a] - k.sum <= k_bal[a] /\ k_bal[a] + k.sum >= k_bal[a]
  BY <1>1, <1>3
<1> HIDE DEF k
<1>8. CASE take_from(t)
  <2>1. k_work' = [k_work EXCEPT ![t] = [k EXCEPT !.next = "plus"]]
        /\ k_bal' = [k_bal EXCEPT ![k.from] = @ - k.sum] /\ k.next = "minus"
    BY <1>1, <1>8 DEF take_from, Updates, Minus, k, CreditTypeOK
  <2>2. k_bal' \in [Account -> Int]
    BY <1>1, <1>3, <1>7, <2>1
  <2>3. \A a \in Account : k_bal'[a] >= IF t \in Checked(a) THEN k_bal[a] - AskedSum[t] ELSE k_bal[a]
    BY <1>1, <1>3, <1>6, <1>7, <2>1
  <2> QED
    BY <1>5, <2>1, <2>2, <2>3, LeaveKeeps
<1>9. CASE give_to(t)
  <2>1. k_work' = [k_work EXCEPT ![t] = [k EXCEPT !.next = "log"]]
        /\ k_bal' = [k_bal EXCEPT ![k.to] = @ + k.sum] /\ k.next = "plus"
    BY <1>1, <1>9 DEF give_to, Updates, Plus, k, CreditTypeOK
  <2>2. k_bal' \in [Account -> Int]
    BY <1>1, <1>3, <1>7, <2>1
  <2>3. \A a \in Account : k_bal'[a] >= IF t \in Checked(a) THEN k_bal[a] - AskedSum[t] ELSE k_bal[a]
    BY <1>1, <1>3, <1>6, <1>7, <2>1
  <2> QED
    BY <1>5, <2>1, <2>2, <2>3, LeaveKeeps
<1>10. CASE log_move(t) \/ command_fails(t)
  <2>1. k_work' = [k_work EXCEPT ![t] = Idle] /\ k_bal' = k_bal
    BY <1>10 DEF log_move, command_fails
  <2>2. \A a \in Account : k_bal'[a] >= IF t \in Checked(a) THEN k_bal[a] - AskedSum[t] ELSE k_bal[a]
    BY <1>6, <1>7, <2>1
  <2> QED
    BY <1>1, <1>4, <2>1, <2>2, LeaveKeeps
<1> QED
  BY <1>8, <1>9, <1>10

LEMMA OthersKeep ==
  ASSUME CreditInv,
         \/ \E a \in Account, sum \in Sums : inc_credit_summa(a, sum)
         \/ extract_transaction \/ insert_log \/ UNCHANGED creditVars
  PROVE  CreditInv'
<1>1. CreditTypeOK /\ k_bal \in [Account -> Int]
  BY DEF CreditInv, CreditTypeOK
<1>2. k_work' = k_work
  BY DEF inc_credit_summa, extract_transaction, insert_log, creditVars
<1>3. /\ k_bal' \in [Account -> Int]
      /\ \A a \in Account : k_bal'[a] >= k_bal[a]
  <2>1. CASE k_bal' = k_bal
    BY <1>1, <2>1
  <2>2. ASSUME NEW a \in Account, NEW sum \in Sums, k_bal' = [k_bal EXCEPT ![a] = @ + sum]
        PROVE  k_bal' \in [Account -> Int] /\ \A b \in Account : k_bal'[b] >= k_bal[b]
    <3>1. k_bal[a] + sum \in Int /\ k_bal[a] + sum >= k_bal[a]
      BY <1>1, <2>2
    <3> QED
      BY <1>1, <2>2, <3>1
  <2> QED
    BY <2>1, <2>2 DEF inc_credit_summa, extract_transaction, insert_log, creditVars
<1>4. \A a \in Account : Checked(a)' = Checked(a) /\ AskedSum' = AskedSum
  BY <1>2 DEF Checked, AskedSum
<1>5. ASSUME NEW a \in Account PROVE Bounded(k_bal'[a], Checked(a), AskedSum)
  <2>1. /\ Checked(a) \in SUBSET Teller /\ \A x \in Checked(a) : AskedSum[x] \in 0..Most
        /\ Bounded(k_bal[a], Checked(a), AskedSum) /\ k_bal[a] \in Int /\ k_bal'[a] \in Int
    BY <1>1, <1>3, AskedIsSmall DEF CreditInv
  <2> QED
    BY <1>3, <2>1, MoreBounded
<1> QED
  BY <1>1, <1>2, <1>3, <1>4, <1>5 DEF CreditInv, CreditTypeOK
-----------------------------------------------------------------------------
(* The theorems.                                                           *)

LEMMA CreditInitKeeps == CreditInit => CreditInv
<1> SUFFICES ASSUME CreditInit PROVE CreditInv
  OBVIOUS
<1> USE DEF CreditInit
<1>1. CreditTypeOK
  BY DEF CreditTypeOK, Work
<1>2. \A a \in Account : Checked(a) = {} /\ k_bal[a] = Opening
  BY DEF Checked, Idle
<1>3. Opening >= 0 - Slack(1)
  <2>1. Slack(1) \in Int /\ Slack(1) >= 0
    BY SlackType
  <2> QED
    BY <2>1
<1> QED
  BY <1>1, <1>2, <1>3 DEF CreditInv, Bounded

LEMMA CreditNextKeeps == CreditInv /\ [CreditNext]_creditVars => CreditInv'
BY CommandKeeps, CheckKeeps, TellerKeeps, OthersKeep DEF CreditNext

\* What every state of the credits satisfies.
THEOREM CreditInvariant == CreditSpec => []CreditInv
BY CreditInitKeeps, CreditNextKeeps, PTL DEF CreditSpec

\* However many tellers check one account before they take from it, it is
\* overdrawn by the sums of all but one of them at most.
THEOREM OverdraftIsBounded == CreditSpec => []OverdraftBounded
<1>1. ASSUME CreditInv PROVE OverdraftBounded
  <2> SUFFICES ASSUME NEW a \in Account PROVE k_bal[a] >= 0 - Slack(1)
    BY DEF OverdraftBounded, Slack, Most
  <2>1. /\ Checked(a) \in SUBSET Teller /\ \A x \in Checked(a) : AskedSum[x] \in 0..Most
        /\ Bounded(k_bal[a], Checked(a), AskedSum) /\ k_bal[a] \in Int
    BY <1>1, AskedIsSmall DEF CreditInv, CreditTypeOK
  <2>2. CASE Checked(a) = {}
    BY <2>1, <2>2 DEF Bounded
  <2>3. CASE Checked(a) # {}
    <3> DEFINE n == Cardinality(Checked(a))
    <3>1. n \in Nat /\ n >= 1 /\ n <= Cardinality(Teller)
      BY <2>1, <2>3, FS_Subset, FS_CardinalityType, FS_EmptySet
    <3>2. PICK t \in Checked(a) : k_bal[a] - AskedSum[t] >= 0 - Slack(n)
      BY <2>1, <2>3 DEF Bounded
    <3> HIDE DEF n
    <3>3. Slack(n) <= Slack(1) /\ Slack(n) \in Int /\ Slack(1) \in Int
      <4>1. Most \in Nat /\ Cardinality(Teller) \in Nat
        BY MostIsMost, SlackType
      <4>2. ASSUME NEW T \in Nat, NEW M \in Nat PROVE (T - n) * M <= (T - 1) * M
        <5>1. (T - 1) * M = (T - n) * M + (n - 1) * M
          BY <3>1
        <5>2. n - 1 \in Nat /\ \A x, y \in Nat : x * y >= 0
          BY <3>1
        <5>3. (n - 1) * M >= 0 /\ (n - 1) * M \in Int /\ (T - n) * M \in Int
          BY <3>1, <5>2
        <5> QED
          BY <5>1, <5>3
      <4> QED
        BY <3>1, <4>1, <4>2, SlackType DEF Slack
    <3>4. AskedSum[t] \in Nat
      BY <2>1, MostIsMost
    <3> QED
      BY <2>1, <3>2, <3>3, <3>4
  <2> QED
    BY <2>2, <2>3
<1> QED
  BY <1>1, CreditInvariant, PTL
-----------------------------------------------------------------------------
(* Credits: the ledger.                                                    *)

LedgerOK ==
  /\ k_log \in Seq(Transaction) /\ k_queue \in Seq(Transaction)
  /\ k_dumping = {} \/ \E tr \in Transaction : k_dumping = {tr}
  /\ k_answers \in Seq({"OK", "FAIL"})
  /\ k_failures \in Nat

\* What a teller has moved to an account so far, and what it has taken and not
\* given yet.
Way(k, a) ==
  (IF k.next = "log" /\ k.to = a THEN k.sum ELSE 0) - (IF k.next \in {"plus", "log"} /\ k.from = a THEN k.sum ELSE 0)
Load(k) == IF k.next = "plus" THEN k.sum ELSE 0

Shifted(a) == SumAlong(SetToSeq(Teller), [t \in Teller |-> Way(k_work[t], a)])
Carried == SumAlong(SetToSeq(Teller), [t \in Teller |-> Load(k_work[t])])
Entry == [tr \in Transaction |-> IF tr.from = 0 THEN 0 ELSE 1]
Granted == [a \in {"OK", "FAIL"} |-> IF a = "OK" THEN 1 ELSE 0]
Allowed == Cardinality(Account) * Opening + Added + k_failures * Most

\* While transfers are under way, each balance is what the log says but for what
\* the tellers have moved already.
LedgerInv ==
  /\ CreditTypeOK /\ LedgerOK
  /\ k_failures = 0 => \A a \in Account : k_bal[a] = Opening + Balance(a) + Shifted(a)
  /\ Total + Carried <= Allowed
  /\ LoggedOnce
-----------------------------------------------------------------------------
(* What a step changes.                                                    *)

\* What the transactions in the log and on their way to it bring together.
LEMMA Ledger ==
  ASSUME NEW l \in Seq(Transaction), NEW q \in Seq(Transaction), NEW v \in [Transaction -> Int]
  PROVE  /\ SumAlong(l \o SetToSeq({}) \o q, v) = SumAlong(l, v) + SumAlong(q, v)
         /\ \A tr \in Transaction :
              SumAlong(l \o SetToSeq({tr}) \o q, v) = SumAlong(l, v) + v[tr] + SumAlong(q, v)
         /\ \A tr \in Transaction : v[tr] \in Int
         /\ SumAlong(l, v) \in Int /\ SumAlong(q, v) \in Int
         /\ \A tr \in Transaction : /\ SumAlong(Append(l, tr), v) = SumAlong(l, v) + v[tr]
                                    /\ SumAlong(Append(q, tr), v) = SumAlong(q, v) + v[tr]
         /\ q # <<>> => SumAlong(q, v) = v[Head(q)] + SumAlong(Tail(q), v)
<1>1. SumAlong(l, v) \in Int /\ SumAlong(q, v) \in Int /\ \A tr \in Transaction : v[tr] \in Int
  BY SumsUpto
<1>2. SumAlong(l \o SetToSeq({}) \o q, v) = SumAlong(l, v) + SumAlong(q, v)
  <2>1. l \o <<>> = l
    OBVIOUS
  <2>2. l \o SetToSeq({}) \o q = l \o q
    BY <2>1, OneInSequence
  <2>3. SumAlong(l \o q, v) = SumAlong(l, v) + SumAlong(q, v)
    BY SumsJoin
  <2> QED
    BY <2>2, <2>3
<1>3. ASSUME NEW tr \in Transaction, NEW s \in Seq(Transaction)
      PROVE  /\ SumAlong(s \o <<tr>>, v) = SumAlong(s, v) + v[tr]
             /\ SumAlong(<<tr>> \o s, v) = v[tr] + SumAlong(s, v)
             /\ s \o <<tr>> \in Seq(Transaction) /\ Append(s, tr) = s \o <<tr>>
  <2> DEFINE one == <<tr>>
  <2>1. one \in Seq(Transaction)
    OBVIOUS
  <2>2. SumAlong(one, v) = v[tr]
    BY SumsOfOne
  <2> HIDE DEF one
  <2>3. SumAlong(s \o one, v) = SumAlong(s, v) + SumAlong(one, v) /\ SumAlong(one \o s, v) = SumAlong(one, v) + SumAlong(s, v)
    BY <2>1, SumsJoin
  <2> QED
    BY <2>1, <2>2, <2>3 DEF one
<1>4. ASSUME NEW tr \in Transaction
      PROVE  SumAlong(l \o SetToSeq({tr}) \o q, v) = SumAlong(l, v) + v[tr] + SumAlong(q, v)
  <2>1. l \o SetToSeq({tr}) \o q = (l \o <<tr>>) \o q
    BY OneInSequence
  <2> DEFINE m == l \o <<tr>>
  <2>2. m \in Seq(Transaction) /\ SumAlong(m, v) = SumAlong(l, v) + v[tr]
    BY <1>3
  <2> HIDE DEF m
  <2>3. SumAlong(m \o q, v) = SumAlong(m, v) + SumAlong(q, v)
    BY <2>2, SumsJoin
  <2> QED
    BY <2>1, <2>2, <2>3 DEF m
<1>5. ASSUME q # <<>> PROVE SumAlong(q, v) = v[Head(q)] + SumAlong(Tail(q), v)
  <2>1. q = <<Head(q)>> \o Tail(q) /\ Head(q) \in Transaction /\ Tail(q) \in Seq(Transaction)
    BY <1>5
  <2> QED
    BY <1>3, <2>1
<1> QED
  BY <1>1, <1>2, <1>3, <1>4, <1>5
-----------------------------------------------------------------------------
LEMMA LedgerWith ==
  ASSUME NEW l \in Seq(Transaction), NEW q \in Seq(Transaction), NEW v \in [Transaction -> Int], NEW tr \in Transaction
  PROVE  SumAlong(l \o SetToSeq({tr}) \o q, v) = SumAlong(l, v) + v[tr] + SumAlong(q, v)
BY Ledger

LEMMA Weights ==
  /\ \A a : [tr \in Transaction |-> Brings(tr, a)] \in [Transaction -> Int]
  /\ Entry \in [Transaction -> Int] /\ Granted \in [{"OK", "FAIL"} -> Int]
  /\ \A tr \in Transaction : /\ tr.sum \in 0..Most /\ tr.to # 0 /\ Entry[tr] \in 0..1
                             /\ Brings(tr, 0) = IF tr.from = 0 THEN 0 - tr.sum ELSE 0
<1>1. \A tr \in Transaction : tr.sum \in 0..Most /\ tr.sum \in Int /\ tr.to \in Account
  <2>1. \A tr \in Transaction : tr.sum \in Sums /\ tr.to \in Account
    BY DEF Transaction
  <2>2. \A n \in Sums : n \in 0..Most /\ n \in Int
    BY MostIsMost
  <2> QED
    BY <2>1, <2>2
<1>2. \A tr \in Transaction : \A a : Brings(tr, a) \in Int
  BY <1>1 DEF Brings
<1>3. \A tr \in Transaction : tr.to # 0
  BY <1>1
<1>4. \A tr \in Transaction : Brings(tr, 0) = IF tr.from = 0 THEN 0 - tr.sum ELSE 0
  BY <1>1, <1>3 DEF Brings
<1>5. Entry \in [Transaction -> Int] /\ Granted \in [{"OK", "FAIL"} -> Int] /\ \A tr \in Transaction : Entry[tr] \in 0..1
  BY DEF Entry, Granted
<1> QED
  BY <1>1, <1>2, <1>3, <1>4, <1>5

\* What the transactions bring before and after a step of the log.
LEMMA PushMoves ==
  ASSUME LedgerOK, NEW tr \in Transaction, k_queue' = Append(k_queue, tr), UNCHANGED <<k_log, k_dumping>>
  PROVE  /\ k_queue' \in Seq(Transaction)
         /\ \A v \in [Transaction -> Int] : /\ SumAlong(Accounted, v)' = SumAlong(Accounted, v) + v[tr]
                                            /\ SumAlong(Accounted, v) \in Int /\ v[tr] \in Int
<1>1. k_log \in Seq(Transaction) /\ k_queue \in Seq(Transaction) /\ k_queue' \in Seq(Transaction)
  BY DEF LedgerOK
<1>2. ASSUME NEW v \in [Transaction -> Int]
      PROVE  /\ SumAlong(k_log \o SetToSeq(k_dumping) \o k_queue', v) = SumAlong(Accounted, v) + v[tr]
             /\ SumAlong(Accounted, v) \in Int
  <2>1. SumAlong(k_queue', v) = SumAlong(k_queue, v) + v[tr]
    BY <1>1, Ledger
  <2>2. SumAlong(k_log, v) \in Int /\ SumAlong(k_queue, v) \in Int /\ v[tr] \in Int
    BY <1>1, Ledger
  <2>3. CASE k_dumping = {}
    <3>1. /\ SumAlong(k_log \o SetToSeq({}) \o k_queue', v) = SumAlong(k_log, v) + SumAlong(k_queue', v)
          /\ SumAlong(k_log \o SetToSeq({}) \o k_queue, v) = SumAlong(k_log, v) + SumAlong(k_queue, v)
      BY <1>1, Ledger
    <3> QED
      BY <2>1, <2>2, <2>3, <3>1 DEF Accounted
  <2>4. ASSUME NEW d \in Transaction, k_dumping = {d}
        PROVE  /\ SumAlong(k_log \o SetToSeq(k_dumping) \o k_queue', v) = SumAlong(Accounted, v) + v[tr]
               /\ SumAlong(Accounted, v) \in Int
    <3>1. /\ SumAlong(k_log \o SetToSeq({d}) \o k_queue', v) = SumAlong(k_log, v) + v[d] + SumAlong(k_queue', v)
          /\ SumAlong(k_log \o SetToSeq({d}) \o k_queue, v) = SumAlong(k_log, v) + v[d] + SumAlong(k_queue, v)
      <4>1. SumAlong(k_log \o SetToSeq({d}) \o k_queue', v) = SumAlong(k_log, v) + v[d] + SumAlong(k_queue', v)
        BY <1>1, LedgerWith
      <4>2. SumAlong(k_log \o SetToSeq({d}) \o k_queue, v) = SumAlong(k_log, v) + v[d] + SumAlong(k_queue, v)
        BY <1>1, LedgerWith
      <4> QED
        BY <4>1, <4>2
    <3>2. v[d] \in Int
      BY <2>4
    <3> QED
      BY <2>1, <2>2, <2>4, <3>1, <3>2 DEF Accounted
  <2> QED
    BY <2>3, <2>4 DEF LedgerOK
<1>3. \A v \in [Transaction -> Int] : v[tr] \in Int
  OBVIOUS
<1> QED
  BY <1>1, <1>2, <1>3 DEF Accounted

LEMMA ExtractMoves ==
  ASSUME LedgerOK, extract_transaction
  PROVE  /\ k_queue' \in Seq(Transaction) /\ \E tr \in Transaction : k_dumping' = {tr}
         /\ \A v \in [Transaction -> Int] : SumAlong(Accounted, v)' = SumAlong(Accounted, v)
<1>1. /\ k_log \in Seq(Transaction) /\ k_queue \in Seq(Transaction) /\ k_queue # <<>> /\ k_dumping = {}
      /\ k_queue' = Tail(k_queue) /\ k_dumping' = {Head(k_queue)} /\ k_log' = k_log
  BY DEF LedgerOK, extract_transaction
<1>2. k_queue' \in Seq(Transaction) /\ Head(k_queue) \in Transaction
  BY <1>1
<1>3. ASSUME NEW v \in [Transaction -> Int]
      PROVE  SumAlong(k_log \o SetToSeq(k_dumping') \o k_queue', v) = SumAlong(Accounted, v)
  <2>1. SumAlong(k_log \o SetToSeq({}) \o k_queue, v) = SumAlong(k_log, v) + SumAlong(k_queue, v)
    BY <1>1, Ledger
  <2>2. SumAlong(k_log \o SetToSeq({Head(k_queue)}) \o k_queue', v) = SumAlong(k_log, v) + v[Head(k_queue)] + SumAlong(k_queue', v)
    <3>1. ASSUME NEW h \in Transaction, NEW q \in Seq(Transaction)
          PROVE  SumAlong(k_log \o SetToSeq({h}) \o q, v) = SumAlong(k_log, v) + v[h] + SumAlong(q, v)
      BY <1>1, Ledger
    <3> QED
      BY <1>2, <3>1
  <2>3. SumAlong(k_queue, v) = v[Head(k_queue)] + SumAlong(k_queue', v)
    BY <1>1, <1>2, Ledger
  <2>4. SumAlong(k_log, v) \in Int /\ SumAlong(k_queue', v) \in Int /\ v[Head(k_queue)] \in Int
    BY <1>1, <1>2, Ledger
  <2> QED
    BY <1>1, <2>1, <2>2, <2>3, <2>4 DEF Accounted
<1> QED
  BY <1>1, <1>2, <1>3 DEF Accounted

\* An insert that fails loses the transaction.
LEMMA InsertMoves ==
  ASSUME LedgerOK, NEW tr \in Transaction, k_dumping = {tr}, k_dumping' = {}, k_queue' = k_queue,
         NEW lost \in BOOLEAN, k_log' = IF lost THEN k_log ELSE Append(k_log, tr)
  PROVE  /\ k_log' \in Seq(Transaction)
         /\ \A v \in [Transaction -> Int] :
              /\ SumAlong(Accounted, v)' = SumAlong(Accounted, v) - (IF lost THEN v[tr] ELSE 0)
              /\ SumAlong(Accounted, v) \in Int /\ v[tr] \in Int
<1>1. k_log \in Seq(Transaction) /\ k_queue \in Seq(Transaction) /\ k_log' \in Seq(Transaction)
  BY DEF LedgerOK
<1>2. ASSUME NEW v \in [Transaction -> Int]
      PROVE  /\ SumAlong(k_log' \o SetToSeq({}) \o k_queue, v) = SumAlong(Accounted, v) - (IF lost THEN v[tr] ELSE 0)
             /\ SumAlong(Accounted, v) \in Int /\ v[tr] \in Int
  <2>1. SumAlong(k_log \o SetToSeq({tr}) \o k_queue, v) = SumAlong(k_log, v) + v[tr] + SumAlong(k_queue, v)
    BY <1>1, Ledger
  <2>2. SumAlong(k_log' \o SetToSeq({}) \o k_queue, v) = SumAlong(k_log', v) + SumAlong(k_queue, v)
    BY <1>1, Ledger
  <2>3. SumAlong(Append(k_log, tr), v) = SumAlong(k_log, v) + v[tr]
    BY <1>1, Ledger
  <2>4. SumAlong(k_log', v) = SumAlong(k_log, v) + (IF lost THEN 0 ELSE v[tr])
    <3>1. CASE lost
      BY <1>1, <3>1, Ledger
    <3>2. CASE ~ lost
      BY <2>3, <3>2
    <3> QED
      BY <3>1, <3>2
  <2>5. SumAlong(k_log, v) \in Int /\ SumAlong(k_queue, v) \in Int /\ v[tr] \in Int
    BY <1>1, Ledger
  <2> QED
    BY <2>1, <2>2, <2>4, <2>5 DEF Accounted
<1> QED
  BY <1>1, <1>2 DEF Accounted

LEMMA AnswersGrow ==
  ASSUME LedgerOK, NEW a \in {"OK", "FAIL"}, k_answers' = Append(k_answers, a)
  PROVE  /\ k_answers' \in Seq({"OK", "FAIL"})
         /\ SumAlong(k_answers', Granted) = SumAlong(k_answers, Granted) + (IF a = "OK" THEN 1 ELSE 0)
         /\ SumAlong(k_answers, Granted) \in Int
<1>1. k_answers \in Seq({"OK", "FAIL"}) /\ k_answers' = k_answers \o <<a>> /\ <<a>> \in Seq({"OK", "FAIL"})
  BY DEF LedgerOK
<1>2. Granted \in [{"OK", "FAIL"} -> Int] /\ Granted[a] = IF a = "OK" THEN 1 ELSE 0
  BY DEF Granted
<1>3. SumAlong(<<a>>, Granted) = Granted[a]
  BY <1>2, SumsOfOne
<1>4. SumAlong(k_answers \o <<a>>, Granted) = SumAlong(k_answers, Granted) + SumAlong(<<a>>, Granted)
  <2> DEFINE one == <<a>>
  <2>1. one \in Seq({"OK", "FAIL"})
    BY <1>1
  <2> HIDE DEF one
  <2> QED
    BY <1>1, <1>2, <2>1, SumsJoin DEF one
<1>5. SumAlong(k_answers, Granted) \in Int
  BY <1>1, <1>2, SumsUpto
<1> QED
  BY <1>1, <1>2, <1>3, <1>4, <1>5

LEMMA LoadType ==
  ASSUME NEW k \in Work
  PROVE  Load(k) \in Nat /\ \A a : Way(k, a) \in Int
<1>1. CASE k.next = "idle"
  BY <1>1 DEF Load, Way
<1>2. CASE k.next # "idle"
  <2>1. k.sum \in Nat
    BY <1>2, Busy
  <2> QED
    BY <2>1 DEF Load, Way
<1> QED
  BY <1>1, <1>2

\* A teller goes on, and what it has moved changes.
LEMMA TellerMoves ==
  ASSUME CreditTypeOK, NEW t \in Teller, NEW w \in Work, k_work' = [k_work EXCEPT ![t] = w]
  PROVE  /\ k_work' \in [Teller -> Work]
         /\ Carried' = Carried + (Load(w) - Load(k_work[t])) /\ Carried \in Int
         /\ \A a : Shifted(a)' = Shifted(a) + (Way(w, a) - Way(k_work[t], a)) /\ Shifted(a) \in Int
<1>1. /\ k_work \in [Teller -> Work] /\ k_work' \in [Teller -> Work] /\ k_work'[t] = w
      /\ \A x \in Teller : x # t => k_work'[x] = k_work[x]
  BY DEF CreditTypeOK
<1>2. \A k \in Work : Load(k) \in Int /\ \A a : Way(k, a) \in Int
  BY LoadType
<1>3. Carried' = Carried + (Load(w) - Load(k_work[t])) /\ Carried \in Int
  <2> DEFINE v == [x \in Teller |-> Load(k_work[x])]
             u == [x \in Teller |-> Load(k_work'[x])]
  <2>1. v \in [Teller -> Int] /\ u \in [Teller -> Int] /\ v[t] = Load(k_work[t]) /\ u[t] = Load(w)
        /\ \A x \in Teller : x # t => u[x] = v[x]
    BY <1>1, <1>2
  <2> HIDE DEF v, u
  <2>2. SumAlong(SetToSeq(Teller), u) = SumAlong(SetToSeq(Teller), v) + (u[t] - v[t])
        /\ SumAlong(SetToSeq(Teller), v) \in Int
    BY <2>1, OneChanges
  <2> QED
    BY <2>1, <2>2 DEF Carried, v, u
<1>4. ASSUME NEW a
      PROVE  Shifted(a)' = Shifted(a) + (Way(w, a) - Way(k_work[t], a)) /\ Shifted(a) \in Int
  <2> DEFINE v == [x \in Teller |-> Way(k_work[x], a)]
             u == [x \in Teller |-> Way(k_work'[x], a)]
  <2>1. v \in [Teller -> Int] /\ u \in [Teller -> Int] /\ v[t] = Way(k_work[t], a) /\ u[t] = Way(w, a)
        /\ \A x \in Teller : x # t => u[x] = v[x]
    BY <1>1, <1>2
  <2> HIDE DEF v, u
  <2>2. SumAlong(SetToSeq(Teller), u) = SumAlong(SetToSeq(Teller), v) + (u[t] - v[t])
        /\ SumAlong(SetToSeq(Teller), v) \in Int
    BY <2>1, OneChanges
  <2> QED
    BY <2>1, <2>2 DEF Shifted, v, u
<1> QED
  BY <1>1, <1>3, <1>4

LEMMA TotalChanges ==
  ASSUME NEW v \in [Account -> Int], NEW u \in [Account -> Int],
         NEW a \in Account, \A b \in Account : b # a => u[b] = v[b]
  PROVE  /\ SumAlong(SetToSeq(Account), u) = SumAlong(SetToSeq(Account), v) + (u[a] - v[a])
         /\ SumAlong(SetToSeq(Account), v) \in Int
BY OneChanges

LEMMA TotalMoves ==
  ASSUME k_bal \in [Account -> Int], NEW a \in Account, NEW d \in Int, k_bal' = [k_bal EXCEPT ![a] = @ + d]
  PROVE  /\ k_bal' \in [Account -> Int] /\ Total \in Int /\ Total' = Total + d
         /\ \A b \in Account : k_bal'[b] = IF b = a THEN k_bal[b] + d ELSE k_bal[b]
<1>1. k_bal' \in [Account -> Int] /\ \A b \in Account : k_bal'[b] = IF b = a THEN k_bal[b] + d ELSE k_bal[b]
  <2>1. k_bal[a] + d \in Int
    OBVIOUS
  <2> QED
    BY <2>1
<1>2. k_bal[a] \in Int /\ k_bal'[a] - k_bal[a] = d
  <2>1. k_bal'[a] = k_bal[a] + d /\ k_bal[a] \in Int
    BY <1>1
  <2> QED
    BY <2>1
<1>3. IsFiniteSet(Account) /\ \A b \in Account : b # a => k_bal'[b] = k_bal[b]
  BY <1>1
<1>4. SumAlong(SetToSeq(Account), k_bal') = SumAlong(SetToSeq(Account), k_bal) + (k_bal'[a] - k_bal[a])
      /\ SumAlong(SetToSeq(Account), k_bal) \in Int
  BY <1>1, <1>3, TotalChanges
<1> QED
  BY <1>1, <1>2, <1>4 DEF Total
-----------------------------------------------------------------------------
(* The steps.                                                              *)

LEMMA Numbers ==
  ASSUME CreditTypeOK, LedgerOK
  PROVE  /\ Total \in Int /\ Carried \in Int /\ Carried >= 0
         /\ \A a : Balance(a) \in Int /\ Shifted(a) \in Int
         /\ Cardinality(Account) * Opening \in Int /\ k_failures * Most \in Int
         /\ (k_failures + 1) * Most = k_failures * Most + Most
         /\ SumAlong(Accounted, Entry) \in Int /\ SumAlong(k_answers, Granted) \in Int
<1>1. Most \in Nat /\ Cardinality(Account) \in Nat /\ Opening \in Nat /\ k_failures \in Nat
  BY MostIsMost, FS_CardinalityType DEF LedgerOK
<1>2. Cardinality(Account) * Opening \in Int /\ k_failures * Most \in Int /\ (k_failures + 1) * Most = k_failures * Most + Most
  <2>1. \A m, n \in Nat : m * n \in Int /\ (m + 1) * n = m * n + n
    OBVIOUS
  <2> QED
    BY <1>1, <2>1
<1>3. k_bal \in [Account -> Int] /\ k_work \in [Teller -> Work]
  BY DEF CreditTypeOK
<1>4. SetToSeq(Account) \in Seq(Account) /\ SetToSeq(Teller) \in Seq(Teller)
  BY Enumerated
<1>5. Total \in Int
  BY <1>3, <1>4, SumsUpto DEF Total
<1>6. \A k \in Work : Load(k) \in Nat /\ \A a : Way(k, a) \in Int
  BY LoadType
<1>7. Carried \in Int /\ Carried >= 0
  <2> DEFINE v == [t \in Teller |-> Load(k_work[t])]
             z == [t \in Teller |-> 0]
             e == SetToSeq(Teller)
  <2>1. v \in [Teller -> Int] /\ \A t \in Teller : v[t] >= 0
    BY <1>3, <1>6
  <2>2. z \in [Teller -> Int] /\ \A t \in Teller : z[t] = 0
    OBVIOUS
  <2>3. e \in Seq(Teller) /\ Len(e) \in Nat
    BY <1>4
  <2> HIDE DEF v, z, e
  <2>4. SumAlong(e, z) = Len(e) * 0
    BY <2>2, <2>3, SumsOfSame
  <2>5. \A i \in 1..Len(e) : e[i] \in Teller
    BY <2>3
  <2>6. \A i \in 1..Len(e) : z[e[i]] <= v[e[i]]
    BY <2>1, <2>2, <2>5
  <2>7. SumAlong(e, z) <= SumAlong(e, v)
    BY <2>1, <2>2, <2>3, <2>6, SumsCompare
  <2>8. SumAlong(e, v) \in Int
    BY <2>1, <2>3, SumsUpto
  <2>9. Len(e) * 0 = 0
    BY <2>3
  <2> QED
    BY <2>4, <2>7, <2>8, <2>9 DEF Carried, v, e
<1>8. ASSUME NEW a PROVE Shifted(a) \in Int
  <2> DEFINE v == [t \in Teller |-> Way(k_work[t], a)]
  <2>1. v \in [Teller -> Int]
    BY <1>3, <1>6
  <2> HIDE DEF v
  <2> QED
    BY <1>4, <2>1, SumsUpto DEF Shifted, v
<1>9. Accounted \in Seq(Transaction)
  <2>1. k_log \in Seq(Transaction) /\ k_queue \in Seq(Transaction)
    BY DEF LedgerOK
  <2>2. SetToSeq(k_dumping) \in Seq(Transaction)
    <3>1. <<>> \in Seq(Transaction) /\ \A tr \in Transaction : <<tr>> \in Seq(Transaction)
      OBVIOUS
    <3>2. CASE k_dumping = {}
      BY <3>1, <3>2, OneInSequence
    <3>3. ASSUME NEW tr \in Transaction, k_dumping = {tr} PROVE SetToSeq(k_dumping) \in Seq(Transaction)
      <4>1. SetToSeq({tr}) = <<tr>>
        BY OneInSequence
      <4> QED
        BY <3>1, <3>3, <4>1
    <3> QED
      BY <3>2, <3>3 DEF LedgerOK
  <2> DEFINE d == SetToSeq(k_dumping)
  <2> HIDE DEF d
  <2> QED
    BY <2>1, <2>2 DEF Accounted, d
<1>10. ASSUME NEW v \in [Transaction -> Int] PROVE SumAlong(Accounted, v) \in Int
  BY <1>9, SumsUpto
<1>11. \A a : Balance(a) \in Int
  BY <1>10, Weights DEF Balance
<1>12. SumAlong(k_answers, Granted) \in Int
  BY Weights, SumsUpto DEF LedgerOK
<1> QED
  BY <1>2, <1>5, <1>7, <1>8, <1>10, <1>11, <1>12, Weights

\* A command, or the look at the balance: nothing is moved, and no answer says OK.
LEMMA QuietTeller ==
  ASSUME LedgerInv, NEW t \in Teller, NEW w \in Work, k_work' = [k_work EXCEPT ![t] = w],
         Load(w) = Load(k_work[t]), \A a : Way(w, a) = Way(k_work[t], a),
         k_answers' = k_answers \/ k_answers' = Append(k_answers, "FAIL"),
         UNCHANGED <<k_bal, k_queue, k_dumping, k_log, k_failures>>
  PROVE  LedgerInv'
<1>1. CreditTypeOK /\ LedgerOK
  BY DEF LedgerInv
<1>2. Load(k_work[t]) \in Int /\ \A a : Way(k_work[t], a) \in Int
  <2>1. k_work[t] \in Work
    BY <1>1 DEF CreditTypeOK
  <2> QED
    BY <2>1, LoadType
<1>3. k_work' \in [Teller -> Work] /\ Carried' = Carried /\ \A a : Shifted(a)' = Shifted(a)
  <2>1. /\ k_work' \in [Teller -> Work]
        /\ Carried' = Carried + (Load(w) - Load(k_work[t])) /\ Carried \in Int
        /\ \A a : Shifted(a)' = Shifted(a) + (Way(w, a) - Way(k_work[t], a)) /\ Shifted(a) \in Int
    BY <1>1, TellerMoves
  <2>2. \A m, n \in Int : m + (n - n) = m
    OBVIOUS
  <2>3. Carried' = Carried
    BY <1>2, <2>1, <2>2
  <2>4. ASSUME NEW a PROVE Shifted(a)' = Shifted(a)
    <3>1. Shifted(a)' = Shifted(a) + (Way(k_work[t], a) - Way(k_work[t], a)) /\ Shifted(a) \in Int
      BY <2>1
    <3> QED
      BY <1>2, <2>2, <3>1
  <2> QED
    BY <2>1, <2>3, <2>4
<1>4. /\ k_answers' \in Seq({"OK", "FAIL"})
      /\ SumAlong(k_answers', Granted) = SumAlong(k_answers, Granted)
  <2>1. CASE k_answers' = k_answers
    BY <1>1, <2>1 DEF LedgerOK
  <2>2. CASE k_answers' = Append(k_answers, "FAIL")
    BY <1>1, <2>2, AnswersGrow
  <2> QED
    BY <2>1, <2>2
<1>5. Accounted' = Accounted /\ Total' = Total /\ k_failures' = k_failures /\ k_bal' = k_bal
  BY DEF Accounted, Total
<1>6. (\A a : Balance(a)' = Balance(a)) /\ Added' = Added /\ Allowed' = Allowed
  BY <1>5 DEF Balance, Added, Allowed
<1>7. CreditTypeOK' /\ LedgerOK'
  BY <1>1, <1>3, <1>4 DEF CreditTypeOK, LedgerOK
<1>8. LoggedOnce'
  BY <1>4, <1>5 DEF LedgerInv, LoggedOnce, Entry, Granted
<1> QED
  BY <1>3, <1>5, <1>6, <1>7, <1>8 DEF LedgerInv

\* What a teller is doing decides what it has moved.
LEMMA Moved ==
  ASSUME NEW k \in Work
  PROVE  /\ k.next \in {"idle", "check", "minus"} => Load(k) = 0 /\ \A a : Way(k, a) = 0
         /\ k.next = "plus" => Load(k) = k.sum /\ \A a : Way(k, a) = IF k.from = a THEN 0 - k.sum ELSE 0
         /\ k.next = "log" => Load(k) = 0 /\ \A a : Way(k, a) = (IF k.to = a THEN k.sum ELSE 0) - (IF k.from = a THEN k.sum ELSE 0)
<1>1. CASE k.next = "idle"
  BY <1>1 DEF Load, Way
<1>2. CASE k.next # "idle"
  <2>1. k.sum \in Int
    BY <1>2, Busy
  <2> QED
    BY <2>1 DEF Load, Way
<1> QED
  BY <1>1, <1>2

LEMMA IdleMoved == Idle \in Work /\ Load(Idle) = 0 /\ \A a : Way(Idle, a) = 0
BY DEF Idle, Work, Load, Way

LEMMA CommandLedger ==
  ASSUME LedgerInv, NEW t \in Teller, NEW a \in Account, NEW sum \in Sums, NEW takes \in BOOLEAN, command(t, a, sum, takes)
  PROVE  LedgerInv'
<1>1. k_work[t] \in Work /\ k_work[t].next = "idle" /\ k_work \in [Teller -> Work]
  BY DEF LedgerInv, CreditTypeOK, command, Going
<1>2. Load(k_work[t]) = 0 /\ \A b : Way(k_work[t], b) = 0
  BY <1>1, Moved
<1>3. UNCHANGED <<k_bal, k_queue, k_dumping, k_log, k_failures>>
  BY DEF command
<1>4. CASE sum = 0 \/ a = BotOf[t]
  <2>1. k_answers' = Append(k_answers, "FAIL") /\ k_work' = k_work
    BY <1>4 DEF command, Answer
  <2>2. k_work' = [k_work EXCEPT ![t] = k_work[t]]
    BY <1>1, <2>1
  <2> QED
    BY <1>1, <1>3, <2>1, <2>2, QuietTeller
<1>5. CASE ~ (sum = 0 \/ a = BotOf[t])
  <2> DEFINE tr == IF takes THEN [from |-> a, to |-> BotOf[t], sum |-> sum] ELSE [from |-> BotOf[t], to |-> a, sum |-> sum]
             w == [from |-> tr.from, to |-> tr.to, sum |-> tr.sum, next |-> "check", have |-> 0]
  <2>1. k_answers' = k_answers /\ k_work' = [k_work EXCEPT ![t] = w]
    BY <1>5 DEF command
  <2>2. tr.from \in Account /\ tr.to \in Account /\ tr.sum \in Sums
    OBVIOUS
  <2>3. w \in Work /\ w.next = "check"
    BY <2>2 DEF Work
  <2> HIDE DEF w
  <2>4. Load(w) = 0 /\ \A b : Way(w, b) = 0
    BY <2>3, Moved
  <2> QED
    BY <1>2, <1>3, <2>1, <2>3, <2>4, QuietTeller
<1> QED
  BY <1>4, <1>5

LEMMA CheckLedger ==
  ASSUME LedgerInv, NEW t \in Teller, check_summa(t)
  PROVE  LedgerInv'
<1>1. k_work[t] \in Work /\ k_work[t].next = "check" /\ k_work \in [Teller -> Work] /\ k_bal \in [Account -> Int]
  BY DEF LedgerInv, CreditTypeOK, check_summa, Going
<1>2. Load(k_work[t]) = 0 /\ \A b : Way(k_work[t], b) = 0
  BY <1>1, Moved
<1>3. UNCHANGED <<k_bal, k_queue, k_dumping, k_log, k_failures>>
  BY DEF check_summa
<1>4. CASE Affords(t)
  <2> DEFINE k == k_work[t]
             w == [from |-> k.from, to |-> k.to, sum |-> k.sum, next |-> "minus", have |-> k_bal[k.from]]
  <2>1. k.from \in Account /\ k.to \in Account /\ k.sum \in Sums /\ k_bal[k.from] \in Int
    BY <1>1, Busy
  <2>2. [k EXCEPT !.next = "minus", !.have = k_bal[k.from]] = w
    <3>1. k \in Work /\ k.next # "idle"
      BY <1>1
    <3> HIDE DEF k
    <3> QED
      BY <2>1, <3>1, ToMinus
  <2>3. w \in Work /\ w.next = "minus"
    BY <2>1 DEF Work
  <2>4. k_answers' = k_answers /\ k_work' = [k_work EXCEPT ![t] = w]
    <3>1. k_answers' = k_answers /\ k_work' = [k_work EXCEPT ![t] = [k EXCEPT !.next = "minus", !.have = k_bal[k.from]]]
      BY <1>1, <1>4 DEF check_summa
    <3> QED
      BY <2>2, <3>1
  <2> HIDE DEF w
  <2>5. Load(w) = 0 /\ \A b : Way(w, b) = 0
    BY <2>3, Moved
  <2> QED
    BY <1>2, <1>3, <2>3, <2>4, <2>5, QuietTeller
<1>5. CASE ~ Affords(t)
  <2>1. k_answers' = Append(k_answers, "FAIL") /\ k_work' = [k_work EXCEPT ![t] = Idle]
    BY <1>5 DEF check_summa, Answer
  <2> QED
    BY <1>2, <1>3, <2>1, IdleMoved, QuietTeller
<1> QED
  BY <1>4, <1>5

\* The teller's record once its next query is another.
LEMMA TellerGoesOn ==
  ASSUME CreditTypeOK, NEW t \in Teller, k_work[t].next # "idle", NEW q \in {"check", "minus", "plus", "log"}, GoOn(t, q)
  PROVE  \E w \in Work : /\ k_work' = [k_work EXCEPT ![t] = w] /\ w.next = q
                         /\ w.from = k_work[t].from /\ w.to = k_work[t].to /\ w.sum = k_work[t].sum
<1> DEFINE w == [k_work[t] EXCEPT !.next = q]
<1>1. k_work \in [Teller -> Work] /\ k_work[t] \in Work
  BY DEF CreditTypeOK
<1>2. /\ k_work[t].from \in Account /\ k_work[t].to \in Account /\ k_work[t].sum \in Sums /\ k_work[t].have \in Int
      /\ k_work[t] = [from |-> k_work[t].from, to |-> k_work[t].to, sum |-> k_work[t].sum,
                      next |-> k_work[t].next, have |-> k_work[t].have]
  BY <1>1, Busy
<1>3. w = [from |-> k_work[t].from, to |-> k_work[t].to, sum |-> k_work[t].sum, next |-> q, have |-> k_work[t].have]
  BY <1>2
<1>4. k_work' = [k_work EXCEPT ![t] = w]
  BY <1>1 DEF GoOn
<1> HIDE DEF w
<1>5. w \in Work
  BY <1>2, <1>3 DEF Work
<1> QED
  BY <1>3, <1>4, <1>5

LEMMA TakeLedger ==
  ASSUME LedgerInv, NEW t \in Teller, take_from(t)
  PROVE  LedgerInv'
<1>1. CreditTypeOK /\ LedgerOK /\ k_work[t] \in Work /\ k_work[t].next = "minus" /\ k_bal \in [Account -> Int]
  BY DEF LedgerInv, CreditTypeOK, take_from, Going
<1>2. PICK w \in Work : /\ k_work' = [k_work EXCEPT ![t] = w] /\ w.next = "plus"
                        /\ w.from = k_work[t].from /\ w.to = k_work[t].to /\ w.sum = k_work[t].sum
  BY <1>1, TellerGoesOn DEF take_from
<1>3. w.from \in Account /\ w.sum \in Sums /\ w.sum \in Int
  BY <1>2, Busy
<1>4. UNCHANGED <<k_queue, k_dumping, k_log, k_answers, k_failures>>
  BY DEF take_from
<1>5. Load(k_work[t]) = 0 /\ (\A a : Way(k_work[t], a) = 0) /\ Load(w) = w.sum
      /\ \A a : Way(w, a) = IF w.from = a THEN 0 - w.sum ELSE 0
  BY <1>1, <1>2, Moved
<1> DEFINE less == 0 - w.sum
<1>6. less \in Int /\ less = 0 - w.sum
  BY <1>3
<1> HIDE DEF less
<1>7. k_bal' = [k_bal EXCEPT ![w.from] = @ + less]
  <2>1. k_bal' = [k_bal EXCEPT ![w.from] = k_bal[w.from] - w.sum]
    BY <1>2 DEF take_from, Updates, Minus
  <2>2. k_bal[w.from] - w.sum = k_bal[w.from] + less
    BY <1>1, <1>3, <1>6
  <2> QED
    BY <2>1, <2>2
<1>8. /\ k_bal' \in [Account -> Int] /\ Total' = Total + less
      /\ \A b \in Account : k_bal'[b] = IF b = w.from THEN k_bal[b] + less ELSE k_bal[b]
  BY <1>1, <1>3, <1>6, <1>7, TotalMoves
<1>9. /\ k_work' \in [Teller -> Work]
      /\ Carried' = Carried + (Load(w) - Load(k_work[t]))
      /\ \A a : Shifted(a)' = Shifted(a) + (Way(w, a) - Way(k_work[t], a))
  BY <1>1, <1>2, TellerMoves
<1>10. /\ Total \in Int /\ Carried \in Int /\ \A a : Balance(a) \in Int /\ Shifted(a) \in Int
  BY <1>1, Numbers
<1>11. Accounted' = Accounted /\ (\A a : Balance(a)' = Balance(a)) /\ Added' = Added /\ Allowed' = Allowed
  BY <1>4 DEF Accounted, Balance, Added, Allowed
<1>12. Total' + Carried' = Total + Carried
  BY <1>3, <1>5, <1>6, <1>8, <1>9, <1>10
<1>13. ASSUME k_failures' = 0, NEW a \in Account
       PROVE  k_bal'[a] = Opening + Balance(a)' + Shifted(a)'
  <2>1. k_bal[a] = Opening + Balance(a) + Shifted(a)
    BY <1>4, <1>13 DEF LedgerInv
  <2>2. Shifted(a)' = Shifted(a) + (IF w.from = a THEN less ELSE 0)
    BY <1>3, <1>5, <1>6, <1>9, <1>10
  <2>3. k_bal'[a] = k_bal[a] + (IF w.from = a THEN less ELSE 0)
    BY <1>1, <1>8
  <2>4. Opening \in Int /\ Balance(a) \in Int /\ Shifted(a) \in Int /\ Balance(a)' = Balance(a)
    BY <1>10, <1>11
  <2> QED
    BY <1>6, <2>1, <2>2, <2>3, <2>4
<1>14. CreditTypeOK' /\ LedgerOK' /\ LoggedOnce'
  BY <1>1, <1>4, <1>8, <1>9, <1>11 DEF CreditTypeOK, LedgerOK, LoggedOnce, LedgerInv
<1> QED
  BY <1>11, <1>12, <1>13, <1>14 DEF LedgerInv

LEMMA GiveLedger ==
  ASSUME LedgerInv, NEW t \in Teller, give_to(t)
  PROVE  LedgerInv'
<1>1. CreditTypeOK /\ LedgerOK /\ k_work[t] \in Work /\ k_work[t].next = "plus" /\ k_bal \in [Account -> Int]
  BY DEF LedgerInv, CreditTypeOK, give_to, Going
<1>2. PICK w \in Work : /\ k_work' = [k_work EXCEPT ![t] = w] /\ w.next = "log"
                        /\ w.from = k_work[t].from /\ w.to = k_work[t].to /\ w.sum = k_work[t].sum
  BY <1>1, TellerGoesOn DEF give_to
<1>3. w.to \in Account /\ w.sum \in Sums /\ w.sum \in Int
  BY <1>2, Busy
<1>4. UNCHANGED <<k_queue, k_dumping, k_log, k_answers, k_failures>>
  BY DEF give_to
<1>5. /\ Load(k_work[t]) = w.sum /\ (\A a : Way(k_work[t], a) = IF w.from = a THEN 0 - w.sum ELSE 0)
      /\ Load(w) = 0 /\ \A a : Way(w, a) = (IF w.to = a THEN w.sum ELSE 0) - (IF w.from = a THEN w.sum ELSE 0)
  BY <1>1, <1>2, Moved
<1>6. k_bal' = [k_bal EXCEPT ![w.to] = @ + w.sum]
  BY <1>2 DEF give_to, Updates, Plus
<1>7. /\ k_bal' \in [Account -> Int] /\ Total' = Total + w.sum
      /\ \A b \in Account : k_bal'[b] = IF b = w.to THEN k_bal[b] + w.sum ELSE k_bal[b]
  BY <1>1, <1>3, <1>6, TotalMoves
<1>8. /\ k_work' \in [Teller -> Work]
      /\ Carried' = Carried + (Load(w) - Load(k_work[t]))
      /\ \A a : Shifted(a)' = Shifted(a) + (Way(w, a) - Way(k_work[t], a))
  BY <1>1, <1>2, TellerMoves
<1>9. /\ Total \in Int /\ Carried \in Int /\ \A a : Balance(a) \in Int /\ Shifted(a) \in Int
  BY <1>1, Numbers
<1>10. Accounted' = Accounted /\ (\A a : Balance(a)' = Balance(a)) /\ Added' = Added /\ Allowed' = Allowed
  BY <1>4 DEF Accounted, Balance, Added, Allowed
<1>11. Total' + Carried' = Total + Carried
  BY <1>3, <1>5, <1>7, <1>8, <1>9
<1>12. ASSUME k_failures' = 0, NEW a \in Account
       PROVE  k_bal'[a] = Opening + Balance(a)' + Shifted(a)'
  <2>1. k_bal[a] = Opening + Balance(a) + Shifted(a)
    BY <1>4, <1>12 DEF LedgerInv
  <2>2. Way(w, a) - Way(k_work[t], a) = IF w.to = a THEN w.sum ELSE 0
    <3>1. /\ Way(k_work[t], a) = IF w.from = a THEN 0 - w.sum ELSE 0
          /\ Way(w, a) = (IF w.to = a THEN w.sum ELSE 0) - (IF w.from = a THEN w.sum ELSE 0)
      BY <1>5
    <3> QED
      BY <1>3, <3>1
  <2>3. Shifted(a)' = Shifted(a) + (IF w.to = a THEN w.sum ELSE 0)
    BY <1>8, <2>2
  <2>4. k_bal'[a] = k_bal[a] + (IF w.to = a THEN w.sum ELSE 0)
    BY <1>1, <1>3, <1>7
  <2>5. Opening \in Int /\ Balance(a) \in Int /\ Shifted(a) \in Int /\ Balance(a)' = Balance(a)
    BY <1>9, <1>10
  <2> QED
    BY <1>3, <2>1, <2>3, <2>4, <2>5
<1>13. CreditTypeOK' /\ LedgerOK' /\ LoggedOnce'
  BY <1>1, <1>4, <1>7, <1>8, <1>10 DEF CreditTypeOK, LedgerOK, LoggedOnce, LedgerInv
<1> QED
  BY <1>10, <1>11, <1>12, <1>13 DEF LedgerInv

\* Two sums over what a step brings: Added, and what an account has.
LEMMA AddedMoves ==
  ASSUME LedgerOK, NEW tr \in Transaction, k_queue' = Append(k_queue, tr), UNCHANGED <<k_log, k_dumping>>
  PROVE  /\ k_queue' \in Seq(Transaction)
         /\ \A a : Balance(a)' = Balance(a) + Brings(tr, a) /\ Brings(tr, a) \in Int
         /\ Added' = Added + (IF tr.from = 0 THEN tr.sum ELSE 0)
         /\ SumAlong(Accounted, Entry)' = SumAlong(Accounted, Entry) + (IF tr.from = 0 THEN 0 ELSE 1)
<1>1. ASSUME NEW a PROVE Balance(a)' = Balance(a) + Brings(tr, a) /\ Brings(tr, a) \in Int /\ Balance(a) \in Int
  <2> DEFINE v == [x \in Transaction |-> Brings(x, a)]
  <2>1. v \in [Transaction -> Int] /\ v[tr] = Brings(tr, a)
    BY Weights
  <2> HIDE DEF v
  <2>2. SumAlong(Accounted, v)' = SumAlong(Accounted, v) + v[tr] /\ SumAlong(Accounted, v) \in Int /\ v[tr] \in Int
    BY <2>1, PushMoves
  <2> QED
    BY <2>1, <2>2 DEF Balance, v
<1>2. Added' = Added + (IF tr.from = 0 THEN tr.sum ELSE 0)
  <2>1. Balance(0)' = Balance(0) + Brings(tr, 0) /\ Balance(0) \in Int
    BY <1>1
  <2>2. tr.sum \in Int /\ Brings(tr, 0) = IF tr.from = 0 THEN 0 - tr.sum ELSE 0
    BY Weights, MostIsMost
  <2> QED
    BY <2>1, <2>2 DEF Added
<1>3. SumAlong(Accounted, Entry)' = SumAlong(Accounted, Entry) + (IF tr.from = 0 THEN 0 ELSE 1)
  <2>1. Entry' = Entry /\ Entry[tr] = IF tr.from = 0 THEN 0 ELSE 1
    BY DEF Entry
  <2>2. Entry \in [Transaction -> Int]
    BY Weights
  <2>3. SumAlong(Accounted, Entry)' = SumAlong(Accounted, Entry) + Entry[tr]
    BY <2>2, PushMoves
  <2> QED
    BY <2>1, <2>3
<1> QED
  BY <1>1, <1>2, <1>3, PushMoves

LEMMA LogLedger ==
  ASSUME LedgerInv, NEW t \in Teller, log_move(t)
  PROVE  LedgerInv'
<1> DEFINE k == k_work[t]
           tr == [from |-> k.from, to |-> k.to, sum |-> k.sum]
<1>1. CreditTypeOK /\ LedgerOK /\ k \in Work /\ k.next = "log" /\ k_bal \in [Account -> Int]
  BY DEF LedgerInv, CreditTypeOK, log_move, Going
<1>2. k.from \in Account /\ k.to \in Account /\ k.sum \in Sums /\ k.sum \in Int
  <2> HIDE DEF k
  <2> QED
    BY <1>1, Busy
<1>3. /\ k_queue' = Append(k_queue, tr) /\ k_work' = [k_work EXCEPT ![t] = Idle] /\ k_answers' = Append(k_answers, "OK")
      /\ UNCHANGED <<k_bal, k_dumping, k_log, k_failures>>
  BY DEF log_move, Push, Answer
<1>4. Load(k) = 0 /\ \A a : Way(k, a) = (IF k.to = a THEN k.sum ELSE 0) - (IF k.from = a THEN k.sum ELSE 0)
  <2> HIDE DEF k
  <2> QED
    BY <1>1, Moved
<1>5. tr \in Transaction /\ tr.from # 0 /\ tr.sum = k.sum
  BY <1>2 DEF Transaction
<1>6. \A a : Brings(tr, a) = Way(k, a)
  BY <1>4 DEF Brings
<1> HIDE DEF tr
<1>7. /\ k_queue' \in Seq(Transaction)
      /\ \A a : Balance(a)' = Balance(a) + Brings(tr, a) /\ Brings(tr, a) \in Int
      /\ Added' = Added + 0
      /\ SumAlong(Accounted, Entry)' = SumAlong(Accounted, Entry) + 1
  BY <1>1, <1>3, <1>5, AddedMoves
<1>8. /\ k_answers' \in Seq({"OK", "FAIL"})
      /\ SumAlong(k_answers', Granted) = SumAlong(k_answers, Granted) + 1
  BY <1>1, <1>3, AnswersGrow
<1>9. /\ k_work' \in [Teller -> Work]
      /\ Carried' = Carried + (Load(Idle) - Load(k))
      /\ \A a : Shifted(a)' = Shifted(a) + (Way(Idle, a) - Way(k, a))
  BY <1>1, <1>3, IdleMoved, TellerMoves
<1> HIDE DEF k
<1>10. /\ Total \in Int /\ Carried \in Int /\ \A a : Balance(a) \in Int /\ Shifted(a) \in Int
       /\ SumAlong(Accounted, Entry) \in Int /\ SumAlong(k_answers, Granted) \in Int
  BY <1>1, Numbers
<1>11. Added' = Added /\ Total' = Total /\ Allowed' = Allowed
  <2>1. Added \in Int
    BY <1>10 DEF Added
  <2>2. Added' = Added
    BY <1>7, <2>1
  <2> QED
    BY <1>3, <2>2 DEF Total, Allowed
<1>12. Total' + Carried' = Total + Carried
  BY <1>4, <1>9, <1>10, <1>11, IdleMoved
<1>13. ASSUME k_failures' = 0, NEW a \in Account
       PROVE  k_bal'[a] = Opening + Balance(a)' + Shifted(a)'
  <2>1. k_bal[a] = Opening + Balance(a) + Shifted(a)
    BY <1>3, <1>13 DEF LedgerInv
  <2>2. Way(k, a) \in Int /\ Balance(a)' = Balance(a) + Way(k, a)
    BY <1>6, <1>7
  <2>3. Shifted(a)' = Shifted(a) + (0 - Way(k, a))
    BY <1>9, IdleMoved
  <2>4. Opening \in Int /\ Balance(a) \in Int /\ Shifted(a) \in Int /\ k_bal' = k_bal
    BY <1>3, <1>10
  <2> QED
    BY <2>1, <2>2, <2>3, <2>4
<1>14. CreditTypeOK' /\ LedgerOK'
  BY <1>1, <1>3, <1>7, <1>8, <1>9 DEF CreditTypeOK, LedgerOK
<1>15. LoggedOnce'
  <2>1. SumAlong(Accounted, Entry) <= SumAlong(k_answers, Granted)
    BY DEF LedgerInv, LoggedOnce, Entry, Granted
  <2>2. SumAlong(Accounted, Entry)' <= SumAlong(k_answers', Granted)
    BY <1>7, <1>8, <1>10, <2>1
  <2> QED
    BY <2>2 DEF LoggedOnce, Entry, Granted
<1> QED
  BY <1>11, <1>12, <1>13, <1>14, <1>15 DEF LedgerInv

\* A failure leaves room for the greatest sum.
LEMMA FailLedger ==
  ASSUME LedgerInv, NEW t \in Teller, command_fails(t)
  PROVE  LedgerInv'
<1>1. /\ CreditTypeOK /\ LedgerOK /\ k_work[t] \in Work /\ k_failures \in Nat
      /\ k_work' = [k_work EXCEPT ![t] = Idle] /\ k_failures' = k_failures + 1
      /\ UNCHANGED <<k_bal, k_queue, k_dumping, k_log, k_answers>>
  BY DEF LedgerInv, CreditTypeOK, LedgerOK, command_fails, Fails
<1>2. /\ k_work' \in [Teller -> Work]
      /\ Carried' = Carried + (Load(Idle) - Load(k_work[t]))
  BY <1>1, IdleMoved, TellerMoves
<1>3. Load(k_work[t]) \in Nat /\ Load(Idle) = 0
  BY <1>1, LoadType, IdleMoved
<1>4. /\ Total \in Int /\ Carried \in Int /\ Balance(0) \in Int
      /\ Cardinality(Account) * Opening \in Int /\ k_failures * Most \in Int
      /\ k_failures' * Most = k_failures * Most + Most
  BY <1>1, Numbers
<1>5. Accounted' = Accounted /\ Total' = Total /\ Added' = Added /\ Added \in Int
  BY <1>1, <1>4 DEF Accounted, Total, Added, Balance
<1>6. Total' + Carried' <= Allowed'
  <2>1. Total + Carried <= Cardinality(Account) * Opening + Added + k_failures * Most
    BY DEF LedgerInv, Allowed
  <2>2. Allowed' = Cardinality(Account) * Opening + Added + (k_failures * Most + Most)
    BY <1>4, <1>5 DEF Allowed
  <2> DEFINE o == Cardinality(Account) * Opening
             f == k_failures * Most
             l == Load(k_work[t])
  <2>3. Total + Carried <= o + Added + f /\ Allowed' = o + Added + (f + Most) /\ o \in Int /\ f \in Int
        /\ Total' = Total /\ Carried' = Carried + (0 - l) /\ l \in Nat
    BY <1>2, <1>3, <1>4, <1>5, <2>1, <2>2
  <2> HIDE DEF o, f, l
  <2> QED
    BY <1>4, <1>5, <2>3, MostIsMost
<1>7. CreditTypeOK' /\ LedgerOK' /\ LoggedOnce'
  BY <1>1, <1>2, <1>5 DEF CreditTypeOK, LedgerOK, LedgerInv, LoggedOnce
<1>8. k_failures' # 0
  BY <1>1
<1> QED
  BY <1>6, <1>7, <1>8 DEF LedgerInv

\* What one more failure allows.
LEMMA FailureAllows ==
  ASSUME CreditTypeOK, LedgerOK, NEW more \in Int, Added' = Added + more, k_failures' = k_failures + 1
  PROVE  Allowed' = Allowed + more + Most /\ Allowed \in Int
<1>1. /\ Balance(0) \in Int /\ Cardinality(Account) * Opening \in Int /\ k_failures * Most \in Int
      /\ k_failures' * Most = k_failures * Most + Most
  BY Numbers
<1> DEFINE o == Cardinality(Account) * Opening
           f == k_failures * Most
<1>2. Allowed = o + Added + f /\ Allowed' = o + (Added + more) + (f + Most) /\ o \in Int /\ f \in Int
  BY <1>1 DEF Allowed
<1>3. Added \in Int
  BY <1>1 DEF Added
<1> HIDE DEF o, f
<1> QED
  BY <1>2, <1>3, MostIsMost

LEMMA IncLedger ==
  ASSUME LedgerInv, NEW a \in Account, NEW sum \in Sums, inc_credit_summa(a, sum)
  PROVE  LedgerInv'
<1> DEFINE tr == [from |-> 0, to |-> a, sum |-> sum]
<1>1. CreditTypeOK /\ LedgerOK /\ k_bal \in [Account -> Int] /\ k_failures \in Nat
  BY DEF LedgerInv, CreditTypeOK, LedgerOK
<1>2. k_queue' = Append(k_queue, tr) /\ UNCHANGED <<k_work, k_dumping, k_log, k_answers>>
  BY DEF inc_credit_summa, Push
<1>3. tr \in Transaction /\ tr.from = 0 /\ tr.sum = sum /\ sum \in Int
  BY DEF Transaction
<1>4. \A b \in Account : Brings(tr, b) = IF b = a THEN sum ELSE 0
  BY <1>3 DEF Brings
<1> HIDE DEF tr
<1>5. /\ k_queue' \in Seq(Transaction)
      /\ \A b : Balance(b)' = Balance(b) + Brings(tr, b)
      /\ Added' = Added + sum
      /\ SumAlong(Accounted, Entry)' = SumAlong(Accounted, Entry) + 0
  BY <1>1, <1>2, <1>3, AddedMoves
<1>6. /\ Total \in Int /\ Carried \in Int /\ \A b : Balance(b) \in Int /\ Shifted(b) \in Int
      /\ Cardinality(Account) * Opening \in Int /\ k_failures * Most \in Int
      /\ SumAlong(Accounted, Entry) \in Int
  BY <1>1, Numbers
<1>7. Carried' = Carried /\ \A b : Shifted(b)' = Shifted(b)
  BY <1>2 DEF Carried, Shifted
<1>8. LoggedOnce'
  <2>1. SumAlong(Accounted, Entry)' = SumAlong(Accounted, Entry)
    BY <1>5, <1>6
  <2> QED
    BY <1>2, <2>1 DEF LoggedOnce, LedgerInv, Entry, Granted
<1>9. CASE k_bal' = [k_bal EXCEPT ![a] = @ + sum] /\ k_failures' = k_failures
  <2>1. /\ k_bal' \in [Account -> Int] /\ Total' = Total + sum
        /\ \A b \in Account : k_bal'[b] = IF b = a THEN k_bal[b] + sum ELSE k_bal[b]
    BY <1>1, <1>3, <1>9, TotalMoves
  <2>2. Allowed' = Allowed + sum /\ Allowed \in Int
    <3> DEFINE o == Cardinality(Account) * Opening
               f == k_failures * Most
    <3>1. Allowed = o + Added + f /\ Allowed' = o + (Added + sum) + f /\ o \in Int /\ f \in Int
      BY <1>5, <1>6, <1>9 DEF Allowed
    <3>2. Added \in Int
      BY <1>6 DEF Added
    <3> HIDE DEF o, f
    <3> QED
      BY <1>3, <3>1, <3>2
  <2>3. Total' + Carried' <= Allowed'
    BY <1>3, <1>6, <1>7, <2>1, <2>2 DEF LedgerInv
  <2>4. ASSUME k_failures' = 0, NEW b \in Account
        PROVE  k_bal'[b] = Opening + Balance(b)' + Shifted(b)'
    <3>1. k_bal[b] = Opening + Balance(b) + Shifted(b)
      BY <1>9, <2>4 DEF LedgerInv
    <3>2. Balance(b)' = Balance(b) + (IF b = a THEN sum ELSE 0) /\ Shifted(b)' = Shifted(b)
      BY <1>4, <1>5, <1>7
    <3>3. k_bal'[b] = k_bal[b] + (IF b = a THEN sum ELSE 0)
      BY <1>1, <2>1
    <3>4. Opening \in Int /\ Balance(b) \in Int /\ Shifted(b) \in Int
      BY <1>6
    <3> QED
      BY <1>3, <3>1, <3>2, <3>3, <3>4
  <2>5. CreditTypeOK' /\ LedgerOK'
    BY <1>1, <1>2, <1>5, <1>9, <2>1 DEF CreditTypeOK, LedgerOK
  <2> QED
    BY <1>8, <2>3, <2>4, <2>5 DEF LedgerInv
<1>10. CASE k_bal' = k_bal /\ k_failures' = k_failures + 1
  <2>1. Allowed' = Allowed + sum + Most /\ Allowed \in Int
    BY <1>1, <1>3, <1>5, <1>10, FailureAllows
  <2>2. Total' = Total /\ sum \in Nat
    BY <1>10 DEF Total
  <2>3. Total' + Carried' <= Allowed'
    BY <1>6, <1>7, <2>1, <2>2, MostIsMost DEF LedgerInv
  <2>4. CreditTypeOK' /\ LedgerOK'
    BY <1>1, <1>2, <1>5, <1>10 DEF CreditTypeOK, LedgerOK
  <2>5. k_failures' # 0
    BY <1>1, <1>10
  <2> QED
    BY <1>8, <2>3, <2>4, <2>5 DEF LedgerInv
<1> QED
  BY <1>9, <1>10 DEF inc_credit_summa, Fails

LEMMA ExtractLedger ==
  ASSUME LedgerInv, extract_transaction
  PROVE  LedgerInv'
<1>1. CreditTypeOK /\ LedgerOK /\ UNCHANGED <<k_bal, k_work, k_log, k_answers, k_failures>>
  BY DEF LedgerInv, extract_transaction
<1>2. /\ k_queue' \in Seq(Transaction) /\ \E tr \in Transaction : k_dumping' = {tr}
      /\ \A v \in [Transaction -> Int] : SumAlong(Accounted, v)' = SumAlong(Accounted, v)
  BY <1>1, ExtractMoves
<1>3. ASSUME NEW a PROVE Balance(a)' = Balance(a)
  <2> DEFINE v == [x \in Transaction |-> Brings(x, a)]
  <2>1. v \in [Transaction -> Int]
    BY Weights
  <2> HIDE DEF v
  <2>2. SumAlong(Accounted, v)' = SumAlong(Accounted, v)
    BY <1>2, <2>1
  <2> QED
    BY <2>2 DEF Balance, v
<1>4. SumAlong(Accounted, Entry)' = SumAlong(Accounted, Entry)
  <2>1. Entry' = Entry /\ Entry \in [Transaction -> Int]
    BY Weights DEF Entry
  <2> DEFINE v == Entry
  <2>2. v \in [Transaction -> Int]
    BY <2>1
  <2>3. SumAlong(Accounted', v) = SumAlong(Accounted, v)
    BY <1>2, <2>2
  <2> QED
    BY <2>1, <2>3
<1>5. Added' = Added /\ Total' = Total /\ Allowed' = Allowed /\ Carried' = Carried /\ \A a : Shifted(a)' = Shifted(a)
  BY <1>1, <1>3 DEF Added, Total, Allowed, Carried, Shifted
<1>6. CreditTypeOK' /\ LedgerOK'
  BY <1>1, <1>2 DEF CreditTypeOK, LedgerOK
<1>7. LoggedOnce'
  BY <1>1, <1>4 DEF LoggedOnce, LedgerInv, Entry, Granted
<1> QED
  BY <1>1, <1>3, <1>5, <1>6, <1>7 DEF LedgerInv

LEMMA InsertLedger ==
  ASSUME LedgerInv, insert_log
  PROVE  LedgerInv'
<1>1. CreditTypeOK /\ LedgerOK /\ k_failures \in Nat /\ UNCHANGED <<k_bal, k_work, k_answers>> /\ k_dumping' = {}
  BY DEF LedgerInv, LedgerOK, insert_log
<1>2. PICK tr \in Transaction :
        k_dumping = {tr} /\ (\/ k_log' = Append(k_log, tr) /\ UNCHANGED <<k_queue, k_failures>>
                             \/ Fails /\ Requeued(tr))
  BY <1>1 DEF insert_log, LedgerOK
<1>3. PICK lost \in BOOLEAN :
        /\ k_queue' = k_queue /\ k_log' = IF lost THEN k_log ELSE Append(k_log, tr)
        /\ k_failures' = IF lost THEN k_failures + 1 ELSE k_failures
  <2>1. CASE k_log' = Append(k_log, tr) /\ UNCHANGED <<k_queue, k_failures>>
    BY <2>1
  <2>2. CASE Fails /\ Requeued(tr)
    BY <2>2 DEF Fails, Requeued
  <2> QED
    BY <1>2, <2>1, <2>2
<1>4. /\ k_log' \in Seq(Transaction)
      /\ \A v \in [Transaction -> Int] :
           /\ SumAlong(Accounted, v)' = SumAlong(Accounted, v) - (IF lost THEN v[tr] ELSE 0)
           /\ SumAlong(Accounted, v) \in Int /\ v[tr] \in Int
  BY <1>1, <1>2, <1>3, InsertMoves
<1>5. ASSUME NEW a
      PROVE  Balance(a)' = Balance(a) - (IF lost THEN Brings(tr, a) ELSE 0) /\ Brings(tr, a) \in Int /\ Balance(a) \in Int
  <2> DEFINE v == [x \in Transaction |-> Brings(x, a)]
  <2>1. v \in [Transaction -> Int] /\ v[tr] = Brings(tr, a)
    BY Weights
  <2> HIDE DEF v
  <2>2. SumAlong(Accounted, v)' = SumAlong(Accounted, v) - (IF lost THEN v[tr] ELSE 0)
        /\ SumAlong(Accounted, v) \in Int /\ v[tr] \in Int
    BY <1>4, <2>1
  <2> QED
    BY <2>1, <2>2 DEF Balance, v
<1>6. SumAlong(Accounted, Entry)' <= SumAlong(Accounted, Entry)
      /\ SumAlong(Accounted, Entry)' \in Int /\ SumAlong(Accounted, Entry) \in Int
  <2> DEFINE v == Entry
  <2>1. v \in [Transaction -> Int] /\ Entry' = v /\ v[tr] \in 0..1
    BY Weights DEF Entry
  <2>2. SumAlong(Accounted', v) = SumAlong(Accounted, v) - (IF lost THEN v[tr] ELSE 0) /\ SumAlong(Accounted, v) \in Int
    BY <1>4, <2>1
  <2> QED
    BY <2>1, <2>2
<1>7. Total' = Total /\ Carried' = Carried /\ \A a : Shifted(a)' = Shifted(a)
  BY <1>1 DEF Total, Carried, Shifted
<1>8. CreditTypeOK' /\ LedgerOK'
  BY <1>1, <1>3, <1>4 DEF CreditTypeOK, LedgerOK
<1>9. LoggedOnce'
  <2>1. SumAlong(Accounted, Entry) <= SumAlong(k_answers, Granted) /\ SumAlong(k_answers, Granted) \in Int
    BY <1>1, Numbers DEF LedgerInv, LoggedOnce, Entry, Granted
  <2>2. SumAlong(Accounted, Entry)' <= SumAlong(k_answers', Granted)
    BY <1>1, <1>6, <2>1
  <2> QED
    BY <2>2 DEF LoggedOnce, Entry, Granted
<1>10. CASE ~ lost
  <2>1. k_failures' = k_failures /\ \A a : Balance(a)' = Balance(a)
    BY <1>3, <1>5, <1>10
  <2>2. Added' = Added /\ Allowed' = Allowed
    BY <2>1 DEF Added, Allowed
  <2> QED
    BY <1>1, <1>7, <1>8, <1>9, <2>1, <2>2 DEF LedgerInv
<1>11. CASE lost
  <2>1. k_failures' = k_failures + 1 /\ k_failures' # 0
    BY <1>1, <1>3, <1>11
  <2>2. Added' = Added + Brings(tr, 0) /\ Brings(tr, 0) \in Int
    <3>1. Balance(0)' = Balance(0) - Brings(tr, 0) /\ Brings(tr, 0) \in Int /\ Balance(0) \in Int
      BY <1>5, <1>11
    <3> QED
      BY <3>1 DEF Added
  <2>3. Allowed' = Allowed + Brings(tr, 0) + Most /\ Allowed \in Int
    BY <1>1, <2>1, <2>2, FailureAllows
  <2>4. Brings(tr, 0) + Most >= 0
    <3>1. tr.sum \in 0..Most /\ Brings(tr, 0) = IF tr.from = 0 THEN 0 - tr.sum ELSE 0
      BY Weights
    <3> QED
      BY <3>1, MostIsMost
  <2>5. Total' + Carried' <= Allowed'
    <3>1. Total \in Int /\ Carried \in Int /\ Total + Carried <= Allowed
      BY <1>1, Numbers DEF LedgerInv
    <3> QED
      BY <1>7, <2>2, <2>3, <2>4, <3>1, MostIsMost
  <2> QED
    BY <1>8, <1>9, <2>1, <2>5 DEF LedgerInv
<1> QED
  BY <1>10, <1>11
-----------------------------------------------------------------------------
LEMMA NothingMoved ==
  ASSUME CreditTypeOK, \A t \in Teller : k_work[t].next = "idle"
  PROVE  Carried = 0 /\ \A a : Shifted(a) = 0
<1>1. \A t \in Teller : Load(k_work[t]) = 0 /\ \A a : Way(k_work[t], a) = 0
  BY Moved DEF CreditTypeOK
<1>2. \A v \in [Teller -> Int] : (\A t \in Teller : v[t] = 0) => SumAlong(SetToSeq(Teller), v) = 0
  <2>1. PICK e : e = SetToSeq(Teller)
    OBVIOUS
  <2>2. e \in Seq(Teller) /\ Len(e) \in Nat
    BY <2>1, Enumerated
  <2>3. ASSUME NEW v \in [Teller -> Int], \A t \in Teller : v[t] = 0 PROVE SumAlong(e, v) = 0
    <3>1. SumAlong(e, v) = Len(e) * 0
      <4>1. 0 \in Int
        OBVIOUS
      <4> QED
        BY <2>2, <2>3, <4>1, SumsOfSame
    <3>2. \A n \in Nat : n * 0 = 0
      OBVIOUS
    <3> QED
      BY <2>2, <3>1, <3>2
  <2> QED
    BY <2>1, <2>3
<1>3. Carried = 0
  <2> DEFINE v == [t \in Teller |-> Load(k_work[t])]
  <2>1. v \in [Teller -> Int] /\ \A t \in Teller : v[t] = 0
    BY <1>1
  <2> HIDE DEF v
  <2>2. SumAlong(SetToSeq(Teller), v) = 0
    BY <1>2, <2>1
  <2> QED
    BY <2>2 DEF Carried, v
<1>4. ASSUME NEW a PROVE Shifted(a) = 0
  <2> DEFINE v == [t \in Teller |-> Way(k_work[t], a)]
  <2>1. v \in [Teller -> Int] /\ \A t \in Teller : v[t] = 0
    BY <1>1
  <2> HIDE DEF v
  <2>2. SumAlong(SetToSeq(Teller), v) = 0
    BY <1>2, <2>1
  <2> QED
    BY <2>2 DEF Shifted, v
<1> QED
  BY <1>3, <1>4

LEMMA LedgerStarts == CreditInit => LedgerInv
<1> SUFFICES ASSUME CreditInit PROVE LedgerInv
  OBVIOUS
<1>1. /\ k_bal = [a \in Account |-> Opening] /\ k_work = [t \in Teller |-> Idle]
      /\ k_queue = <<>> /\ k_dumping = {} /\ k_log = <<>> /\ k_answers = <<>> /\ k_failures = 0
  BY DEF CreditInit
<1>2. CreditTypeOK /\ \A t \in Teller : k_work[t].next = "idle"
  BY <1>1, IdleMoved DEF CreditTypeOK, Idle
<1>3. LedgerOK
  BY <1>1 DEF LedgerOK
<1>4. Carried = 0 /\ \A a : Shifted(a) = 0
  BY <1>2, NothingMoved
<1>5. ASSUME NEW v \in [Transaction -> Int] PROVE SumAlong(Accounted, v) = 0
  <2>1. PICK n \in Seq(Transaction) : n = <<>> /\ Len(n) = 0
    <3>1. <<>> \in Seq(Transaction) /\ Len(<<>>) = 0
      OBVIOUS
    <3> QED
      BY <3>1
  <2>2. SumAlong(n, v) = 0
    BY <2>1, SumsOfNothing
  <2>3. SumAlong(n \o SetToSeq({}) \o n, v) = SumAlong(n, v) + SumAlong(n, v)
    BY <2>1, Ledger
  <2> QED
    BY <1>1, <2>1, <2>2, <2>3 DEF Accounted
<1>6. \A a : Balance(a) = 0
  BY <1>5, Weights DEF Balance
<1>7. Total = Cardinality(Account) * Opening
  <2>1. PICK e : e = SetToSeq(Account)
    OBVIOUS
  <2>2. e \in Seq(Account) /\ Len(e) = Cardinality(Account)
    BY <2>1, Enumerated
  <2>3. SumAlong(e, k_bal) = Len(e) * Opening
    <3>1. k_bal \in [Account -> Int] /\ Opening \in Int /\ \A a \in Account : k_bal[a] = Opening
      BY <1>1
    <3>2. ASSUME NEW v \in [Account -> Int], NEW c \in Int, \A a \in Account : v[a] = c
          PROVE  SumAlong(e, v) = Len(e) * c
      BY <2>2, <3>2, SumsOfSame
    <3> QED
      BY <3>1, <3>2
  <2> QED
    BY <2>1, <2>2, <2>3 DEF Total
<1>8. Total + Carried <= Allowed
  <2>1. Cardinality(Account) * Opening \in Int /\ k_failures * Most = 0
    BY <1>1, <1>2, <1>3, Numbers, MostIsMost
  <2>2. Added = 0
    BY <1>6 DEF Added
  <2> DEFINE o == Cardinality(Account) * Opening
  <2>3. Allowed = o + 0 + 0 /\ Total = o /\ o \in Int
    BY <1>7, <2>1, <2>2 DEF Allowed
  <2> HIDE DEF o
  <2> QED
    BY <1>4, <2>3
<1>9. LoggedOnce
  <2>1. SumAlong(Accounted, Entry) = 0
    BY <1>5, Weights
  <2>2. SumAlong(k_answers, Granted) = 0
    <3>1. PICK n \in Seq({"OK", "FAIL"}) : n = <<>> /\ Len(n) = 0
      <4>1. <<>> \in Seq({"OK", "FAIL"}) /\ Len(<<>>) = 0
        OBVIOUS
      <4> QED
        BY <4>1
    <3>2. SumAlong(n, Granted) = 0
      BY <3>1, Weights, SumsOfNothing
    <3> QED
      BY <1>1, <3>1, <3>2
  <2> QED
    BY <2>1, <2>2 DEF LoggedOnce, Entry, Granted
<1>10. \A a \in Account : k_bal[a] = Opening + Balance(a) + Shifted(a)
  <2>1. \A a \in Account : k_bal[a] = Opening /\ Balance(a) = 0 /\ Shifted(a) = 0
    BY <1>1, <1>4, <1>6
  <2> QED
    BY <2>1
<1> QED
  BY <1>2, <1>3, <1>8, <1>9, <1>10 DEF LedgerInv

\* All that tellers do, what is added and what reaches the log keep the ledger:
\* what is under way makes up the difference between the balances and the log.
THEOREM LedgerInvariant == CreditSpec => []LedgerInv
<1>1. LedgerInv /\ [CreditNext]_creditVars => LedgerInv'
  <2> SUFFICES ASSUME LedgerInv, [CreditNext]_creditVars PROVE LedgerInv'
    OBVIOUS
  <2>1. ASSUME NEW t \in Teller, NEW a \in Account, NEW sum \in Sums, NEW takes \in BOOLEAN, command(t, a, sum, takes)
        PROVE  LedgerInv'
    BY <2>1, CommandLedger
  <2>2. ASSUME NEW t \in Teller, check_summa(t) PROVE LedgerInv'
    BY <2>2, CheckLedger
  <2>3. ASSUME NEW t \in Teller, take_from(t) PROVE LedgerInv'
    BY <2>3, TakeLedger
  <2>4. ASSUME NEW t \in Teller, give_to(t) PROVE LedgerInv'
    BY <2>4, GiveLedger
  <2>5. ASSUME NEW t \in Teller, log_move(t) PROVE LedgerInv'
    BY <2>5, LogLedger
  <2>6. ASSUME NEW t \in Teller, command_fails(t) PROVE LedgerInv'
    BY <2>6, FailLedger
  <2>7. ASSUME NEW a \in Account, NEW sum \in Sums, inc_credit_summa(a, sum) PROVE LedgerInv'
    BY <2>7, IncLedger
  <2>8. CASE extract_transaction
    BY <2>8, ExtractLedger
  <2>9. CASE insert_log
    BY <2>9, InsertLedger
  <2>10. CASE UNCHANGED creditVars
    <3>1. UNCHANGED <<k_bal, k_work, k_queue, k_dumping, k_log, k_answers, k_failures>>
      BY <2>10 DEF creditVars
    <3>2. Accounted' = Accounted /\ Total' = Total /\ Carried' = Carried /\ \A a : Shifted(a)' = Shifted(a)
      BY <3>1 DEF Accounted, Total, Carried, Shifted
    <3>3. (\A a : Balance(a)' = Balance(a)) /\ Added' = Added /\ Allowed' = Allowed
      BY <3>1, <3>2 DEF Balance, Added, Allowed
    <3>4. CreditTypeOK' /\ LedgerOK' /\ LoggedOnce'
      BY <3>1, <3>2 DEF CreditTypeOK, LedgerOK, LoggedOnce, LedgerInv
    <3> QED
      BY <3>1, <3>2, <3>3, <3>4 DEF LedgerInv
  <2> QED
    BY <2>1, <2>2, <2>3, <2>4, <2>5, <2>6, <2>7, <2>8, <2>9, <2>10 DEF CreditNext
<1> QED
  BY <1>1, LedgerStarts, PTL DEF CreditSpec

\* No money, no entry and no sum comes from nowhere: however many tellers move
\* what whose account holds, in whatever order their queries reach the table and
\* whichever of them fail.
THEOREM CreditsAreAddedUp == CreditSpec => []CreditsAddUp
<1>1. LedgerInv => CreditsAddUp
  <2> SUFFICES ASSUME LedgerInv PROVE CreditsAddUp
    OBVIOUS
  <2>1. CreditTypeOK /\ LedgerOK /\ Total + Carried <= Allowed /\ LoggedOnce
    BY DEF LedgerInv
  <2>2. /\ Total \in Int /\ Carried \in Int /\ Carried >= 0 /\ \A a : Balance(a) \in Int
        /\ Cardinality(Account) * Opening \in Int /\ k_failures * Most \in Int
    BY <2>1, Numbers
  <2>3. NothingMadeUp
    <3> DEFINE o == Cardinality(Account) * Opening
               f == k_failures * Most
    <3>1. Added \in Int /\ o \in Int /\ f \in Int /\ Allowed = o + Added + f
      BY <2>2 DEF Added, Allowed
    <3> HIDE DEF o, f
    <3>2. Total <= o + Added + f
      BY <2>1, <2>2, <3>1
    <3> QED
      BY <3>2 DEF NothingMadeUp, o, f, Most
  <2>4. BooksBalance
    <3> SUFFICES ASSUME k_failures = 0, \A t \in Teller : Going(t, "idle"), NEW a \in Account
                 PROVE  k_bal[a] = Opening + Balance(a)
      BY DEF BooksBalance
    <3>1. Shifted(a) = 0
      BY <2>1, NothingMoved DEF Going
    <3>2. k_bal[a] = Opening + Balance(a) + Shifted(a)
      BY DEF LedgerInv
    <3>3. Opening \in Int /\ Balance(a) \in Int
      BY <2>2
    <3> QED
      BY <3>1, <3>2, <3>3
  <2> QED
    BY <2>1, <2>3, <2>4 DEF CreditsAddUp
<1> QED
  BY <1>1, LedgerInvariant, PTL
-----------------------------------------------------------------------------
(* Klaps and moderators.                                                   *)

Klap == [n : 1..MaxKlaps, id : KlapId, uid : Offender]
Empties == {EmptyItem(i) : i \in KlapId}

AddingKlap(k) == [cmd |-> "ban$add", klap |-> k]
RemovingKlap(k) == [cmd |-> "ban$remove", klap |-> k]
ModeratorCommand == [cmd : {"moderator$add", "moderator$remove"}, klap : {NoKlap}, uid : Moder]
ChannelCommand == [cmd : {"channel$update"}, klap : {NoKlap}, moders : SUBSET Moder]
KlapCommand ==
  [cmd : {"ban$add"}, klap : Klap] \cup [cmd : {"ban$remove"}, klap : Klap \cup Empties]
  \cup ModeratorCommand \cup ChannelCommand

KlapWork ==
  [at : {"idle", "add", "queue add", "lift", "update", "queue moderator$add", "queue moderator$remove"},
   klap : Klap \cup Empties \cup {NoKlap}, moders : SUBSET Moder, uid : Moder \cup {"nobody"}]

\* What a page has in hand.
KlapPageOK(w) ==
  /\ w.at \in {"add", "queue add"} => w.klap \in Klap
  /\ w.at = "add" => w.klap \notin kl_laid
  /\ w.at = "queue add" => w.klap \in kl_laid
  /\ w.at = "lift" => w.klap \in kl_laid \cup Empties
  /\ w.at \notin {"add", "queue add", "lift"} => w.klap = NoKlap
  /\ w.at \in {"queue moderator$add", "queue moderator$remove"} => w.uid \in Moder

ToChat == IF kl_step = "event" THEN kl_batch ELSE Tail(kl_batch)
Commands(s) == {s[i] : i \in DOMAIN s}
UnderWay == Commands(kl_queue) \cup Commands(kl_batch) \cup Commands(kl_events)

ItemsOK ==
  /\ kl_items = [i \in DOMAIN kl_items |-> kl_items[i]] /\ DOMAIN kl_items \subseteq KlapId
  /\ \A i \in DOMAIN kl_items : kl_items[i] \in kl_laid \cup Empties /\ kl_items[i].id = i
  /\ kl_by_uid = [u \in DOMAIN kl_by_uid |-> kl_by_uid[u]]
  /\ \A u \in DOMAIN kl_by_uid : kl_by_uid[u] \in DOMAIN kl_items /\ kl_items[kl_by_uid[u]] \in kl_laid

HistoryOK ==
  kl_laid \subseteq Klap /\ kl_lifted \subseteq kl_laid /\ kl_lapsed \subseteq kl_laid

PagesOK == kl_page \in [KlapPage -> KlapWork] /\ \A p \in KlapPage : KlapPageOK(kl_page[p])

FlowOK ==
  /\ kl_queue \in Seq(KlapCommand) /\ kl_batch \in Seq(KlapCommand) /\ kl_events \in Seq(KlapCommand)
  /\ kl_step \in {"event", "datum"} /\ (kl_step = "datum" => kl_batch # <<>>)
  /\ \A c \in UnderWay : c.klap \in kl_laid \cup Empties \cup {NoKlap}

ChatOK ==
  /\ kl_moders \in [rows : SUBSET Moder, pages : SUBSET Moder, chat : SUBSET Moder]
  /\ kl_klaped = [u \in DOMAIN kl_klaped |-> kl_klaped[u]]
  /\ \A u \in DOMAIN kl_klaped : kl_klaped[u].uid = u

KlapsTypeOK == HistoryOK /\ ItemsOK /\ PagesOK /\ FlowOK /\ ChatOK

\* Who lays a klap lays it alone.
LaidAlone ==
  \A p, q \in KlapPage : p # q /\ {kl_page[p].at, kl_page[q].at} \subseteq {"add", "queue add"} => kl_page[p].klap # kl_page[q].klap

\* A command of A comes after all of B.
LastIn(s, A, B) == \E i \in DOMAIN s : s[i] \in A /\ \A j \in DOMAIN s : j > i => s[j] \notin B
NoneIn(s, B) == \A i \in DOMAIN s : s[i] \notin B

\* The same of the queue and the batch, and of the queue, the batch and the events.
Ends2(q, b, A, B) == LastIn(q, A, B) \/ (NoneIn(q, B) /\ LastIn(b, A, B))
Still2(q, b, B) == NoneIn(q, B) /\ NoneIn(b, B)
Ends3(q, t, e, A, B) == LastIn(q, A, B) \/ (NoneIn(q, B) /\ (LastIn(t, A, B) \/ (NoneIn(t, B) /\ LastIn(e, A, B))))
Still3(q, t, e, B) == NoneIn(q, B) /\ NoneIn(t, B) /\ NoneIn(e, B)

\* What is under way ends with one of A, or has none of B: to the pages, to the
\* chat thread.
EndsPages(A, B) == Ends2(kl_queue, kl_batch, A, B)
StillPages(B) == Still2(kl_queue, kl_batch, B)
EndsChat(A, B) == Ends3(kl_queue, ToChat, kl_events, A, B)
StillChat(B) == Still3(kl_queue, ToChat, kl_events, B)
-----------------------------------------------------------------------------
(* Klaps in force.                                                         *)

\* Klaps whose id or user met no other's.
Clear == (kl_laid \cup BeingLaid) \ (kl_lifted \cup kl_blurred)
InPlay == BeingLaid \cup {c.klap : c \in {x \in UnderWay : x.cmd = "ban$add"}}
Removals == {c \in UnderWay : c.cmd = "ban$remove"}

\* Its item is there, and nothing under way is about the item.
Holds(k) ==
  /\ k.id \in DOMAIN kl_items
  /\ kl_items[k.id] = IF k \in kl_laid THEN k ELSE EmptyItem(k.id)
  /\ \A j \in InPlay : j # k => j.id # k.id
  /\ RemovingKlap(k) \notin Removals

\* It is the user's only klap in force, and the chat thread has it or will.
Rules(k) ==
  /\ \A i \in DOMAIN kl_items : kl_items[i].n # 0 /\ kl_items[i].uid = k.uid /\ kl_items[i] # k => kl_items[i] \in kl_lapsed
  /\ \A j \in InPlay : j # k => j.uid # k.uid
  /\ \A c \in Removals : c.klap.n # 0 /\ c.klap # k => c.klap.uid # k.uid
  /\ k \in kl_laid => k.uid \in DOMAIN kl_by_uid /\ kl_by_uid[k.uid] = k.id

ChatWillKnow(k) ==
  \/ \E p \in KlapPage : kl_page[p].at = "queue add" /\ kl_page[p].klap = k
  \/ AddingKlap(k) \in Commands(kl_queue) \cup Commands(ToChat) \cup Commands(kl_events)
  \/ k.uid \in DOMAIN kl_klaped /\ kl_klaped[k.uid] = k

ClearHold == \A k \in Clear : Holds(k)
ForceRules == \A k \in Clear \ kl_lapsed : Rules(k) /\ (k \in kl_laid \ kl_wiped => ChatWillKnow(k))

\* A lifted klap is gone, or will be removed after what adds it again.
GoesFor(k) ==
  /\ k \notin BeingLaid
  /\ \/ k.id \notin DOMAIN kl_items \/ kl_items[k.id] # k
     \/ EndsPages({RemovingKlap(k)}, {AddingKlap(k)})
  /\ StillPages({AddingKlap(k)}) \/ EndsPages({RemovingKlap(k)}, {AddingKlap(k)})
  /\ \/ k.uid \notin DOMAIN kl_klaped \/ kl_klaped[k.uid] # k
     \/ EndsChat({RemovingKlap(k)}, {AddingKlap(k)})
  /\ StillChat({AddingKlap(k)}) \/ EndsChat({RemovingKlap(k)}, {AddingKlap(k)})
LiftedGo == \A k \in kl_lifted \ kl_blurred : GoesFor(k)

\* Moderators: what is said of one last is what the table says.
Tells(m, b) ==
  {c \in ModeratorCommand : c.uid = m /\ (c.cmd = "moderator$add" <=> b = TRUE)}
  \cup {c \in ChannelCommand : m \in c.moders <=> b = TRUE}
Tell(m) == Tells(m, TRUE) \cup Tells(m, FALSE)

PagesAreTold(m, b) == EndsPages(Tells(m, b), Tell(m)) \/ (StillPages(Tell(m)) /\ (m \in kl_moders.pages <=> b = TRUE))
ChatIsTold(m, b) == EndsChat(Tells(m, b), Tell(m)) \/ (StillChat(Tell(m)) /\ (m \in kl_moders.chat <=> b = TRUE))

TellsAt == {"queue moderator$add", "queue moderator$remove"}
Telling(m) == \E p \in KlapPage : kl_page[p].at \in TellsAt /\ kl_page[p].uid = m

\* What a page is about to say is what the table has.
PageKnows(m, p) ==
  /\ kl_page[p].at = "queue moderator$add" /\ kl_page[p].uid = m => m \in kl_moders.rows
  /\ kl_page[p].at = "queue moderator$remove" /\ kl_page[p].uid = m => m \notin kl_moders.rows
  /\ kl_page[p].at = "update" => (m \in kl_page[p].moders <=> m \in kl_moders.rows)

ModeratorTracks(m) ==
  /\ \A p \in KlapPage : PageKnows(m, p)
  /\ Telling(m) \/ \E b \in BOOLEAN : (b = TRUE <=> m \in kl_moders.rows) /\ PagesAreTold(m, b) /\ ChatIsTold(m, b)
ModeratorsTrack == \A m \in Moder \ kl_wiped : ModeratorTracks(m)

KlapsInv == KlapsTypeOK /\ LaidAlone /\ ClearHold /\ ForceRules /\ LiftedGo /\ ModeratorsTrack
-----------------------------------------------------------------------------
(* Lemmas about numbers and sequences.                                     *)

\* A bounded set of numbers has a largest one.
LEMMA MaxIsLargest ==
  ASSUME NEW N \in Nat, NEW S, S \subseteq 0..N, S # {}
  PROVE  Max(S) \in S /\ \A y \in S : y <= Max(S)
<1> DEFINE T == {N - y : y \in S}
<1>1. PICK x \in T : \A y \in T : x <= y
  <2>1. \A y \in S : N - y \in Nat
    OBVIOUS
  <2>2. T \subseteq Nat
    BY <2>1
  <2>3. T # {}
    OBVIOUS
  <2> HIDE DEF T
  <2> QED
    BY <2>2, <2>3, HasLeast
<1>2. PICK m \in S : x = N - m
  OBVIOUS
<1>3. \A y \in S : m >= y
  <2> SUFFICES ASSUME NEW y \in S PROVE m >= y
    OBVIOUS
  <2>1. N - m <= N - y
    BY <1>1, <1>2
  <2> QED
    BY <2>1, m \in 0..N, y \in 0..N
<1>4. \E z \in S : \A y \in S : z >= y
  BY <1>3
<1>5. Max(S) \in S /\ \A y \in S : Max(S) >= y
  BY <1>4 DEF Max
<1>6. \A y \in S : y \in Nat
  OBVIOUS
<1> QED
  BY <1>5, <1>6

LEMMA AppendLast ==
  ASSUME NEW C, NEW s \in Seq(C), NEW c \in C, NEW A, NEW B
  PROVE  /\ c \in A => LastIn(Append(s, c), A, B)
         /\ c \notin B /\ LastIn(s, A, B) => LastIn(Append(s, c), A, B)
         /\ c \notin B /\ NoneIn(s, B) => NoneIn(Append(s, c), B)
         /\ Commands(Append(s, c)) = Commands(s) \cup {c}
<1> DEFINE t == Append(s, c)
<1>1. DOMAIN s = 1..Len(s) /\ DOMAIN t = 1..(Len(s) + 1) /\ Len(s) \in Nat
  OBVIOUS
<1>2. t[Len(s) + 1] = c /\ \A i \in DOMAIN s : t[i] = s[i]
  OBVIOUS
<1>3. Len(s) + 1 \in DOMAIN t /\ DOMAIN s \subseteq DOMAIN t /\ \A i \in DOMAIN t : i \in DOMAIN s \/ i = Len(s) + 1
  BY <1>1
<1> HIDE DEF t
<1>4. c \in A => LastIn(t, A, B)
  BY <1>1, <1>2, <1>3 DEF LastIn
<1>5. c \notin B /\ LastIn(s, A, B) => LastIn(t, A, B)
  <2> SUFFICES ASSUME c \notin B, NEW i \in DOMAIN s, s[i] \in A, \A j \in DOMAIN s : j > i => s[j] \notin B
               PROVE  LastIn(t, A, B)
    BY DEF LastIn
  <2>1. t[i] \in A /\ i \in DOMAIN t
    BY <1>2, <1>3
  <2>2. \A j \in DOMAIN t : j > i => t[j] \notin B
    BY <1>2, <1>3
  <2> QED
    BY <2>1, <2>2 DEF LastIn
<1>6. c \notin B /\ NoneIn(s, B) => NoneIn(t, B)
  BY <1>2, <1>3 DEF NoneIn
<1>7. Commands(t) = Commands(s) \cup {c}
  BY <1>2, <1>3 DEF Commands
<1> QED
  BY <1>4, <1>5, <1>6, <1>7 DEF t

LEMMA TailLast ==
  ASSUME NEW C, NEW s \in Seq(C), s # <<>>, NEW A, NEW B
  PROVE  /\ Tail(s) \in Seq(C) /\ Head(s) \in C
         /\ NoneIn(s, B) => Head(s) \notin B /\ NoneIn(Tail(s), B)
         /\ LastIn(s, A, B) => LastIn(Tail(s), A, B) \/ (Head(s) \in A /\ NoneIn(Tail(s), B))
         /\ Commands(s) = Commands(Tail(s)) \cup {Head(s)}
<1> DEFINE t == Tail(s)
<1>1. DOMAIN s = 1..Len(s) /\ DOMAIN t = 1..(Len(s) - 1) /\ Len(s) \in Nat \ {0}
  OBVIOUS
<1>2. Head(s) = s[1] /\ \A i \in DOMAIN t : t[i] = s[i + 1]
  OBVIOUS
<1>3. t \in Seq(C) /\ Head(s) \in C
  OBVIOUS
<1>4. 1 \in DOMAIN s /\ \A i \in DOMAIN t : i + 1 \in DOMAIN s
  BY <1>1
<1>5. \A i \in DOMAIN s : i # 1 => i - 1 \in DOMAIN t /\ t[i - 1] = s[i]
  BY <1>1, <1>2
<1> HIDE DEF t
<1>6. NoneIn(s, B) => Head(s) \notin B /\ NoneIn(t, B)
  BY <1>2, <1>4 DEF NoneIn
<1>7. LastIn(s, A, B) => LastIn(t, A, B) \/ (Head(s) \in A /\ NoneIn(t, B))
  <2> SUFFICES ASSUME NEW i \in DOMAIN s, s[i] \in A, \A j \in DOMAIN s : j > i => s[j] \notin B
               PROVE  LastIn(t, A, B) \/ (Head(s) \in A /\ NoneIn(t, B))
    BY DEF LastIn
  <2>1. CASE i = 1
    <3>1. \A j \in DOMAIN t : t[j] \notin B
      BY <1>1, <1>2, <1>4, <2>1
    <3> QED
      BY <3>1, <2>1, <1>2 DEF NoneIn
  <2>2. CASE i # 1
    <3>1. i - 1 \in DOMAIN t /\ t[i - 1] \in A
      BY <1>5, <2>2
    <3>2. \A j \in DOMAIN t : j > i - 1 => t[j] \notin B
      BY <1>1, <1>2, <1>4
    <3> QED
      BY <3>1, <3>2 DEF LastIn
  <2> QED
    BY <2>1, <2>2
<1>8. Commands(s) = Commands(t) \cup {Head(s)}
  <2>1. \A i \in DOMAIN t : t[i] \in Commands(s)
    BY <1>2, <1>4 DEF Commands
  <2>2. \A i \in DOMAIN s : s[i] \in Commands(t) \cup {Head(s)}
    BY <1>2, <1>5 DEF Commands
  <2> QED
    BY <2>1, <2>2, <1>2, <1>4 DEF Commands
<1> QED
  BY <1>3, <1>6, <1>7, <1>8 DEF t

LEMMA EmptyLast == ASSUME NEW A, NEW B PROVE ~ LastIn(<<>>, A, B) /\ NoneIn(<<>>, B) /\ Commands(<<>>) = {}
BY DEF LastIn, NoneIn, Commands

LEMMA QueueGrows ==
  ASSUME NEW C, NEW q \in Seq(C), NEW c \in C, NEW A, NEW B, NEW b, NEW t, NEW e
  PROVE  /\ c \in A => Ends2(Append(q, c), b, A, B) /\ Ends3(Append(q, c), t, e, A, B)
         /\ c \notin B =>
              /\ Ends2(q, b, A, B) => Ends2(Append(q, c), b, A, B)
              /\ Still2(q, b, B) => Still2(Append(q, c), b, B)
              /\ Ends3(q, t, e, A, B) => Ends3(Append(q, c), t, e, A, B)
              /\ Still3(q, t, e, B) => Still3(Append(q, c), t, e, B)
BY AppendLast DEF Ends2, Still2, Ends3, Still3

\* update_processor takes the queue; the batch before was done.
LEMMA QueueMoves ==
  ASSUME NEW q, NEW A, NEW B, NEW e
  PROVE  /\ Ends2(q, <<>>, A, B) => Ends2(<<>>, q, A, B)
         /\ Still2(q, <<>>, B) => Still2(<<>>, q, B)
         /\ Ends3(q, <<>>, e, A, B) => Ends3(<<>>, q, e, A, B)
         /\ Still3(q, <<>>, e, B) => Still3(<<>>, q, e, B)
BY EmptyLast DEF Ends2, Still2, Ends3, Still3

\* A command goes to the chat thread.
LEMMA EventMoves ==
  ASSUME NEW C, NEW q, NEW t \in Seq(C), t # <<>>, NEW e \in Seq(C), NEW A, NEW B
  PROVE  /\ Ends3(q, t, e, A, B) => Ends3(q, Tail(t), Append(e, Head(t)), A, B)
         /\ Still3(q, t, e, B) => Still3(q, Tail(t), Append(e, Head(t)), B)
<1>1. /\ Head(t) \in C /\ (NoneIn(t, B) => Head(t) \notin B /\ NoneIn(Tail(t), B))
      /\ LastIn(t, A, B) => LastIn(Tail(t), A, B) \/ (Head(t) \in A /\ NoneIn(Tail(t), B))
  BY TailLast
<1>2. /\ Head(t) \in A => LastIn(Append(e, Head(t)), A, B)
      /\ Head(t) \notin B /\ LastIn(e, A, B) => LastIn(Append(e, Head(t)), A, B)
      /\ Head(t) \notin B /\ NoneIn(e, B) => NoneIn(Append(e, Head(t)), B)
  BY <1>1, AppendLast
<1> QED
  BY <1>1, <1>2 DEF Ends3, Still3

\* A command is done.
LEMMA CommandDone ==
  ASSUME NEW C, NEW q, NEW b \in Seq(C), b # <<>>, NEW A, NEW B
  PROVE  /\ Ends2(q, b, A, B) => Ends2(q, Tail(b), A, B) \/ (Head(b) \in A /\ Still2(q, Tail(b), B))
         /\ Still2(q, b, B) => Still2(q, Tail(b), B) /\ Head(b) \notin B
BY TailLast DEF Ends2, Still2

LEMMA EventDone ==
  ASSUME NEW C, NEW q, NEW t, NEW e \in Seq(C), e # <<>>, NEW A, NEW B
  PROVE  /\ Ends3(q, t, e, A, B) => Ends3(q, t, Tail(e), A, B) \/ (Head(e) \in A /\ Still3(q, t, Tail(e), B))
         /\ Still3(q, t, e, B) => Still3(q, t, Tail(e), B) /\ Head(e) \notin B
BY TailLast DEF Ends3, Still3

LEMMA NothingUnderWay ==
  ASSUME NEW A, NEW B
  PROVE  ~ Ends2(<<>>, <<>>, A, B) /\ ~ Ends3(<<>>, <<>>, <<>>, A, B)
BY EmptyLast DEF Ends2, Ends3
-----------------------------------------------------------------------------
(* What a step changes.                                                    *)

LEMMA EmptyFields ==
  ASSUME NEW i PROVE EmptyItem(i) = [n |-> 0, id |-> i, uid |-> "nobody"]
BY DEF EmptyItem, NoKlap

LEMMA RealKlaps ==
  /\ \A k \in Klap : k.n # 0 /\ k.n \in Nat /\ k.id \in KlapId /\ k.uid \in Offender /\ k \notin Empties /\ k # NoKlap
  /\ \A k \in Empties : k.n = 0 /\ k.id \in KlapId /\ k = EmptyItem(k.id)
  /\ NoKlap.n = 0
<1>1. \A k \in Empties : k.n = 0 /\ k.id \in KlapId /\ k = EmptyItem(k.id)
  BY EmptyFields DEF Empties
<1>2. \A k \in Klap : k.n # 0 /\ k.n \in Nat /\ k.id \in KlapId /\ k.uid \in Offender
  BY KlapsAssumption DEF Klap
<1>3. NoKlap.n = 0
  BY DEF NoKlap
<1> QED
  BY <1>1, <1>2, <1>3

LEMMA CommandKinds ==
  /\ \A k \in Klap : AddingKlap(k) \in KlapCommand /\ RemovingKlap(k) \in KlapCommand
  /\ \A k \in Empties : RemovingKlap(k) \in KlapCommand
  /\ \A c \in KlapCommand :
       \/ c.cmd = "ban$add" /\ c.klap \in Klap /\ c = AddingKlap(c.klap)
       \/ c.cmd = "ban$remove" /\ c.klap \in Klap \cup Empties /\ c = RemovingKlap(c.klap)
       \/ c \in ModeratorCommand /\ c.cmd \in {"moderator$add", "moderator$remove"} /\ c.klap = NoKlap /\ c.uid \in Moder
       \/ c \in ChannelCommand /\ c.cmd = "channel$update" /\ c.klap = NoKlap /\ c.moders \subseteq Moder
  /\ ModeratorCommand \subseteq KlapCommand /\ ChannelCommand \subseteq KlapCommand
<1>1. \A k \in Klap : AddingKlap(k) \in KlapCommand /\ RemovingKlap(k) \in KlapCommand
  BY DEF AddingKlap, RemovingKlap, KlapCommand
<1>2. \A k \in Empties : RemovingKlap(k) \in KlapCommand
  BY DEF RemovingKlap, KlapCommand
<1>3. \A c \in [cmd : {"ban$add"}, klap : Klap] : c.cmd = "ban$add" /\ c.klap \in Klap /\ c = AddingKlap(c.klap)
  BY DEF AddingKlap
<1>4. \A c \in [cmd : {"ban$remove"}, klap : Klap \cup Empties] :
        c.cmd = "ban$remove" /\ c.klap \in Klap \cup Empties /\ c = RemovingKlap(c.klap)
  BY DEF RemovingKlap
<1>5. \A c \in ModeratorCommand : c.cmd \in {"moderator$add", "moderator$remove"} /\ c.klap = NoKlap /\ c.uid \in Moder
  BY DEF ModeratorCommand
<1>6. \A c \in ChannelCommand : c.cmd = "channel$update" /\ c.klap = NoKlap /\ c.moders \subseteq Moder
  BY DEF ChannelCommand
<1> QED
  BY <1>1, <1>2, <1>3, <1>4, <1>5, <1>6 DEF KlapCommand

LEMMA KlapCommandsTellNothing ==
  ASSUME NEW k, NEW m, NEW b
  PROVE  /\ AddingKlap(k) \notin Tells(m, b) /\ RemovingKlap(k) \notin Tells(m, b)
         /\ AddingKlap(k) \notin Tell(m) /\ RemovingKlap(k) \notin Tell(m)
         /\ AddingKlap(k).cmd = "ban$add" /\ AddingKlap(k).klap = k
         /\ RemovingKlap(k).cmd = "ban$remove" /\ RemovingKlap(k).klap = k
<1>1. /\ AddingKlap(k).cmd = "ban$add" /\ AddingKlap(k).klap = k
      /\ RemovingKlap(k).cmd = "ban$remove" /\ RemovingKlap(k).klap = k
  BY DEF AddingKlap, RemovingKlap
<1>2. \A c \in ModeratorCommand : c.cmd \in {"moderator$add", "moderator$remove"}
  BY DEF ModeratorCommand
<1>3. \A c \in ChannelCommand : c.cmd = "channel$update"
  BY DEF ChannelCommand
<1>4. \A c \in Tell(m) \cup Tells(m, b) : c \in ModeratorCommand \cup ChannelCommand
  BY DEF Tell, Tells
<1> QED
  BY <1>1, <1>2, <1>3, <1>4

\* A page takes up something else.
LEMMA PageChanges ==
  ASSUME kl_page \in [KlapPage -> KlapWork], NEW p \in KlapPage, NEW w, kl_page' = [kl_page EXCEPT ![p] = w]
  PROVE  /\ kl_page'[p] = w /\ \A q \in KlapPage : q # p => kl_page'[q] = kl_page[q]
         /\ w \in KlapWork => kl_page' \in [KlapPage -> KlapWork]
OBVIOUS

LEMMA PageStepChanges ==
  ASSUME kl_page \in [KlapPage -> KlapWork], NEW p \in KlapPage, NEW s, PageGoes(p, s)
  PROVE  kl_page' = [kl_page EXCEPT ![p] = [kl_page[p] EXCEPT !.at = s]]
BY DEF PageGoes

LEMMA RestIsWork == PageAtRest \in KlapWork /\ PageAtRest.at = "idle" /\ PageAtRest.klap = NoKlap
BY DEF PageAtRest, KlapWork

\* Klaps being laid, when one page changes.
LaysAt == {"add", "queue add"}
LEMMA LayingChanges ==
  ASSUME NEW p \in KlapPage, \A q \in KlapPage : q # p => kl_page'[q] = kl_page[q], LaidAlone
  PROVE  /\ kl_page[p].at \notin LaysAt /\ kl_page'[p].at \notin LaysAt => BeingLaid' = BeingLaid
         /\ kl_page[p].at \notin LaysAt /\ kl_page'[p].at \in LaysAt => BeingLaid' = BeingLaid \cup {kl_page'[p].klap}
         /\ kl_page[p].at \in LaysAt /\ kl_page'[p].at \in LaysAt /\ kl_page'[p].klap = kl_page[p].klap => BeingLaid' = BeingLaid
         /\ kl_page[p].at \in LaysAt /\ kl_page'[p].at \notin LaysAt => BeingLaid' = BeingLaid \ {kl_page[p].klap}
<1> DEFINE Others == {kl_page[q].klap : q \in {r \in KlapPage : r # p /\ kl_page[r].at \in LaysAt}}
<1>1. BeingLaid = Others \cup (IF kl_page[p].at \in LaysAt THEN {kl_page[p].klap} ELSE {})
  BY DEF BeingLaid, PageAt, LaysAt
<1>2. BeingLaid' = Others \cup (IF kl_page'[p].at \in LaysAt THEN {kl_page'[p].klap} ELSE {})
  BY DEF BeingLaid, PageAt, LaysAt
<1>3. kl_page[p].at \in LaysAt => kl_page[p].klap \notin Others
  BY DEF LaidAlone, LaysAt
<1> HIDE DEF Others
<1> QED
  BY <1>1, <1>2, <1>3
-----------------------------------------------------------------------------
(* What a step does to the commands under way.                             *)

LEMMA FlowStays ==
  ASSUME FlowOK, kl_laid \subseteq kl_laid', UNCHANGED commandVars
  PROVE  /\ FlowOK' /\ UnderWay' = UnderWay
         /\ Commands(kl_queue)' = Commands(kl_queue) /\ Commands(ToChat)' = Commands(ToChat) /\ Commands(kl_events)' = Commands(kl_events)
         /\ \A A, B : /\ EndsPages(A, B)' <=> EndsPages(A, B)
                      /\ EndsChat(A, B)' <=> EndsChat(A, B)
         /\ \A B : (StillPages(B)' <=> StillPages(B)) /\ (StillChat(B)' <=> StillChat(B))
BY DEF FlowOK, UnderWay, ToChat, commandVars, EndsPages, StillPages, EndsChat, StillChat

LEMMA FlowQueues ==
  ASSUME FlowOK, kl_laid \subseteq kl_laid',
         NEW c \in KlapCommand, c.klap \in kl_laid' \cup Empties \cup {NoKlap},
         kl_queue' = Append(kl_queue, c), UNCHANGED <<kl_batch, kl_step, kl_events>>
  PROVE  /\ FlowOK' /\ UnderWay' = UnderWay \cup {c}
         /\ Commands(kl_queue)' = Commands(kl_queue) \cup {c} /\ Commands(ToChat)' = Commands(ToChat) /\ Commands(kl_events)' = Commands(kl_events)
         /\ \A A, B : /\ c \in A => EndsPages(A, B)' /\ EndsChat(A, B)'
                      /\ c \notin B => (EndsPages(A, B) => EndsPages(A, B)') /\ (EndsChat(A, B) => EndsChat(A, B)')
         /\ \A B : c \notin B => (StillPages(B) => StillPages(B)') /\ (StillChat(B) => StillChat(B)')
<1>1. kl_queue \in Seq(KlapCommand)
  BY DEF FlowOK
<1>2. kl_queue' \in Seq(KlapCommand)
  BY <1>1
<1>3. Commands(kl_queue)' = Commands(kl_queue) \cup {c}
  BY <1>1, AppendLast DEF Commands
<1>4. ToChat' = ToChat
  BY DEF ToChat
<1>5. Commands(kl_batch)' = Commands(kl_batch) /\ Commands(kl_events)' = Commands(kl_events) /\ Commands(ToChat)' = Commands(ToChat)
  BY <1>4 DEF Commands
<1>6. UnderWay' = UnderWay \cup {c}
  BY <1>3, <1>5 DEF UnderWay
<1>7. FlowOK'
  BY <1>2, <1>6 DEF FlowOK
<1>8. ASSUME NEW A, NEW B
      PROVE  /\ c \in A => EndsPages(A, B)' /\ EndsChat(A, B)'
             /\ c \notin B => (EndsPages(A, B) => EndsPages(A, B)') /\ (EndsChat(A, B) => EndsChat(A, B)')
             /\ c \notin B => (StillPages(B) => StillPages(B)') /\ (StillChat(B) => StillChat(B)')
  BY <1>1, <1>4, QueueGrows DEF EndsPages, EndsChat, StillPages, StillChat
<1> QED
  BY <1>3, <1>5, <1>6, <1>7, <1>8

LEMMA FlowTakes ==
  ASSUME FlowOK, take_commands
  PROVE  /\ FlowOK' /\ UnderWay' = UnderWay
         /\ Commands(kl_queue)' \cup Commands(ToChat)' \cup Commands(kl_events)' = Commands(kl_queue) \cup Commands(ToChat) \cup Commands(kl_events)
         /\ \A A, B : (EndsPages(A, B) => EndsPages(A, B)') /\ (EndsChat(A, B) => EndsChat(A, B)')
         /\ \A B : (StillPages(B) => StillPages(B)') /\ (StillChat(B) => StillChat(B)')
<1>1. /\ kl_batch = <<>> /\ kl_batch' = kl_queue /\ kl_queue' = <<>> /\ kl_events' = kl_events
      /\ kl_step = "event" /\ kl_step' = "event" /\ kl_laid' = kl_laid
  BY DEF take_commands, FlowOK, klapVars
<1>2. ToChat = <<>> /\ ToChat' = kl_queue
  BY <1>1 DEF ToChat
<1>3. Commands(<<>>) = {}
  BY EmptyLast
<1>4. /\ Commands(kl_queue)' = {} /\ Commands(kl_batch)' = Commands(kl_queue) /\ Commands(kl_batch) = {}
      /\ Commands(ToChat)' = Commands(kl_queue) /\ Commands(ToChat) = {} /\ Commands(kl_events)' = Commands(kl_events)
  BY <1>1, <1>2, <1>3 DEF Commands
<1>5. UnderWay' = UnderWay
  BY <1>4 DEF UnderWay
<1>6. FlowOK'
  BY <1>1, <1>5 DEF FlowOK
<1>7. ASSUME NEW A, NEW B
      PROVE  /\ (EndsPages(A, B) => EndsPages(A, B)') /\ (EndsChat(A, B) => EndsChat(A, B)')
             /\ (StillPages(B) => StillPages(B)') /\ (StillChat(B) => StillChat(B)')
  BY <1>1, <1>2, QueueMoves DEF EndsPages, EndsChat, StillPages, StillChat
<1> QED
  BY <1>4, <1>5, <1>6, <1>7

LEMMA FlowSends ==
  ASSUME FlowOK, push_event
  PROVE  /\ FlowOK' /\ UnderWay' = UnderWay
         /\ Commands(kl_queue)' \cup Commands(ToChat)' \cup Commands(kl_events)' = Commands(kl_queue) \cup Commands(ToChat) \cup Commands(kl_events)
         /\ \A A, B : (EndsPages(A, B) => EndsPages(A, B)') /\ (EndsChat(A, B) => EndsChat(A, B)')
         /\ \A B : (StillPages(B) => StillPages(B)') /\ (StillChat(B) => StillChat(B)')
<1>1. /\ kl_batch # <<>> /\ kl_batch' = kl_batch /\ kl_queue' = kl_queue /\ kl_events' = Append(kl_events, Head(kl_batch))
      /\ kl_step = "event" /\ kl_step' = "datum" /\ kl_laid' = kl_laid
  BY DEF push_event, klapVars
<1>2. kl_batch \in Seq(KlapCommand) /\ kl_events \in Seq(KlapCommand)
  BY DEF FlowOK
<1>3. ToChat = kl_batch /\ ToChat' = Tail(kl_batch)
  BY <1>1 DEF ToChat
<1>4. /\ Commands(kl_batch) = Commands(Tail(kl_batch)) \cup {Head(kl_batch)} /\ Head(kl_batch) \in KlapCommand
      /\ Tail(kl_batch) \in Seq(KlapCommand)
  BY <1>1, <1>2, TailLast
<1>5. Commands(Append(kl_events, Head(kl_batch))) = Commands(kl_events) \cup {Head(kl_batch)}
  BY <1>2, <1>4, AppendLast
<1>6. /\ Commands(kl_queue)' = Commands(kl_queue) /\ Commands(kl_batch)' = Commands(kl_batch)
      /\ Commands(ToChat)' = Commands(Tail(kl_batch)) /\ Commands(kl_events)' = Commands(kl_events) \cup {Head(kl_batch)}
  BY <1>1, <1>3, <1>5 DEF Commands
<1>7. UnderWay' = UnderWay
  BY <1>4, <1>6 DEF UnderWay
<1>8. kl_events' \in Seq(KlapCommand)
  BY <1>1, <1>2, <1>4
<1>9. FlowOK'
  BY <1>1, <1>7, <1>8 DEF FlowOK
<1>10. ASSUME NEW A, NEW B
       PROVE  /\ (EndsPages(A, B) => EndsPages(A, B)') /\ (EndsChat(A, B) => EndsChat(A, B)')
              /\ (StillPages(B) => StillPages(B)') /\ (StillChat(B) => StillChat(B)')
  BY <1>1, <1>2, <1>3, EventMoves DEF EndsPages, EndsChat, StillPages, StillChat
<1> QED
  BY <1>3, <1>4, <1>6, <1>7, <1>9, <1>10

\* The queue, seen from the batch: nothing, or a command more.
LEMMA FlowDone ==
  ASSUME FlowOK, kl_step = "datum", kl_step' = "event", kl_batch' = Tail(kl_batch), kl_events' = kl_events, kl_laid' = kl_laid,
         NEW c \in KlapCommand, c.klap \in kl_laid \cup Empties \cup {NoKlap},
         kl_queue' = kl_queue \/ kl_queue' = Append(kl_queue, c)
  PROVE  /\ FlowOK' /\ UnderWay' \subseteq UnderWay \cup {c}
         /\ Head(kl_batch) \in UnderWay /\ Head(kl_batch) \in KlapCommand
         /\ kl_queue' # kl_queue => c \in UnderWay'
         /\ Commands(kl_queue) \subseteq Commands(kl_queue)' /\ Commands(ToChat)' = Commands(ToChat) /\ Commands(kl_events)' = Commands(kl_events)
         /\ \A A, B : /\ kl_queue' # kl_queue /\ c \in A => EndsPages(A, B)' /\ EndsChat(A, B)'
                      /\ kl_queue' = kl_queue \/ c \notin B =>
                           /\ EndsPages(A, B) => EndsPages(A, B)' \/ (Head(kl_batch) \in A /\ StillPages(B)')
                           /\ EndsChat(A, B) => EndsChat(A, B)'
         /\ \A B : kl_queue' = kl_queue \/ c \notin B =>
              /\ StillPages(B) => StillPages(B)' /\ Head(kl_batch) \notin B
              /\ StillChat(B) => StillChat(B)'
<1>1. kl_batch # <<>> /\ kl_batch \in Seq(KlapCommand) /\ kl_queue \in Seq(KlapCommand) /\ kl_events \in Seq(KlapCommand)
  BY DEF FlowOK
<1>2. ToChat' = ToChat
  BY DEF ToChat
<1>3. /\ Commands(kl_batch) = Commands(Tail(kl_batch)) \cup {Head(kl_batch)} /\ Head(kl_batch) \in KlapCommand
      /\ Tail(kl_batch) \in Seq(KlapCommand)
  BY <1>1, TailLast
<1>4. Commands(Append(kl_queue, c)) = Commands(kl_queue) \cup {c}
  BY <1>1, AppendLast
<1>5. /\ Commands(kl_batch)' = Commands(Tail(kl_batch)) /\ Commands(kl_events)' = Commands(kl_events)
      /\ Commands(kl_queue)' = Commands(kl_queue) \/ Commands(kl_queue)' = Commands(kl_queue) \cup {c}
      /\ kl_queue' # kl_queue => c \in Commands(kl_queue)'
  BY <1>4 DEF Commands
<1>6. UnderWay' \subseteq UnderWay \cup {c} /\ Head(kl_batch) \in UnderWay /\ (kl_queue' # kl_queue => c \in UnderWay')
  BY <1>3, <1>5 DEF UnderWay
<1>7. kl_queue' \in Seq(KlapCommand)
  <2>1. Append(kl_queue, c) \in Seq(KlapCommand)
    BY <1>1
  <2> QED
    BY <2>1, <1>1
<1>8. FlowOK'
  BY <1>1, <1>3, <1>6, <1>7 DEF FlowOK
<1>9. Commands(ToChat)' = Commands(ToChat)
  BY <1>2 DEF Commands
<1>10. ASSUME NEW A, NEW B
       PROVE  /\ kl_queue' # kl_queue /\ c \in A => EndsPages(A, B)' /\ EndsChat(A, B)'
              /\ kl_queue' = kl_queue \/ c \notin B =>
                   /\ EndsPages(A, B) => EndsPages(A, B)' \/ (Head(kl_batch) \in A /\ StillPages(B)')
                   /\ EndsChat(A, B) => EndsChat(A, B)'
                   /\ StillPages(B) => StillPages(B)' /\ Head(kl_batch) \notin B
                   /\ StillChat(B) => StillChat(B)'
  <2>1. /\ Ends2(kl_queue, kl_batch, A, B) => Ends2(kl_queue, kl_batch', A, B) \/ (Head(kl_batch) \in A /\ Still2(kl_queue, kl_batch', B))
        /\ Still2(kl_queue, kl_batch, B) => Still2(kl_queue, kl_batch', B) /\ Head(kl_batch) \notin B
    BY <1>1, CommandDone
  <2>2. CASE kl_queue' = kl_queue
    BY <2>1, <2>2, <1>2 DEF EndsPages, EndsChat, StillPages, StillChat
  <2>3. CASE kl_queue' # kl_queue
    <3>1. kl_queue' = Append(kl_queue, c)
      BY <2>3
    <3>2. /\ c \in A => Ends2(kl_queue', kl_batch', A, B) /\ Ends3(kl_queue', ToChat, kl_events, A, B)
          /\ c \notin B =>
               /\ Ends2(kl_queue, kl_batch', A, B) => Ends2(kl_queue', kl_batch', A, B)
               /\ Still2(kl_queue, kl_batch', B) => Still2(kl_queue', kl_batch', B)
               /\ Ends3(kl_queue, ToChat, kl_events, A, B) => Ends3(kl_queue', ToChat, kl_events, A, B)
               /\ Still3(kl_queue, ToChat, kl_events, B) => Still3(kl_queue', ToChat, kl_events, B)
      BY <3>1, <1>1, QueueGrows
    <3> QED
      BY <2>1, <3>2, <2>3, <1>2 DEF EndsPages, EndsChat, StillPages, StillChat
  <2> QED
    BY <2>2, <2>3
<1> QED
  BY <1>3, <1>5, <1>6, <1>8, <1>9, <1>10

LEMMA FlowHeard ==
  ASSUME FlowOK, kl_events # <<>>, kl_events' = Tail(kl_events), UNCHANGED <<kl_queue, kl_batch, kl_step, kl_laid>>
  PROVE  /\ FlowOK' /\ UnderWay' \subseteq UnderWay
         /\ Head(kl_events) \in UnderWay /\ Head(kl_events) \in KlapCommand
         /\ Commands(kl_queue)' = Commands(kl_queue) /\ Commands(ToChat)' = Commands(ToChat)
         /\ Commands(kl_events) = Commands(kl_events)' \cup {Head(kl_events)}
         /\ \A A, B : /\ EndsPages(A, B)' <=> EndsPages(A, B)
                      /\ EndsChat(A, B) => EndsChat(A, B)' \/ (Head(kl_events) \in A /\ StillChat(B)')
         /\ \A B : /\ StillPages(B)' <=> StillPages(B)
                   /\ StillChat(B) => StillChat(B)' /\ Head(kl_events) \notin B
<1>1. kl_events \in Seq(KlapCommand)
  BY DEF FlowOK
<1>2. ToChat' = ToChat
  BY DEF ToChat
<1>3. /\ Commands(kl_events) = Commands(Tail(kl_events)) \cup {Head(kl_events)} /\ Head(kl_events) \in KlapCommand
      /\ Tail(kl_events) \in Seq(KlapCommand)
  BY <1>1, TailLast
<1>4. /\ Commands(kl_batch)' = Commands(kl_batch) /\ Commands(kl_events)' = Commands(Tail(kl_events))
      /\ Commands(kl_queue)' = Commands(kl_queue) /\ Commands(ToChat)' = Commands(ToChat)
  BY <1>2 DEF Commands
<1>5. UnderWay' \subseteq UnderWay /\ Head(kl_events) \in UnderWay
  BY <1>3, <1>4 DEF UnderWay
<1>6. FlowOK'
  BY <1>3, <1>5 DEF FlowOK
<1>7. ASSUME NEW A, NEW B
      PROVE  /\ EndsPages(A, B)' <=> EndsPages(A, B)
             /\ EndsChat(A, B) => EndsChat(A, B)' \/ (Head(kl_events) \in A /\ StillChat(B)')
             /\ StillPages(B)' <=> StillPages(B)
             /\ StillChat(B) => StillChat(B)' /\ Head(kl_events) \notin B
  BY <1>1, <1>2, EventDone DEF EndsPages, EndsChat, StillPages, StillChat
<1> QED
  BY <1>3, <1>4, <1>5, <1>6, <1>7
-----------------------------------------------------------------------------
(* Steps that leave the moderators alone.                                  *)

LEMMA TellsIsTold == ASSUME NEW m, NEW b \in BOOLEAN PROVE Tells(m, b) \subseteq Tell(m)
BY DEF Tell

AsideOf == {"idle", "add", "queue add", "lift"}

\* Who does nothing with moderators, before and after.
PagesAside ==
  \A q \in KlapPage : kl_page'[q] = kl_page[q] \/ {kl_page[q].at, kl_page'[q].at} \subseteq AsideOf

LEMMA AsideKnows ==
  ASSUME PagesAside, kl_moders' = kl_moders, NEW m, \A p \in KlapPage : PageKnows(m, p)
  PROVE  (\A p \in KlapPage : PageKnows(m, p)') /\ (Telling(m) => Telling(m)')
<1>1. \A p \in KlapPage : PageKnows(m, p)'
  BY DEF PagesAside, PageKnows, AsideOf
<1>2. Telling(m) => Telling(m)'
  BY DEF PagesAside, Telling, TellsAt, AsideOf
<1> QED
  BY <1>1, <1>2

LEMMA ModeratorsKept ==
  ASSUME ModeratorsTrack, PagesAside, kl_moders' = kl_moders, kl_wiped \subseteq kl_wiped',
         \A m \in Moder, b \in BOOLEAN :
           /\ EndsPages(Tells(m, b), Tell(m)) => EndsPages(Tells(m, b), Tell(m))'
           /\ StillPages(Tell(m)) => StillPages(Tell(m))'
           /\ EndsChat(Tells(m, b), Tell(m)) => EndsChat(Tells(m, b), Tell(m))'
           /\ StillChat(Tell(m)) => StillChat(Tell(m))'
  PROVE  ModeratorsTrack'
<1> SUFFICES ASSUME NEW m \in Moder, m \notin kl_wiped' PROVE ModeratorTracks(m)'
  BY DEF ModeratorsTrack
<1>1. ModeratorTracks(m)
  BY DEF ModeratorsTrack
<1>2. (\A p \in KlapPage : PageKnows(m, p)') /\ (Telling(m) => Telling(m)')
  BY <1>1, AsideKnows DEF ModeratorTracks
<1>3. \A b \in BOOLEAN : PagesAreTold(m, b) /\ ChatIsTold(m, b) => PagesAreTold(m, b)' /\ ChatIsTold(m, b)'
  BY DEF PagesAreTold, ChatIsTold
<1> QED
  BY <1>1, <1>2, <1>3 DEF ModeratorTracks
-----------------------------------------------------------------------------
(* Steps that leave the klaps alone.                                       *)

LEMMA KlapsKept ==
  ASSUME ClearHold, ForceRules, LiftedGo,
         UNCHANGED <<kl_items, kl_by_uid, kl_laid>>,
         kl_lifted \subseteq kl_lifted', kl_lifted' \ kl_blurred' \subseteq kl_lifted,
         kl_lapsed \subseteq kl_lapsed', kl_blurred \subseteq kl_blurred', kl_wiped \subseteq kl_wiped',
         BeingLaid' \subseteq BeingLaid, InPlay' \subseteq InPlay, Removals' \subseteq Removals,
         \A k \in (Clear \cap kl_laid) \ (kl_wiped' \cup kl_lapsed') : ChatWillKnow(k) => ChatWillKnow(k)',
         \A k \in kl_lifted : GoesFor(k) => GoesFor(k)'
  PROVE  ClearHold' /\ ForceRules' /\ LiftedGo'
<1>1. Clear' \subseteq Clear
  BY DEF Clear
<1>2. ASSUME NEW k \in Clear', Holds(k) PROVE Holds(k)'
  BY <1>2 DEF Holds
<1>3. ASSUME NEW k \in Clear' \ kl_lapsed', Rules(k) PROVE Rules(k)'
  <2>1. \A i \in DOMAIN kl_items : kl_items[i].n # 0 /\ kl_items[i].uid = k.uid /\ kl_items[i] # k => kl_items[i] \in kl_lapsed'
    BY <1>3 DEF Rules
  <2>2. \A j \in InPlay' : j # k => j.uid # k.uid
    BY <1>3 DEF Rules
  <2>3. \A c \in Removals' : c.klap.n # 0 /\ c.klap # k => c.klap.uid # k.uid
    BY <1>3 DEF Rules
  <2>4. k \in kl_laid' => k.uid \in DOMAIN kl_by_uid' /\ kl_by_uid'[k.uid] = k.id
    BY <1>3 DEF Rules
  <2> QED
    BY <2>1, <2>2, <2>3, <2>4 DEF Rules
<1>4. ClearHold'
  BY <1>1, <1>2 DEF ClearHold
<1>5. ForceRules'
  BY <1>1, <1>3 DEF ForceRules
<1>6. LiftedGo'
  BY DEF LiftedGo
<1> QED
  BY <1>4, <1>5, <1>6

\* What is in play, and the removals, when the commands under way change.
LEMMA InPlayChanges ==
  /\ BeingLaid' \subseteq BeingLaid /\ UnderWay' \subseteq UnderWay => InPlay' \subseteq InPlay
  /\ UnderWay' \subseteq UnderWay => Removals' \subseteq Removals
  /\ UnderWay' = UnderWay => Removals' = Removals
  /\ \A c : /\ UnderWay' \subseteq UnderWay \cup {c} /\ c.cmd # "ban$remove" => Removals' \subseteq Removals
            /\ UnderWay' \subseteq UnderWay \cup {c} => Removals' \subseteq Removals \cup {c}
            /\ UnderWay' \subseteq UnderWay \cup {c} /\ BeingLaid' \subseteq BeingLaid /\ c.cmd # "ban$add" => InPlay' \subseteq InPlay
BY DEF InPlay, Removals

\* A lifted klap and what becomes of it, when only the commands move.
LEMMA GoesOn ==
  ASSUME NEW k, GoesFor(k), k \notin BeingLaid',
         UNCHANGED <<kl_items, kl_klaped>>,
         EndsPages({RemovingKlap(k)}, {AddingKlap(k)}) => EndsPages({RemovingKlap(k)}, {AddingKlap(k)})',
         StillPages({AddingKlap(k)}) => StillPages({AddingKlap(k)})',
         EndsChat({RemovingKlap(k)}, {AddingKlap(k)}) => EndsChat({RemovingKlap(k)}, {AddingKlap(k)})',
         StillChat({AddingKlap(k)}) => StillChat({AddingKlap(k)})'
  PROVE  GoesFor(k)'
BY DEF GoesFor

LEMMA TakeKeeps == KlapsInv /\ take_commands => KlapsInv'
<1> SUFFICES ASSUME KlapsInv, take_commands PROVE KlapsInv'
  OBVIOUS
<1> USE DEF KlapsInv, KlapsTypeOK
<1>1. /\ FlowOK' /\ UnderWay' = UnderWay
      /\ Commands(kl_queue)' \cup Commands(ToChat)' \cup Commands(kl_events)' = Commands(kl_queue) \cup Commands(ToChat) \cup Commands(kl_events)
      /\ \A A, B : (EndsPages(A, B) => EndsPages(A, B)') /\ (EndsChat(A, B) => EndsChat(A, B)')
      /\ \A B : (StillPages(B) => StillPages(B)') /\ (StillChat(B) => StillChat(B)')
  BY FlowTakes
<1>2. UNCHANGED <<klapVars, channelVars, kl_page>>
  BY DEF take_commands
<1>3. /\ UNCHANGED <<kl_items, kl_by_uid, kl_laid, kl_lifted, kl_lapsed, kl_blurred>>
      /\ UNCHANGED <<kl_moders, kl_klaped, kl_wiped, kl_page>>
  BY <1>2 DEF klapVars, channelVars
<1> HIDE DEF KlapsInv, KlapsTypeOK
<1>4. KlapsTypeOK'
  BY <1>1, <1>3 DEF KlapsInv, KlapsTypeOK, HistoryOK, ItemsOK, PagesOK, KlapPageOK, ChatOK
<1>5. LaidAlone' /\ BeingLaid' = BeingLaid
  BY <1>3 DEF KlapsInv, LaidAlone, BeingLaid, PageAt
<1>6. ModeratorsTrack'
  <2>1. PagesAside
    BY <1>3 DEF PagesAside
  <2> QED
    BY <1>1, <1>3, <2>1, ModeratorsKept DEF KlapsInv
<1>7. \A k \in kl_laid : ChatWillKnow(k) => ChatWillKnow(k)'
  BY <1>1, <1>3 DEF ChatWillKnow
<1>8. \A k \in kl_lifted : GoesFor(k) => GoesFor(k)'
  <2> SUFFICES ASSUME NEW k \in kl_lifted, GoesFor(k) PROVE GoesFor(k)'
    OBVIOUS
  <2>1. k \notin BeingLaid'
    BY <1>5 DEF GoesFor
  <2> QED
    BY <1>1, <1>3, <2>1, GoesOn
<1>9. ClearHold' /\ ForceRules' /\ LiftedGo'
  BY <1>1, <1>3, <1>5, <1>7, <1>8, KlapsKept, InPlayChanges DEF KlapsInv
<1> QED
  BY <1>4, <1>5, <1>6, <1>9 DEF KlapsInv

LEMMA PushKeeps == KlapsInv /\ push_event => KlapsInv'
<1> SUFFICES ASSUME KlapsInv, push_event PROVE KlapsInv'
  OBVIOUS
<1> USE DEF KlapsInv, KlapsTypeOK
<1>1. /\ FlowOK' /\ UnderWay' = UnderWay
      /\ Commands(kl_queue)' \cup Commands(ToChat)' \cup Commands(kl_events)' = Commands(kl_queue) \cup Commands(ToChat) \cup Commands(kl_events)
      /\ \A A, B : (EndsPages(A, B) => EndsPages(A, B)') /\ (EndsChat(A, B) => EndsChat(A, B)')
      /\ \A B : (StillPages(B) => StillPages(B)') /\ (StillChat(B) => StillChat(B)')
  BY FlowSends
<1>2. UNCHANGED <<klapVars, channelVars, kl_page>>
  BY DEF push_event
<1>3. /\ UNCHANGED <<kl_items, kl_by_uid, kl_laid, kl_lifted, kl_lapsed, kl_blurred>>
      /\ UNCHANGED <<kl_moders, kl_klaped, kl_wiped, kl_page>>
  BY <1>2 DEF klapVars, channelVars
<1> HIDE DEF KlapsInv, KlapsTypeOK
<1>4. KlapsTypeOK'
  BY <1>1, <1>3 DEF KlapsInv, KlapsTypeOK, HistoryOK, ItemsOK, PagesOK, KlapPageOK, ChatOK
<1>5. LaidAlone' /\ BeingLaid' = BeingLaid
  BY <1>3 DEF KlapsInv, LaidAlone, BeingLaid, PageAt
<1>6. ModeratorsTrack'
  <2>1. PagesAside
    BY <1>3 DEF PagesAside
  <2> QED
    BY <1>1, <1>3, <2>1, ModeratorsKept DEF KlapsInv
<1>7. \A k \in kl_laid : ChatWillKnow(k) => ChatWillKnow(k)'
  BY <1>1, <1>3 DEF ChatWillKnow
<1>8. \A k \in kl_lifted : GoesFor(k) => GoesFor(k)'
  <2> SUFFICES ASSUME NEW k \in kl_lifted, GoesFor(k) PROVE GoesFor(k)'
    OBVIOUS
  <2>1. k \notin BeingLaid'
    BY <1>5 DEF GoesFor
  <2> QED
    BY <1>1, <1>3, <2>1, GoesOn
<1>9. ClearHold' /\ ForceRules' /\ LiftedGo'
  BY <1>1, <1>3, <1>5, <1>7, <1>8, KlapsKept, InPlayChanges DEF KlapsInv
<1> QED
  BY <1>4, <1>5, <1>6, <1>9 DEF KlapsInv
-----------------------------------------------------------------------------
(* One page does something, and the klaps stay.                            *)

OnePage(p) == \A q \in KlapPage : q # p => kl_page'[q] = kl_page[q]

\* A page takes up something, or gives a klap up: the commands are the same.
LEMMA QuietKeeps ==
  ASSUME KlapsInv, UNCHANGED <<klapVars, commandVars, kl_klaped>>, kl_wiped \subseteq kl_wiped',
         NEW p \in KlapPage, OnePage(p), kl_page[p].at # "queue add", kl_page'[p].at \notin LaysAt
  PROVE  /\ HistoryOK' /\ ItemsOK' /\ FlowOK' /\ LaidAlone'
         /\ ClearHold' /\ ForceRules' /\ LiftedGo'
         /\ \A A, B : (EndsPages(A, B)' <=> EndsPages(A, B)) /\ (EndsChat(A, B)' <=> EndsChat(A, B))
         /\ \A B : (StillPages(B)' <=> StillPages(B)) /\ (StillChat(B)' <=> StillChat(B))
<1>1. UNCHANGED <<kl_items, kl_by_uid, kl_laid, kl_lifted, kl_lapsed, kl_blurred>>
  BY DEF klapVars
<1>2. /\ FlowOK' /\ UnderWay' = UnderWay
      /\ Commands(kl_queue)' = Commands(kl_queue) /\ Commands(ToChat)' = Commands(ToChat) /\ Commands(kl_events)' = Commands(kl_events)
      /\ \A A, B : (EndsPages(A, B)' <=> EndsPages(A, B)) /\ (EndsChat(A, B)' <=> EndsChat(A, B))
      /\ \A B : (StillPages(B)' <=> StillPages(B)) /\ (StillChat(B)' <=> StillChat(B))
  BY <1>1, FlowStays DEF KlapsInv, KlapsTypeOK
<1>3. HistoryOK' /\ ItemsOK'
  BY <1>1 DEF KlapsInv, KlapsTypeOK, HistoryOK, ItemsOK
<1>4. LaidAlone'
  <2> SUFFICES ASSUME NEW q \in KlapPage, NEW r \in KlapPage, q # r, {kl_page'[q].at, kl_page'[r].at} \subseteq {"add", "queue add"}
               PROVE  kl_page'[q].klap # kl_page'[r].klap
    BY DEF LaidAlone
  <2>1. q # p /\ r # p
    BY DEF LaysAt
  <2>2. kl_page'[q] = kl_page[q] /\ kl_page'[r] = kl_page[r]
    BY <2>1 DEF OnePage
  <2> QED
    BY <2>2 DEF KlapsInv, LaidAlone
<1>5. BeingLaid' \subseteq BeingLaid
  BY LayingChanges DEF KlapsInv, OnePage
<1>6. \A k \in kl_laid : ChatWillKnow(k) => ChatWillKnow(k)'
  BY <1>2 DEF ChatWillKnow, OnePage
<1>7. \A k \in kl_lifted : GoesFor(k) => GoesFor(k)'
  <2> SUFFICES ASSUME NEW k \in kl_lifted, GoesFor(k) PROVE GoesFor(k)'
    OBVIOUS
  <2>1. k \notin BeingLaid'
    BY <1>5 DEF GoesFor
  <2> QED
    BY <1>1, <1>2, <2>1, GoesOn
<1>8. ClearHold' /\ ForceRules' /\ LiftedGo'
  BY <1>1, <1>2, <1>5, <1>6, <1>7, KlapsKept, InPlayChanges DEF KlapsInv
<1> QED
  BY <1>2, <1>3, <1>4, <1>8

LEMMA LookUpKeeps ==
  ASSUME KlapsInv, NEW p \in KlapPage, NEW id, get_item(p, id)
  PROVE  KlapsInv'
<1> DEFINE w == [PageAtRest EXCEPT !.at = "lift", !.klap = kl_items[id]]
<1>1. /\ kl_page[p].at = "idle" /\ id \in DOMAIN kl_items /\ UNCHANGED <<klapVars, commandVars, channelVars>>
      /\ kl_page' = [kl_page EXCEPT ![p] = w]
  BY DEF get_item, PageAt
<1>2. UNCHANGED <<kl_laid, kl_moders, kl_klaped, kl_wiped>>
  BY <1>1 DEF klapVars, channelVars
<1>3. kl_items[id] \in kl_laid \cup Empties /\ kl_laid \subseteq Klap
  BY <1>1 DEF KlapsInv, KlapsTypeOK, ItemsOK, HistoryOK
<1>4. w \in KlapWork /\ w.at = "lift" /\ w.klap \in kl_laid \cup Empties
  BY <1>3 DEF PageAtRest, KlapWork
<1> HIDE DEF w
<1>5. kl_page'[p] = w /\ OnePage(p) /\ kl_page' \in [KlapPage -> KlapWork]
  BY <1>1, <1>4, PageChanges DEF KlapsInv, KlapsTypeOK, PagesOK, OnePage
<1>6. PagesOK'
  BY <1>2, <1>4, <1>5 DEF KlapsInv, KlapsTypeOK, PagesOK, KlapPageOK, OnePage
<1>7. /\ HistoryOK' /\ ItemsOK' /\ FlowOK' /\ LaidAlone' /\ ClearHold' /\ ForceRules' /\ LiftedGo'
      /\ \A A, B : (EndsPages(A, B)' <=> EndsPages(A, B)) /\ (EndsChat(A, B)' <=> EndsChat(A, B))
      /\ \A B : (StillPages(B)' <=> StillPages(B)) /\ (StillChat(B)' <=> StillChat(B))
  BY <1>1, <1>2, <1>4, <1>5, QuietKeeps DEF LaysAt
<1>8. PagesAside
  BY <1>1, <1>4, <1>5 DEF PagesAside, AsideOf, OnePage
<1>9. ModeratorsTrack'
  BY <1>2, <1>7, <1>8, ModeratorsKept DEF KlapsInv
<1>10. ChatOK'
  BY <1>2 DEF KlapsInv, KlapsTypeOK, ChatOK
<1> QED
  BY <1>6, <1>7, <1>9, <1>10 DEF KlapsInv, KlapsTypeOK

\* A page that may not lay the klap leaves it.
Abandon(p) ==
  /\ PageAt(p, "add")
  /\ kl_page' = [kl_page EXCEPT ![p] = PageAtRest]
  /\ UNCHANGED <<klapVars, commandVars, channelVars>>

LEMMA AbandonKeeps ==
  ASSUME KlapsInv, NEW p \in KlapPage, Abandon(p)
  PROVE  KlapsInv'
<1>1. /\ kl_page[p].at = "add" /\ UNCHANGED <<klapVars, commandVars, channelVars>>
      /\ kl_page' = [kl_page EXCEPT ![p] = PageAtRest]
  BY DEF Abandon, PageAt
<1>2. UNCHANGED <<kl_laid, kl_moders, kl_klaped, kl_wiped>>
  BY <1>1 DEF klapVars, channelVars
<1>3. PageAtRest \in KlapWork /\ PageAtRest.at = "idle" /\ PageAtRest.klap = NoKlap
  BY RestIsWork
<1>4. kl_page'[p] = PageAtRest /\ OnePage(p) /\ kl_page' \in [KlapPage -> KlapWork]
  BY <1>1, <1>3, PageChanges DEF KlapsInv, KlapsTypeOK, PagesOK, OnePage
<1>5. PagesOK'
  BY <1>2, <1>3, <1>4 DEF KlapsInv, KlapsTypeOK, PagesOK, KlapPageOK, OnePage
<1>6. /\ HistoryOK' /\ ItemsOK' /\ FlowOK' /\ LaidAlone' /\ ClearHold' /\ ForceRules' /\ LiftedGo'
      /\ \A A, B : (EndsPages(A, B)' <=> EndsPages(A, B)) /\ (EndsChat(A, B)' <=> EndsChat(A, B))
      /\ \A B : (StillPages(B)' <=> StillPages(B)) /\ (StillChat(B)' <=> StillChat(B))
  BY <1>1, <1>2, <1>3, <1>4, QuietKeeps DEF LaysAt
<1>7. PagesAside
  BY <1>1, <1>3, <1>4 DEF PagesAside, AsideOf, OnePage
<1>8. ModeratorsTrack'
  BY <1>2, <1>6, <1>7, ModeratorsKept DEF KlapsInv
<1>9. ChatOK'
  BY <1>2 DEF KlapsInv, KlapsTypeOK, ChatOK
<1> QED
  BY <1>5, <1>6, <1>8, <1>9 DEF KlapsInv, KlapsTypeOK

LEMMA LoadChannelsKeeps ==
  ASSUME KlapsInv, NEW p \in KlapPage, load_channels(p)
  PROVE  KlapsInv'
<1> DEFINE w == [PageAtRest EXCEPT !.at = "update", !.moders = kl_moders.rows]
<1>1. /\ kl_page[p].at = "idle" /\ UNCHANGED <<klapVars, commandVars, kl_moders, kl_klaped, kl_wiped>>
      /\ kl_page' = [kl_page EXCEPT ![p] = w]
  BY DEF load_channels, PageAt
<1>2. kl_laid' = kl_laid
  BY <1>1 DEF klapVars
<1>3. kl_moders.rows \in SUBSET Moder
  BY DEF KlapsInv, KlapsTypeOK, ChatOK
<1>4. w \in KlapWork /\ w.at = "update" /\ w.klap = NoKlap /\ w.moders = kl_moders.rows
  BY <1>3 DEF PageAtRest, KlapWork
<1> HIDE DEF w
<1>5. kl_page'[p] = w /\ OnePage(p) /\ kl_page' \in [KlapPage -> KlapWork]
  BY <1>1, <1>4, PageChanges DEF KlapsInv, KlapsTypeOK, PagesOK, OnePage
<1>6. PagesOK'
  BY <1>2, <1>4, <1>5 DEF KlapsInv, KlapsTypeOK, PagesOK, KlapPageOK, OnePage
<1>7. /\ HistoryOK' /\ ItemsOK' /\ FlowOK' /\ LaidAlone' /\ ClearHold' /\ ForceRules' /\ LiftedGo'
      /\ \A A, B : (EndsPages(A, B)' <=> EndsPages(A, B)) /\ (EndsChat(A, B)' <=> EndsChat(A, B))
      /\ \A B : (StillPages(B)' <=> StillPages(B)) /\ (StillChat(B)' <=> StillChat(B))
  BY <1>1, <1>4, <1>5, QuietKeeps DEF LaysAt
<1>8. ModeratorsTrack'
  <2> SUFFICES ASSUME NEW m \in Moder, m \notin kl_wiped' PROVE ModeratorTracks(m)'
    BY DEF ModeratorsTrack
  <2>1. ModeratorTracks(m)
    BY <1>1 DEF KlapsInv, ModeratorsTrack
  <2>2. \A q \in KlapPage : PageKnows(m, q)'
    BY <1>1, <1>4, <1>5, <2>1 DEF ModeratorTracks, PageKnows, OnePage
  <2>3. Telling(m) => Telling(m)'
    BY <1>1, <1>5 DEF Telling, TellsAt, OnePage
  <2>4. \A b \in BOOLEAN : PagesAreTold(m, b) /\ ChatIsTold(m, b) => PagesAreTold(m, b)' /\ ChatIsTold(m, b)'
    BY <1>1, <1>7 DEF PagesAreTold, ChatIsTold
  <2> QED
    BY <1>1, <2>1, <2>2, <2>3, <2>4 DEF ModeratorTracks
<1>9. ChatOK'
  BY <1>1 DEF KlapsInv, KlapsTypeOK, ChatOK
<1> QED
  BY <1>6, <1>7, <1>8, <1>9 DEF KlapsInv, KlapsTypeOK

LEMMA ChangeModeratorKeeps ==
  ASSUME KlapsInv, NEW p \in KlapPage, NEW m \in Moder, NEW adds \in BOOLEAN, change_moderator(p, m, adds)
  PROVE  KlapsInv'
<1> DEFINE s == IF adds THEN "queue moderator$add" ELSE "queue moderator$remove"
<1> DEFINE w == [PageAtRest EXCEPT !.at = s, !.uid = m]
<1>1. /\ kl_page[p].at = "idle" /\ UNCHANGED <<klapVars, commandVars, kl_klaped>>
      /\ kl_moders' = ModeratorRows(m, adds)
      /\ kl_page' = [kl_page EXCEPT ![p] = w]
      /\ kl_wiped' = kl_wiped \cup (IF \E q \in KlapPage \ {p} : kl_page[q].uid = m THEN {m} ELSE {}) \cup Overtaken(m)
  BY DEF change_moderator, PageAt
<1>2. kl_laid' = kl_laid
  BY <1>1 DEF klapVars
<1>3. kl_moders \in [rows : SUBSET Moder, pages : SUBSET Moder, chat : SUBSET Moder]
  BY DEF KlapsInv, KlapsTypeOK, ChatOK
<1>4. /\ kl_moders' \in [rows : SUBSET Moder, pages : SUBSET Moder, chat : SUBSET Moder]
      /\ kl_moders'.rows = (IF adds THEN kl_moders.rows \cup {m} ELSE kl_moders.rows \ {m})
      /\ kl_moders'.pages = kl_moders.pages /\ kl_moders'.chat = kl_moders.chat
  BY <1>1, <1>3 DEF ModeratorRows
<1>5. w \in KlapWork /\ w.at = s /\ w.klap = NoKlap /\ w.uid = m /\ s \in TellsAt
  BY DEF PageAtRest, KlapWork, TellsAt
<1>6. (s = "queue moderator$add" => adds) /\ (s = "queue moderator$remove" => ~adds)
  OBVIOUS
<1> HIDE DEF w, s
<1>7. kl_page'[p] = w /\ OnePage(p) /\ kl_page' \in [KlapPage -> KlapWork]
  BY <1>1, <1>5, PageChanges DEF KlapsInv, KlapsTypeOK, PagesOK, OnePage
<1>8. PagesOK'
  <2>1. KlapPageOK(kl_page[p])'
    BY <1>5, <1>7 DEF KlapPageOK, TellsAt
  <2>2. \A q \in KlapPage : q # p => KlapPageOK(kl_page[q])'
    BY <1>2, <1>7 DEF KlapsInv, KlapsTypeOK, PagesOK, KlapPageOK, OnePage
  <2> QED
    BY <1>7, <2>1, <2>2 DEF PagesOK
<1>9. /\ HistoryOK' /\ ItemsOK' /\ FlowOK' /\ LaidAlone' /\ ClearHold' /\ ForceRules' /\ LiftedGo'
      /\ \A A, B : (EndsPages(A, B)' <=> EndsPages(A, B)) /\ (EndsChat(A, B)' <=> EndsChat(A, B))
      /\ \A B : (StillPages(B)' <=> StillPages(B)) /\ (StillChat(B)' <=> StillChat(B))
  BY <1>1, <1>5, <1>7, QuietKeeps DEF LaysAt, TellsAt
<1>10. ModeratorsTrack'
  <2> SUFFICES ASSUME NEW o \in Moder, o \notin kl_wiped' PROVE ModeratorTracks(o)'
    BY DEF ModeratorsTrack
  <2>1. ModeratorTracks(o)
    BY <1>1 DEF KlapsInv, ModeratorsTrack
  <2>2. CASE o # m
    <3>1. o \in kl_moders'.rows <=> o \in kl_moders.rows
      BY <1>4, <2>2
    <3>2. \A q \in KlapPage : PageKnows(o, q)'
      BY <1>5, <1>7, <2>1, <2>2, <3>1 DEF ModeratorTracks, PageKnows, OnePage, TellsAt
    <3>3. Telling(o) => Telling(o)'
      BY <1>1, <1>7 DEF Telling, TellsAt, OnePage
    <3>4. \A b \in BOOLEAN : PagesAreTold(o, b) /\ ChatIsTold(o, b) => PagesAreTold(o, b)' /\ ChatIsTold(o, b)'
      BY <1>4, <1>9 DEF PagesAreTold, ChatIsTold
    <3> QED
      BY <2>1, <3>1, <3>2, <3>3, <3>4 DEF ModeratorTracks
  <2>3. CASE o = m
    <3>1. \A q \in KlapPage : q # p => kl_page[q].uid # m /\ kl_page[q].at # "update"
      BY <1>1, <2>3 DEF Overtaken, PageAt
    <3>2. \A q \in KlapPage : q # p => PageKnows(o, q)'
      BY <1>7, <2>3, <3>1 DEF PageKnows, OnePage
    <3>3. PageKnows(o, p)'
      BY <1>4, <1>5, <1>6, <1>7, <2>3 DEF PageKnows, TellsAt
    <3>4. Telling(o)'
      BY <1>5, <1>7, <2>3 DEF Telling
    <3> QED
      BY <3>2, <3>3, <3>4 DEF ModeratorTracks
  <2> QED
    BY <2>2, <2>3
<1>11. ChatOK'
  BY <1>1, <1>4 DEF KlapsInv, KlapsTypeOK, ChatOK
<1> QED
  BY <1>8, <1>9, <1>10, <1>11 DEF KlapsInv, KlapsTypeOK
-----------------------------------------------------------------------------
(* A page queues a command.                                                *)

\* The command of a klap, when it is being laid, or one of the moderators.
LEMMA QueueKeeps ==
  ASSUME KlapsInv, UNCHANGED <<klapVars, channelVars, kl_batch, kl_step, kl_events>>,
         NEW p \in KlapPage, kl_page' = [kl_page EXCEPT ![p] = PageAtRest],
         NEW c \in KlapCommand, kl_queue' = Append(kl_queue, c), c.cmd # "ban$remove",
         c.klap \in kl_laid \cup {NoKlap},
         kl_page[p].at = "queue add" => c = AddingKlap(kl_page[p].klap),
         c.cmd = "ban$add" => kl_page[p].at = "queue add" /\ kl_page[p].klap = c.klap
  PROVE  /\ KlapsTypeOK' /\ LaidAlone'
         /\ ClearHold' /\ ForceRules' /\ LiftedGo'
         /\ OnePage(p) /\ kl_page'[p].at = "idle"
         /\ \A A, B : /\ c \in A => EndsPages(A, B)' /\ EndsChat(A, B)'
                      /\ c \notin B => (EndsPages(A, B) => EndsPages(A, B)') /\ (EndsChat(A, B) => EndsChat(A, B)')
         /\ \A B : c \notin B => (StillPages(B) => StillPages(B)') /\ (StillChat(B) => StillChat(B)')
<1>1. /\ UNCHANGED <<kl_items, kl_by_uid, kl_laid, kl_lifted, kl_lapsed, kl_blurred>>
      /\ UNCHANGED <<kl_moders, kl_klaped, kl_wiped>>
  BY DEF klapVars, channelVars
<1>2. /\ FlowOK' /\ UnderWay' = UnderWay \cup {c}
      /\ Commands(kl_queue)' = Commands(kl_queue) \cup {c} /\ Commands(ToChat)' = Commands(ToChat) /\ Commands(kl_events)' = Commands(kl_events)
      /\ \A A, B : /\ c \in A => EndsPages(A, B)' /\ EndsChat(A, B)'
                   /\ c \notin B => (EndsPages(A, B) => EndsPages(A, B)') /\ (EndsChat(A, B) => EndsChat(A, B)')
      /\ \A B : c \notin B => (StillPages(B) => StillPages(B)') /\ (StillChat(B) => StillChat(B)')
  BY <1>1, FlowQueues DEF KlapsInv, KlapsTypeOK
<1>3. PageAtRest \in KlapWork /\ PageAtRest.at = "idle" /\ PageAtRest.klap = NoKlap
  BY RestIsWork
<1>4. kl_page'[p] = PageAtRest /\ OnePage(p) /\ kl_page' \in [KlapPage -> KlapWork]
  BY <1>3, PageChanges DEF KlapsInv, KlapsTypeOK, PagesOK, OnePage
<1>5. PagesOK'
  BY <1>1, <1>3, <1>4 DEF KlapsInv, KlapsTypeOK, PagesOK, KlapPageOK, OnePage
<1>6. HistoryOK' /\ ItemsOK' /\ ChatOK'
  <2>1. HistoryOK /\ ItemsOK /\ ChatOK
    BY DEF KlapsInv, KlapsTypeOK
  <2>2. HistoryOK'
    BY <1>1, <2>1 DEF HistoryOK
  <2>3. ItemsOK'
    BY <1>1, <2>1 DEF ItemsOK
  <2>4. ChatOK'
    BY <1>1, <2>1 DEF ChatOK
  <2> QED
    BY <2>2, <2>3, <2>4
<1>7. LaidAlone'
  <2> SUFFICES ASSUME NEW q \in KlapPage, NEW r \in KlapPage, q # r, {kl_page'[q].at, kl_page'[r].at} \subseteq {"add", "queue add"}
               PROVE  kl_page'[q].klap # kl_page'[r].klap
    BY DEF LaidAlone
  <2>1. q # p /\ r # p
    BY <1>3, <1>4
  <2>2. kl_page'[q] = kl_page[q] /\ kl_page'[r] = kl_page[r]
    BY <1>4, <2>1 DEF OnePage
  <2> QED
    BY <2>2 DEF KlapsInv, LaidAlone
<1>8. /\ BeingLaid' \subseteq BeingLaid
      /\ kl_page[p].at = "queue add" => kl_page[p].klap \in BeingLaid
  BY <1>3, <1>4, LayingChanges DEF KlapsInv, OnePage, LaysAt, BeingLaid, PageAt
<1>9. c.cmd = "ban$add" => c.klap \in BeingLaid
  BY <1>8
<1>10. InPlay' \subseteq InPlay /\ Removals' \subseteq Removals
  BY <1>2, <1>8, <1>9 DEF InPlay, Removals
<1>11. \A k \in kl_laid : ChatWillKnow(k) => ChatWillKnow(k)'
  <2> SUFFICES ASSUME NEW k \in kl_laid, ChatWillKnow(k) PROVE ChatWillKnow(k)'
    OBVIOUS
  <2>1. CASE kl_page[p].at = "queue add" /\ kl_page[p].klap = k
    BY <1>2, <2>1 DEF ChatWillKnow
  <2>2. CASE ~(kl_page[p].at = "queue add" /\ kl_page[p].klap = k)
    BY <1>1, <1>2, <1>4, <2>2 DEF ChatWillKnow, OnePage
  <2> QED
    BY <2>1, <2>2
<1>12. \A k \in kl_lifted : GoesFor(k) => GoesFor(k)'
  <2> SUFFICES ASSUME NEW k \in kl_lifted, GoesFor(k) PROVE GoesFor(k)'
    OBVIOUS
  <2>1. k \notin BeingLaid' /\ k \notin BeingLaid
    BY <1>8 DEF GoesFor
  <2>2. AddingKlap(k).cmd = "ban$add" /\ AddingKlap(k).klap = k
    BY DEF AddingKlap
  <2>3. c # AddingKlap(k)
    BY <1>9, <2>1, <2>2
  <2> QED
    BY <1>1, <1>2, <2>1, <2>3, GoesOn
<1>13. ClearHold' /\ ForceRules' /\ LiftedGo'
  BY <1>1, <1>8, <1>10, <1>11, <1>12, KlapsKept DEF KlapsInv
<1> QED
  BY <1>2, <1>3, <1>4, <1>5, <1>6, <1>7, <1>13 DEF KlapsTypeOK

LEMMA QueueAddKeeps ==
  ASSUME KlapsInv, NEW p \in KlapPage, queue_add(p)
  PROVE  KlapsInv'
<1> DEFINE k == kl_page[p].klap
<1>1. /\ kl_page[p].at = "queue add" /\ UNCHANGED <<klapVars, channelVars, kl_batch, kl_step, kl_events>>
      /\ kl_page' = [kl_page EXCEPT ![p] = PageAtRest]
      /\ kl_queue' = Append(kl_queue, AddingKlap(k))
  BY DEF queue_add, PageAt, AddingKlap
<1>2. k \in kl_laid /\ k \in Klap
  BY <1>1 DEF KlapsInv, KlapsTypeOK, PagesOK, KlapPageOK
<1>3. AddingKlap(k) \in KlapCommand /\ AddingKlap(k).cmd = "ban$add" /\ AddingKlap(k).klap = k
  BY <1>2, CommandKinds, KlapCommandsTellNothing
<1>4. /\ KlapsTypeOK' /\ LaidAlone' /\ ClearHold' /\ ForceRules' /\ LiftedGo'
      /\ OnePage(p) /\ kl_page'[p].at = "idle"
      /\ \A A, B : AddingKlap(k) \notin B => (EndsPages(A, B) => EndsPages(A, B)') /\ (EndsChat(A, B) => EndsChat(A, B)')
      /\ \A B : AddingKlap(k) \notin B => (StillPages(B) => StillPages(B)') /\ (StillChat(B) => StillChat(B)')
  BY <1>1, <1>2, <1>3, QueueKeeps
<1>5. PagesAside
  BY <1>1, <1>4 DEF PagesAside, AsideOf, OnePage
<1>6. kl_moders' = kl_moders /\ kl_wiped' = kl_wiped
  BY <1>1 DEF channelVars
<1>7. \A m : AddingKlap(k) \notin Tell(m)
  BY KlapCommandsTellNothing
<1>8. ModeratorsTrack'
  BY <1>4, <1>5, <1>6, <1>7, ModeratorsKept DEF KlapsInv
<1> QED
  BY <1>4, <1>8 DEF KlapsInv

LEMMA QueueModeratorKeeps ==
  ASSUME KlapsInv, NEW p \in KlapPage, NEW adds \in BOOLEAN, queue_moderator(p, adds)
  PROVE  KlapsInv'
<1> DEFINE m == kl_page[p].uid
<1> DEFINE c == [cmd |-> IF adds THEN "moderator$add" ELSE "moderator$remove", klap |-> NoKlap, uid |-> m]
<1>1. /\ kl_page[p].at = (IF adds THEN "queue moderator$add" ELSE "queue moderator$remove")
      /\ UNCHANGED <<klapVars, channelVars, kl_batch, kl_step, kl_events>>
      /\ kl_page' = [kl_page EXCEPT ![p] = PageAtRest]
      /\ kl_queue' = Append(kl_queue, c)
  BY DEF queue_moderator, PageAt
<1>2. m \in Moder
  BY <1>1 DEF KlapsInv, KlapsTypeOK, PagesOK, KlapPageOK
<1>3. c \in ModeratorCommand /\ c.uid = m /\ c.klap = NoKlap /\ (c.cmd = "moderator$add" <=> adds)
      /\ c.cmd \in {"moderator$add", "moderator$remove"}
  BY <1>2 DEF ModeratorCommand
<1> HIDE DEF c
<1>4. c \in KlapCommand
  BY <1>3, CommandKinds
<1>5. /\ KlapsTypeOK' /\ LaidAlone' /\ ClearHold' /\ ForceRules' /\ LiftedGo'
      /\ OnePage(p) /\ kl_page'[p].at = "idle"
      /\ \A A, B : /\ c \in A => EndsPages(A, B)' /\ EndsChat(A, B)'
                   /\ c \notin B => (EndsPages(A, B) => EndsPages(A, B)') /\ (EndsChat(A, B) => EndsChat(A, B)')
      /\ \A B : c \notin B => (StillPages(B) => StillPages(B)') /\ (StillChat(B) => StillChat(B)')
  <2>1. c.cmd # "ban$remove" /\ c.cmd # "ban$add" /\ kl_page[p].at # "queue add" /\ c.klap \in kl_laid \cup {NoKlap}
    BY <1>1, <1>3
  <2> QED
    BY <1>1, <1>4, <2>1, QueueKeeps
<1>6. kl_moders' = kl_moders /\ kl_wiped' = kl_wiped
  BY <1>1 DEF channelVars
<1>7. ModeratorsTrack'
  <2> SUFFICES ASSUME NEW o \in Moder, o \notin kl_wiped PROVE ModeratorTracks(o)'
    BY <1>6 DEF ModeratorsTrack
  <2>1. ModeratorTracks(o)
    BY DEF KlapsInv, ModeratorsTrack
  <2>2. \A q \in KlapPage : PageKnows(o, q)'
    BY <1>5, <1>6, <2>1 DEF ModeratorTracks, PageKnows, OnePage
  <2>3. CASE o # m
    <3>1. Telling(o) => Telling(o)'
      BY <1>5, <2>3 DEF Telling, OnePage
    <3>2. c \notin Tell(o)
      BY <1>3, <2>3 DEF Tell, Tells, ModeratorCommand, ChannelCommand
    <3>3. \A b \in BOOLEAN : PagesAreTold(o, b) /\ ChatIsTold(o, b) => PagesAreTold(o, b)' /\ ChatIsTold(o, b)'
      BY <1>5, <1>6, <3>2 DEF PagesAreTold, ChatIsTold
    <3> QED
      BY <1>6, <2>1, <2>2, <3>1, <3>3 DEF ModeratorTracks
  <2>4. CASE o = m
    <3>1. adds <=> m \in kl_moders.rows
      BY <1>1, <2>1, <2>4 DEF ModeratorTracks, PageKnows
    <3>2. c \in Tells(o, adds)
      BY <1>3, <2>4 DEF Tells
    <3>3. PagesAreTold(o, adds)' /\ ChatIsTold(o, adds)'
      BY <1>5, <3>2 DEF PagesAreTold, ChatIsTold
    <3>4. adds = TRUE <=> o \in kl_moders'.rows
      BY <1>6, <2>4, <3>1
    <3>5. \E b \in BOOLEAN : (b = TRUE <=> o \in kl_moders'.rows) /\ PagesAreTold(o, b)' /\ ChatIsTold(o, b)'
      BY <3>3, <3>4
    <3> QED
      BY <2>2, <3>5 DEF ModeratorTracks
  <2> QED
    BY <2>3, <2>4
<1> QED
  BY <1>5, <1>7 DEF KlapsInv

LEMMA UpdateChannelKeeps ==
  ASSUME KlapsInv, NEW p \in KlapPage, update_channel(p)
  PROVE  KlapsInv'
<1> DEFINE c == [cmd |-> "channel$update", klap |-> NoKlap, moders |-> kl_page[p].moders]
<1>1. /\ kl_page[p].at = "update"
      /\ UNCHANGED <<klapVars, channelVars, kl_batch, kl_step, kl_events>>
      /\ kl_page' = [kl_page EXCEPT ![p] = PageAtRest]
      /\ kl_queue' = Append(kl_queue, c)
  BY DEF update_channel, PageAt
<1>2. kl_page[p].moders \in SUBSET Moder
  BY DEF KlapsInv, KlapsTypeOK, PagesOK, KlapWork
<1>3. c \in ChannelCommand /\ c.moders = kl_page[p].moders /\ c.klap = NoKlap /\ c.cmd = "channel$update"
  BY <1>2 DEF ChannelCommand
<1> HIDE DEF c
<1>4. c \in KlapCommand
  BY <1>3, CommandKinds
<1>5. /\ KlapsTypeOK' /\ LaidAlone' /\ ClearHold' /\ ForceRules' /\ LiftedGo'
      /\ OnePage(p) /\ kl_page'[p].at = "idle"
      /\ \A A, B : /\ c \in A => EndsPages(A, B)' /\ EndsChat(A, B)'
                   /\ c \notin B => (EndsPages(A, B) => EndsPages(A, B)') /\ (EndsChat(A, B) => EndsChat(A, B)')
      /\ \A B : c \notin B => (StillPages(B) => StillPages(B)') /\ (StillChat(B) => StillChat(B)')
  <2>1. c.cmd # "ban$remove" /\ c.cmd # "ban$add" /\ kl_page[p].at # "queue add" /\ c.klap \in kl_laid \cup {NoKlap}
    BY <1>1, <1>3
  <2> QED
    BY <1>1, <1>4, <2>1, QueueKeeps
<1>6. kl_moders' = kl_moders /\ kl_wiped' = kl_wiped
  BY <1>1 DEF channelVars
<1>7. ModeratorsTrack'
  <2> SUFFICES ASSUME NEW o \in Moder, o \notin kl_wiped PROVE ModeratorTracks(o)'
    BY <1>6 DEF ModeratorsTrack
  <2>1. ModeratorTracks(o)
    BY DEF KlapsInv, ModeratorsTrack
  <2>2. \A q \in KlapPage : PageKnows(o, q)'
    BY <1>5, <1>6, <2>1 DEF ModeratorTracks, PageKnows, OnePage
  <2>3. o \in c.moders <=> o \in kl_moders.rows
    BY <1>1, <1>3, <2>1 DEF ModeratorTracks, PageKnows
  <2>4. PICK b \in BOOLEAN : b = TRUE <=> o \in kl_moders.rows
    <3>1. CASE o \in kl_moders.rows
      BY <3>1
    <3>2. CASE o \notin kl_moders.rows
      BY <3>2
    <3> QED
      BY <3>1, <3>2
  <2>5. c \in Tells(o, b)
    BY <1>3, <2>3, <2>4 DEF Tells
  <2>6. PagesAreTold(o, b)' /\ ChatIsTold(o, b)'
    BY <1>5, <2>5 DEF PagesAreTold, ChatIsTold
  <2>7. \E d \in BOOLEAN : (d = TRUE <=> o \in kl_moders'.rows) /\ PagesAreTold(o, d)' /\ ChatIsTold(o, d)'
    BY <1>6, <2>4, <2>6
  <2> QED
    BY <2>2, <2>7 DEF ModeratorTracks
<1> QED
  BY <1>5, <1>7 DEF KlapsInv
-----------------------------------------------------------------------------
(* Time.                                                                   *)

LEMMA LapseKeeps ==
  ASSUME KlapsInv, NEW k \in kl_laid, lapse(k)
  PROVE  KlapsInv'
<1>1. /\ UNCHANGED <<kl_items, kl_by_uid, kl_laid, kl_lifted, kl_blurred, kl_page, commandVars>>
      /\ UNCHANGED <<kl_moders, kl_klaped, kl_wiped>>
      /\ kl_lapsed' = kl_lapsed \cup {k}
  BY DEF lapse, channelVars
<1>2. /\ FlowOK' /\ UnderWay' = UnderWay
      /\ Commands(kl_queue)' = Commands(kl_queue) /\ Commands(ToChat)' = Commands(ToChat) /\ Commands(kl_events)' = Commands(kl_events)
      /\ \A A, B : (EndsPages(A, B)' <=> EndsPages(A, B)) /\ (EndsChat(A, B)' <=> EndsChat(A, B))
      /\ \A B : (StillPages(B)' <=> StillPages(B)) /\ (StillChat(B)' <=> StillChat(B))
  BY <1>1, FlowStays DEF KlapsInv, KlapsTypeOK
<1>3. KlapsTypeOK'
  BY <1>1, <1>2 DEF KlapsInv, KlapsTypeOK, HistoryOK, ItemsOK, PagesOK, KlapPageOK, ChatOK
<1>4. LaidAlone' /\ BeingLaid' = BeingLaid /\ PagesAside
  BY <1>1 DEF KlapsInv, LaidAlone, BeingLaid, PageAt, PagesAside
<1>5. ModeratorsTrack'
  BY <1>1, <1>2, <1>4, ModeratorsKept DEF KlapsInv
<1>6. \A j \in kl_laid : ChatWillKnow(j) => ChatWillKnow(j)'
  BY <1>1, <1>2 DEF ChatWillKnow
<1>7. \A j \in kl_lifted : GoesFor(j) => GoesFor(j)'
  <2> SUFFICES ASSUME NEW j \in kl_lifted, GoesFor(j) PROVE GoesFor(j)'
    OBVIOUS
  <2>1. j \notin BeingLaid'
    BY <1>4 DEF GoesFor
  <2> QED
    BY <1>1, <1>2, <2>1, GoesOn
<1>8. ClearHold' /\ ForceRules' /\ LiftedGo'
  BY <1>1, <1>2, <1>4, <1>6, <1>7, KlapsKept, InPlayChanges DEF KlapsInv
<1> QED
  BY <1>3, <1>4, <1>5, <1>8 DEF KlapsInv

LEMMA ForgetKeeps ==
  ASSUME KlapsInv, NEW u \in Offender, check_klaped(u)
  PROVE  KlapsInv'
<1>1. /\ UNCHANGED <<kl_items, kl_by_uid, kl_laid, kl_lifted, kl_lapsed, kl_blurred, kl_page, commandVars>>
      /\ UNCHANGED <<kl_moders, kl_wiped>>
      /\ u \in DOMAIN kl_klaped /\ kl_klaped[u] \in kl_lapsed /\ kl_klaped' = WithoutKlap(kl_klaped, u)
  BY DEF check_klaped, klapVars
<1>2. /\ FlowOK' /\ UnderWay' = UnderWay
      /\ Commands(kl_queue)' = Commands(kl_queue) /\ Commands(ToChat)' = Commands(ToChat) /\ Commands(kl_events)' = Commands(kl_events)
      /\ \A A, B : (EndsPages(A, B)' <=> EndsPages(A, B)) /\ (EndsChat(A, B)' <=> EndsChat(A, B))
      /\ \A B : (StillPages(B)' <=> StillPages(B)) /\ (StillChat(B)' <=> StillChat(B))
  BY <1>1, FlowStays DEF KlapsInv, KlapsTypeOK
<1>3. HistoryOK' /\ ItemsOK' /\ PagesOK'
  BY <1>1 DEF KlapsInv, KlapsTypeOK, HistoryOK, ItemsOK, PagesOK, KlapPageOK
<1>4. LaidAlone' /\ BeingLaid' = BeingLaid /\ PagesAside
  BY <1>1 DEF KlapsInv, LaidAlone, BeingLaid, PageAt, PagesAside
<1>5. ModeratorsTrack'
  BY <1>1, <1>2, <1>4, ModeratorsKept DEF KlapsInv
<1>6. DOMAIN kl_klaped' = DOMAIN kl_klaped \ {u} /\ \A v \in DOMAIN kl_klaped' : kl_klaped'[v] = kl_klaped[v]
  BY <1>1 DEF WithoutKlap
<1>7. ChatOK'
  BY <1>1, <1>6 DEF KlapsInv, KlapsTypeOK, ChatOK, WithoutKlap
<1>8. \A j \in kl_laid \ kl_lapsed : ChatWillKnow(j) => ChatWillKnow(j)'
  BY <1>1, <1>2, <1>6 DEF ChatWillKnow
<1>9. \A j \in kl_lifted : GoesFor(j) => GoesFor(j)'
  BY <1>1, <1>2, <1>4, <1>6 DEF GoesFor
<1>10. ClearHold' /\ ForceRules' /\ LiftedGo'
  BY <1>1, <1>2, <1>4, <1>8, <1>9, KlapsKept, InPlayChanges DEF KlapsInv
<1> QED
  BY <1>2, <1>3, <1>4, <1>5, <1>7, <1>10 DEF KlapsInv, KlapsTypeOK
-----------------------------------------------------------------------------
(* Klaps are laid.                                                         *)

\* What rebuild_NM gives: a klap in force of the user, the only one if it is.
LEMMA Rebuilt ==
  ASSUME NEW items, DOMAIN items \subseteq KlapId
  PROVE  LET by == rebuild_NM(items) IN
         /\ by = [u \in DOMAIN by |-> by[u]]
         /\ \A u \in DOMAIN by : by[u] \in InForce(items) /\ items[by[u]].uid = u
         /\ \A k : /\ k.id \in InForce(items) /\ items[k.id].uid = k.uid
                   /\ \A i \in InForce(items) : items[i].uid = k.uid => i = k.id
                   => k.uid \in DOMAIN by /\ by[k.uid] = k.id
<1> DEFINE by == rebuild_NM(items)
<1> DEFINE Of(u) == {i \in InForce(items) : items[i].uid = u}
<1>1. /\ by = [u \in DOMAIN by |-> by[u]]
      /\ DOMAIN by = {items[i].uid : i \in InForce(items)}
      /\ \A u \in DOMAIN by : by[u] = Max(Of(u))
  BY DEF rebuild_NM
<1>2. InForce(items) \subseteq 0..MaxKlaps /\ MaxKlaps \in Nat
  BY KlapsAssumption DEF InForce, KlapId
<1>3. ASSUME NEW u \in DOMAIN by PROVE by[u] \in Of(u)
  <2>1. PICK i \in InForce(items) : items[i].uid = u
    BY <1>1
  <2>2. Of(u) # {} /\ Of(u) \subseteq 0..MaxKlaps
    BY <1>2, <2>1
  <2> HIDE DEF Of
  <2>3. Max(Of(u)) \in Of(u)
    BY <1>2, <2>2, MaxIsLargest
  <2> QED
    BY <1>1, <2>3
<1>4. ASSUME NEW k, k.id \in InForce(items), items[k.id].uid = k.uid, \A i \in InForce(items) : items[i].uid = k.uid => i = k.id
      PROVE  k.uid \in DOMAIN by /\ by[k.uid] = k.id
  <2>1. k.uid \in DOMAIN by
    BY <1>1, <1>4
  <2>2. by[k.uid] \in Of(k.uid)
    BY <1>3, <2>1
  <2> QED
    BY <1>4, <2>1, <2>2
<1> QED
  BY <1>1, <1>3, <1>4

\* What is in a command is in Pending.
LEMMA PendingKlaps ==
  ASSUME FlowOK
  PROVE  \A c \in UnderWay : c.klap \in {Pending[i].klap : i \in DOMAIN Pending}
<1>1. kl_queue \in Seq(KlapCommand) /\ kl_batch \in Seq(KlapCommand) /\ kl_events \in Seq(KlapCommand)
  BY DEF FlowOK
<1>2. ASSUME NEW i \in DOMAIN kl_queue PROVE i \in DOMAIN Pending /\ Pending[i] = kl_queue[i]
  BY <1>1 DEF Pending
<1>3. ASSUME NEW i \in DOMAIN kl_batch PROVE i + Len(kl_queue) \in DOMAIN Pending /\ Pending[i + Len(kl_queue)] = kl_batch[i]
  BY <1>1 DEF Pending
<1>4. ASSUME NEW i \in DOMAIN kl_events
      PROVE  i + Len(kl_queue) + Len(kl_batch) \in DOMAIN Pending /\ Pending[i + Len(kl_queue) + Len(kl_batch)] = kl_events[i]
  BY <1>1 DEF Pending
<1> QED
  BY <1>2, <1>3, <1>4 DEF UnderWay, Commands

\* A klap in hand or laid.
LEMMA KnownKlaps ==
  ASSUME HistoryOK, PagesOK
  PROVE  /\ Known \subseteq Klap \cup Empties \cup {NoKlap}
         /\ BeingLaid \subseteq Known /\ BeingLaid \subseteq Klap /\ BeingLaid \subseteq InHand /\ kl_laid \subseteq Known
         /\ \A p \in KlapPage : kl_page[p].klap \in InHand
<1>1. \A p \in KlapPage : kl_page[p].klap \in Klap \cup Empties \cup {NoKlap}
  BY DEF PagesOK, KlapWork
<1>2. \A p \in KlapPage : kl_page[p].at \in {"add", "queue add"} => kl_page[p].klap \in Klap
  BY DEF PagesOK, KlapPageOK
<1>3. BeingLaid \subseteq Klap
  BY <1>2 DEF BeingLaid, PageAt
<1> QED
  BY <1>1, <1>3 DEF HistoryOK, Known, InHand, BeingLaid

LEMMA AboveAll ==
  ASSUME NEW N \in Nat, NEW S, S \subseteq 0..N, NEW x \in S, \A y \in S : y <= x
  PROVE  x \in Nat /\ x + 1 \notin S
OBVIOUS

\* The id, and the klap, are new.
LEMMA NewKlap ==
  ASSUME HistoryOK, PagesOK, ItemsOK, NEW u \in Offender
  PROVE  LET id == Max({0} \cup DOMAIN kl_items) + 1
             n == Max({0} \cup {j.n : j \in Known}) + 1 IN
         /\ id \in Nat \ {0} /\ id \notin DOMAIN kl_items
         /\ n \in Nat \ {0} /\ \A j \in Known : j.n # n
<1>0. MaxKlaps \in Nat
  BY KlapsAssumption
<1> DEFINE Ids == {0} \cup DOMAIN kl_items
<1> DEFINE Ns == {0} \cup {j.n : j \in Known}
<1>1. Ids \subseteq 0..MaxKlaps /\ Ids # {}
  BY <1>0 DEF ItemsOK, KlapId
<1>2. Known \subseteq Klap \cup Empties \cup {NoKlap}
  BY KnownKlaps
<1>3. \A j \in Klap \cup Empties \cup {NoKlap} : j.n \in 0..MaxKlaps
  BY <1>0, RealKlaps DEF Klap
<1>4. Ns \subseteq 0..MaxKlaps /\ Ns # {}
  BY <1>0, <1>2, <1>3
<1>5. DOMAIN kl_items \subseteq Ids /\ \A j \in Known : j.n \in Ns
  OBVIOUS
<1> HIDE DEF Ids, Ns
<1>6. Max(Ids) \in Ids /\ \A y \in Ids : y <= Max(Ids)
  BY <1>0, <1>1, MaxIsLargest
<1>7. Max(Ns) \in Ns /\ \A y \in Ns : y <= Max(Ns)
  BY <1>0, <1>4, MaxIsLargest
<1>8. Max(Ids) + 1 \in Nat \ {0} /\ Max(Ids) + 1 \notin DOMAIN kl_items
  <2>1. Max(Ids) \in Nat /\ Max(Ids) + 1 \notin Ids
    BY <1>0, <1>1, <1>6, AboveAll
  <2> QED
    BY <1>5, <2>1
<1>9. Max(Ns) + 1 \in Nat \ {0} /\ \A j \in Known : j.n # Max(Ns) + 1
  <2>1. Max(Ns) \in Nat /\ Max(Ns) + 1 \notin Ns
    BY <1>0, <1>4, <1>7, AboveAll
  <2> QED
    BY <1>5, <2>1
<1> QED
  BY <1>8, <1>9 DEF Ids, Ns

LEMMA ReserveKeeps ==
  ASSUME KlapsInv, NEW p \in KlapPage, NEW u \in Offender, get_next_klap_id(p, u)
  PROVE  KlapsInv'
<1> DEFINE id == Max({0} \cup DOMAIN kl_items) + 1
<1> DEFINE n == Max({0} \cup {j.n : j \in Known}) + 1
<1> DEFINE k == [n |-> n, id |-> id, uid |-> u]
<1> DEFINE w == [PageAtRest EXCEPT !.at = "add", !.klap = k]
<1>0. HistoryOK /\ ItemsOK /\ PagesOK /\ FlowOK /\ ChatOK
  BY DEF KlapsInv, KlapsTypeOK
<1>1. /\ kl_page[p].at = "idle" /\ n <= MaxKlaps /\ id <= MaxKlaps
      /\ kl_items' = WithKlap(kl_items, id, EmptyItem(id))
      /\ kl_page' = [kl_page EXCEPT ![p] = w]
      /\ kl_blurred' = kl_blurred \cup Blurs(k)
      /\ UNCHANGED <<kl_by_uid, kl_laid, kl_lifted, kl_lapsed, commandVars, channelVars>>
  BY DEF get_next_klap_id, PageAt, Reserved
<1>2. /\ id \in Nat \ {0} /\ id \notin DOMAIN kl_items
      /\ n \in Nat \ {0} /\ \A j \in Known : j.n # n
  BY <1>0, NewKlap
<1> HIDE DEF id, n
<1>3. k \in Klap /\ k.n = n /\ k.id = id /\ k.uid = u /\ id \in KlapId
  <2>1. n \in 1..MaxKlaps /\ id \in 1..MaxKlaps
    BY <1>1, <1>2, KlapsAssumption
  <2> QED
    BY <2>1 DEF Klap, KlapId
<1> HIDE DEF k
<1>4. k \notin Known
  BY <1>2, <1>3
<1>5. w \in KlapWork /\ w.at = "add" /\ w.klap = k
  BY <1>3 DEF PageAtRest, KlapWork
<1> HIDE DEF w
<1>6. kl_page'[p] = w /\ OnePage(p) /\ kl_page' \in [KlapPage -> KlapWork]
  BY <1>0, <1>1, <1>5, PageChanges DEF PagesOK, OnePage
<1>7. UNCHANGED <<kl_moders, kl_klaped, kl_wiped>>
  BY <1>1 DEF channelVars
<1>8. /\ FlowOK' /\ UnderWay' = UnderWay
      /\ Commands(kl_queue)' = Commands(kl_queue) /\ Commands(ToChat)' = Commands(ToChat) /\ Commands(kl_events)' = Commands(kl_events)
      /\ \A A, B : (EndsPages(A, B)' <=> EndsPages(A, B)) /\ (EndsChat(A, B)' <=> EndsChat(A, B))
      /\ \A B : (StillPages(B)' <=> StillPages(B)) /\ (StillChat(B)' <=> StillChat(B))
  BY <1>0, <1>1, FlowStays
<1>9. /\ DOMAIN kl_items' = DOMAIN kl_items \cup {id} /\ kl_items'[id] = EmptyItem(id)
      /\ \A i \in DOMAIN kl_items : kl_items'[i] = kl_items[i]
      /\ kl_items' = [i \in DOMAIN kl_items' |-> kl_items'[i]]
  BY <1>1, <1>2 DEF WithKlap
<1>10. EmptyItem(id) \in Empties /\ EmptyItem(id).id = id /\ EmptyItem(id).n = 0
  BY <1>3, EmptyFields DEF Empties
<1>11. KlapsTypeOK'
  <2>1. HistoryOK' /\ ChatOK'
    BY <1>0, <1>1, <1>7 DEF HistoryOK, ChatOK
  <2>2. ItemsOK'
    <3>1. DOMAIN kl_items' \subseteq KlapId
      BY <1>0, <1>3, <1>9 DEF ItemsOK
    <3>2. \A i \in DOMAIN kl_items' : kl_items'[i] \in kl_laid' \cup Empties /\ kl_items'[i].id = i
      BY <1>0, <1>1, <1>9, <1>10 DEF ItemsOK
    <3>3. \A v \in DOMAIN kl_by_uid' : kl_by_uid'[v] \in DOMAIN kl_items' /\ kl_items'[kl_by_uid'[v]] \in kl_laid'
      BY <1>0, <1>1, <1>9 DEF ItemsOK
    <3>4. kl_by_uid' = [v \in DOMAIN kl_by_uid' |-> kl_by_uid'[v]]
      BY <1>0, <1>1 DEF ItemsOK
    <3> QED
      BY <1>9, <3>1, <3>2, <3>3, <3>4 DEF ItemsOK
  <2>3. PagesOK'
    <3>1. k \notin kl_laid'
      BY <1>1, <1>4 DEF Known
    <3>2. \A q \in KlapPage : q # p => KlapPageOK(kl_page[q])'
      BY <1>0, <1>1, <1>6 DEF PagesOK, KlapPageOK, OnePage
    <3>3. kl_page'[p] = w
      BY <1>6
    <3>4. KlapPageOK(kl_page[p])'
      BY <1>3, <1>5, <3>1, <3>3 DEF KlapPageOK
    <3> QED
      BY <1>6, <3>2, <3>4 DEF PagesOK
  <2> QED
    BY <1>8, <2>1, <2>2, <2>3 DEF KlapsTypeOK
<1>12. \A q \in KlapPage : kl_page[q].klap # k
  BY <1>4 DEF Known, InHand
<1>13. LaidAlone'
  <2> SUFFICES ASSUME NEW q \in KlapPage, NEW r \in KlapPage, q # r, {kl_page'[q].at, kl_page'[r].at} \subseteq {"add", "queue add"}
               PROVE  kl_page'[q].klap # kl_page'[r].klap
    BY DEF LaidAlone
  <2>1. CASE q = p
    BY <1>5, <1>6, <1>12, <2>1 DEF OnePage
  <2>2. CASE r = p
    BY <1>5, <1>6, <1>12, <2>2 DEF OnePage
  <2>3. CASE q # p /\ r # p
    BY <1>6, <2>3 DEF OnePage, KlapsInv, LaidAlone
  <2> QED
    BY <2>1, <2>2, <2>3
<1>14. BeingLaid' = BeingLaid \cup {k}
  BY <1>1, <1>5, <1>6, LayingChanges DEF KlapsInv, OnePage, LaysAt
<1>15. InPlay' = InPlay \cup {k} /\ Removals' = Removals
  BY <1>8, <1>14 DEF InPlay, Removals
<1>16. /\ BeingLaid \subseteq Known /\ BeingLaid \subseteq Klap /\ BeingLaid \subseteq InHand
       /\ kl_laid \subseteq Known /\ kl_laid \subseteq Klap
  BY <1>0, KnownKlaps DEF HistoryOK
<1>17. \A j \in InHand \cup {Pending[i].klap : i \in DOMAIN Pending} : k \notin kl_blurred' => ~Akin(k, j)
  BY <1>1 DEF Blurs
<1>18. \A j \in Clear' : j \in kl_laid \/ j \in BeingLaid \/ j = k
  BY <1>1, <1>14 DEF Clear
<1>19. \A j \in Clear' : j \in Klap /\ (j # k => j \in Clear)
  BY <1>1, <1>3, <1>14, <1>16 DEF Clear
<1>20. \A j \in InPlay : j \in InHand \/ j \in {Pending[i].klap : i \in DOMAIN Pending}
  BY <1>0, <1>16, PendingKlaps DEF InPlay
<1>21. \A c \in Removals : c.klap \in {Pending[i].klap : i \in DOMAIN Pending} /\ c.klap \in kl_laid \cup Empties \cup {NoKlap}
  BY <1>0, PendingKlaps DEF Removals, FlowOK
<1>22. \A j \in InPlay : j \in Klap
  <2>1. \A c \in UnderWay : c \in KlapCommand
    BY <1>0 DEF UnderWay, Commands, FlowOK
  <2>2. \A c \in UnderWay : c.cmd = "ban$add" => c.klap \in Klap
    BY <2>1, CommandKinds
  <2> QED
    BY <1>16, <2>2 DEF InPlay
<1>23. k \notin kl_laid
  BY <1>4, <1>16
<1>24. ClearHold'
  <2> SUFFICES ASSUME NEW j \in Clear' PROVE Holds(j)'
    BY DEF ClearHold
  <2>1. CASE j # k
    <3>1. Holds(j)
      BY <1>19, <2>1 DEF KlapsInv, ClearHold
    <3>2. j.id \in DOMAIN kl_items' /\ kl_items'[j.id] = kl_items[j.id] /\ j.id # id
      BY <1>2, <1>9, <3>1 DEF Holds
    <3>3. kl_items'[j.id] = IF j \in kl_laid' THEN j ELSE EmptyItem(j.id)
      BY <1>1, <3>1, <3>2 DEF Holds
    <3>4. \A i \in InPlay' : i # j => i.id # j.id
      BY <1>3, <1>15, <3>1, <3>2 DEF Holds
    <3>5. RemovingKlap(j) \notin Removals'
      BY <1>15, <3>1 DEF Holds
    <3> QED
      BY <3>2, <3>3, <3>4, <3>5 DEF Holds
  <2>2. CASE j = k
    <3>1. k \notin kl_blurred'
      BY <2>2 DEF Clear
    <3>2. \A i \in InPlay' : i # k => i.id # k.id
      <4> SUFFICES ASSUME NEW i \in InPlay, i # k PROVE i.id # k.id
        BY <1>15
      <4>1. ~Akin(k, i)
        BY <1>17, <1>20, <3>1
      <4>2. i.n # 0
        BY <1>22, RealKlaps
      <4> QED
        BY <4>1, <4>2 DEF Akin
    <3>3. RemovingKlap(k) \notin Removals'
      <4>1. k \notin kl_laid \cup Empties \cup {NoKlap}
        BY <1>3, <1>23, RealKlaps
      <4>2. RemovingKlap(k).klap = k
        BY DEF RemovingKlap
      <4> QED
        BY <1>15, <1>21, <4>1, <4>2
    <3>4. k.id \in DOMAIN kl_items' /\ kl_items'[k.id] = EmptyItem(k.id)
      BY <1>3, <1>9
    <3> QED
      BY <1>1, <1>23, <2>2, <3>2, <3>3, <3>4 DEF Holds
  <2> QED
    BY <2>1, <2>2
<1>25. Rivals(u) # {} => Rivals(u) \cup {k} \subseteq kl_blurred'
  BY <1>1, <1>3 DEF Blurs
<1>26. ForceRules'
  <2> SUFFICES ASSUME NEW j \in Clear', j \notin kl_lapsed'
               PROVE  Rules(j)' /\ (j \in kl_laid' \ kl_wiped' => ChatWillKnow(j)')
    BY DEF ForceRules
  <2>1. CASE j # k
    <3>1. Rules(j) /\ Holds(j) /\ j \in Clear /\ j \notin kl_lapsed
      BY <1>1, <1>19, <2>1 DEF KlapsInv, ForceRules, ClearHold
    <3>2. j.uid # u
      <4>1. CASE j \in BeingLaid
        <5>1. j.uid = u => j \in Rivals(u)
          BY <4>1 DEF Rivals
        <5> QED
          BY <1>25, <5>1 DEF Clear
      <4>2. CASE j \in kl_laid
        <5>1. j.id \in DOMAIN kl_items /\ kl_items[j.id] = j
          BY <3>1, <4>2 DEF Holds
        <5>2. j.id \in InForce(kl_items)
          BY <1>16, <3>1, <4>2, <5>1, RealKlaps DEF InForce
        <5>3. j.uid = u => j \in Rivals(u)
          BY <5>1, <5>2 DEF Rivals
        <5> QED
          BY <1>25, <5>3 DEF Clear
      <4> QED
        BY <1>18, <2>1, <4>1, <4>2
    <3>3. \A i \in DOMAIN kl_items' : kl_items'[i].n # 0 /\ kl_items'[i].uid = j.uid /\ kl_items'[i] # j => kl_items'[i] \in kl_lapsed'
      BY <1>1, <1>9, <1>10, <3>1 DEF Rules
    <3>4. \A i \in InPlay' : i # j => i.uid # j.uid
      BY <1>3, <1>15, <3>1, <3>2 DEF Rules
    <3>5. \A c \in Removals' : c.klap.n # 0 /\ c.klap # j => c.klap.uid # j.uid
      BY <1>15, <3>1 DEF Rules
    <3>6. j \in kl_laid' => j.uid \in DOMAIN kl_by_uid' /\ kl_by_uid'[j.uid] = j.id
      BY <1>1, <3>1 DEF Rules
    <3>7. j \in kl_laid' \ kl_wiped' => ChatWillKnow(j)'
      <4> SUFFICES ASSUME j \in kl_laid \ kl_wiped PROVE ChatWillKnow(j)'
        BY <1>1, <1>7
      <4>1. ChatWillKnow(j)
        BY <3>1 DEF KlapsInv, ForceRules
      <4> QED
        BY <1>1, <1>6, <1>7, <1>8, <4>1 DEF ChatWillKnow, OnePage
    <3> QED
      BY <3>3, <3>4, <3>5, <3>6, <3>7 DEF Rules
  <2>2. CASE j = k
    <3>1. k \notin kl_blurred'
      BY <2>2 DEF Clear
    <3>2. Rivals(u) = {}
      BY <1>25, <3>1
    <3>3. \A i \in DOMAIN kl_items' : kl_items'[i].n # 0 /\ kl_items'[i].uid = k.uid => kl_items'[i] \in kl_lapsed'
      <4> SUFFICES ASSUME NEW i \in DOMAIN kl_items, kl_items[i].n # 0, kl_items[i].uid = u, kl_items[i] \notin kl_lapsed PROVE FALSE
        BY <1>1, <1>3, <1>9, <1>10
      <4>1. i \in InForce(kl_items)
        BY DEF InForce
      <4> QED
        BY <3>2, <4>1 DEF Rivals
    <3>4. \A i \in InPlay' : i # k => i.uid # k.uid
      <4> SUFFICES ASSUME NEW i \in InPlay, i # k PROVE i.uid # k.uid
        BY <1>15
      <4>1. ~Akin(k, i)
        BY <1>17, <1>20, <3>1
      <4>2. i.n # 0
        BY <1>22, RealKlaps
      <4> QED
        BY <4>1, <4>2 DEF Akin
    <3>5. \A c \in Removals' : c.klap.n # 0 /\ c.klap # k => c.klap.uid # k.uid
      <4> SUFFICES ASSUME NEW c \in Removals, c.klap.n # 0, c.klap # k PROVE c.klap.uid # k.uid
        BY <1>15
      <4>1. ~Akin(k, c.klap)
        BY <1>17, <1>21, <3>1
      <4> QED
        BY <4>1 DEF Akin
    <3>6. k \notin kl_laid'
      BY <1>1, <1>23
    <3> QED
      BY <2>2, <3>3, <3>4, <3>5, <3>6 DEF Rules
  <2> QED
    BY <2>1, <2>2
<1>27. LiftedGo'
  <2> SUFFICES ASSUME NEW j \in kl_lifted, j \notin kl_blurred PROVE GoesFor(j)'
    BY <1>1 DEF LiftedGo
  <2>1. GoesFor(j)
    BY DEF KlapsInv, LiftedGo
  <2>2. j \in kl_laid /\ j \in Klap /\ j # k
    BY <1>0, <1>16, <1>23 DEF HistoryOK
  <2>3. j \notin BeingLaid'
    BY <1>14, <2>1, <2>2 DEF GoesFor
  <2>4. j # EmptyItem(id)
    BY <1>10, <2>2, RealKlaps
  <2>5. (j.id \notin DOMAIN kl_items \/ kl_items[j.id] # j) => (j.id \notin DOMAIN kl_items' \/ kl_items'[j.id] # j)
    BY <1>9, <2>4
  <2> QED
    BY <1>7, <1>8, <2>1, <2>3, <2>5 DEF GoesFor
<1>28. ModeratorsTrack'
  <2>1. PagesAside
    BY <1>1, <1>5, <1>6 DEF PagesAside, AsideOf, OnePage
  <2> QED
    BY <1>7, <1>8, <2>1, ModeratorsKept DEF KlapsInv
<1> QED
  BY <1>11, <1>13, <1>24, <1>26, <1>27, <1>28 DEF KlapsInv

\* _klap_stuff is built anew from items that are as they should be.
LEMMA ItemsAreRebuilt ==
  ASSUME NEW items, SetItems(items), DOMAIN items \subseteq KlapId, items = [i \in DOMAIN items |-> items[i]],
         \A i \in DOMAIN items : items[i] \in kl_laid' \cup Empties /\ items[i].id = i
  PROVE  /\ ItemsOK'
         /\ \A j \in Klap \ kl_lapsed :
              /\ j.id \in DOMAIN kl_items' /\ kl_items'[j.id] = j
              /\ \A i \in DOMAIN kl_items' : kl_items'[i].n # 0 /\ kl_items'[i].uid = j.uid /\ kl_items'[i] # j => kl_items'[i] \in kl_lapsed
              => j.uid \in DOMAIN kl_by_uid' /\ kl_by_uid'[j.uid] = j.id
<1>1. kl_items' = items /\ kl_by_uid' = rebuild_NM(items)
  BY DEF SetItems
<1>2. /\ rebuild_NM(items) = [u \in DOMAIN rebuild_NM(items) |-> rebuild_NM(items)[u]]
      /\ \A u \in DOMAIN rebuild_NM(items) : rebuild_NM(items)[u] \in InForce(items)
      /\ \A j : /\ j.id \in InForce(items) /\ items[j.id].uid = j.uid
                /\ \A i \in InForce(items) : items[i].uid = j.uid => i = j.id
                => j.uid \in DOMAIN rebuild_NM(items) /\ rebuild_NM(items)[j.uid] = j.id
  BY Rebuilt
<1>3. \A i \in InForce(items) : i \in DOMAIN items /\ items[i] \in kl_laid'
  BY RealKlaps DEF InForce
<1>4. ItemsOK'
  <2>1. \A i \in DOMAIN kl_items' : kl_items'[i] \in kl_laid' \cup Empties /\ kl_items'[i].id = i
    BY <1>1
  <2>2. \A u \in DOMAIN kl_by_uid' : kl_by_uid'[u] \in DOMAIN kl_items' /\ kl_items'[kl_by_uid'[u]] \in kl_laid'
    BY <1>1, <1>2, <1>3
  <2>3. kl_by_uid' = [u \in DOMAIN kl_by_uid' |-> kl_by_uid'[u]]
    BY <1>1, <1>2
  <2>4. kl_items' = [i \in DOMAIN kl_items' |-> kl_items'[i]] /\ DOMAIN kl_items' \subseteq KlapId
    BY <1>1
  <2> QED
    BY <2>1, <2>2, <2>3, <2>4 DEF ItemsOK
<1>5. ASSUME NEW j \in Klap \ kl_lapsed, j.id \in DOMAIN items, items[j.id] = j,
             \A i \in DOMAIN items : items[i].n # 0 /\ items[i].uid = j.uid /\ items[i] # j => items[i] \in kl_lapsed
      PROVE  j.uid \in DOMAIN rebuild_NM(items) /\ rebuild_NM(items)[j.uid] = j.id
  <2>1. j.id \in InForce(items)
    BY <1>5, RealKlaps DEF InForce
  <2>2. ASSUME NEW i \in InForce(items), items[i].uid = j.uid PROVE i = j.id
    <3>1. i \in DOMAIN items /\ items[i].n # 0 /\ items[i] \notin kl_lapsed
      BY DEF InForce
    <3>2. items[i] = j
      BY <1>5, <2>2, <3>1
    <3> QED
      BY <3>1, <3>2
  <2> QED
    BY <1>2, <1>5, <2>1, <2>2
<1>6. \A j \in Klap \ kl_lapsed :
        /\ j.id \in DOMAIN kl_items' /\ kl_items'[j.id] = j
        /\ \A i \in DOMAIN kl_items' : kl_items'[i].n # 0 /\ kl_items'[i].uid = j.uid /\ kl_items'[i] # j => kl_items'[i] \in kl_lapsed
        => j.uid \in DOMAIN kl_by_uid' /\ kl_by_uid'[j.uid] = j.id
  BY <1>1, <1>5
<1> QED
  BY <1>4, <1>6

\* The same klap again: others' klaps are untouched.
LEMMA SetKeeps ==
  ASSUME HistoryOK, ItemsOK, ClearHold, ForceRules, NEW k \in InPlay, k \in Klap, k \in kl_laid', kl_laid' \subseteq kl_laid \cup {k},
         kl_laid \subseteq kl_laid', k \notin kl_lapsed, SetItems(WithKlap(kl_items, k.id, k)),
         UNCHANGED <<kl_lifted, kl_lapsed, kl_blurred, kl_wiped>>,
         BeingLaid' = BeingLaid, BeingLaid \subseteq Klap, k \in kl_laid \cup BeingLaid,
         InPlay' \subseteq InPlay, Removals' \subseteq Removals,
         \A j \in kl_laid : ChatWillKnow(j) => ChatWillKnow(j)', k \in kl_laid \/ ChatWillKnow(k)'
  PROVE  /\ ItemsOK' /\ ClearHold' /\ ForceRules'
         /\ \A j : j # k /\ (j.id \notin DOMAIN kl_items \/ kl_items[j.id] # j) => (j.id \notin DOMAIN kl_items' \/ kl_items'[j.id] # j)
<1>1. /\ ItemsOK'
      /\ DOMAIN kl_items' = DOMAIN kl_items \cup {k.id} /\ kl_items'[k.id] = k
      /\ \A i \in DOMAIN kl_items : i # k.id => kl_items'[i] = kl_items[i]
      /\ \A j \in Klap \ kl_lapsed :
           /\ j.id \in DOMAIN kl_items' /\ kl_items'[j.id] = j
           /\ \A i \in DOMAIN kl_items' : kl_items'[i].n # 0 /\ kl_items'[i].uid = j.uid /\ kl_items'[i] # j => kl_items'[i] \in kl_lapsed
           => j.uid \in DOMAIN kl_by_uid' /\ kl_by_uid'[j.uid] = j.id
  <2> DEFINE items == WithKlap(kl_items, k.id, k)
  <2>1. /\ DOMAIN items = DOMAIN kl_items \cup {k.id} /\ items[k.id] = k /\ items = [i \in DOMAIN items |-> items[i]]
        /\ \A i \in DOMAIN kl_items : i # k.id => items[i] = kl_items[i]
    BY DEF WithKlap
  <2>2. kl_items' = items
    BY DEF SetItems
  <2> HIDE DEF items
  <2>3. DOMAIN items \subseteq KlapId
    BY <2>1 DEF ItemsOK, Klap
  <2>4. \A i \in DOMAIN items : items[i] \in kl_laid' \cup Empties /\ items[i].id = i
    <3>1. \A i \in DOMAIN kl_items : kl_items[i] \in kl_laid' \cup Empties /\ kl_items[i].id = i
      BY DEF ItemsOK
    <3> QED
      BY <2>1, <3>1
  <2>5. /\ ItemsOK'
        /\ \A j \in Klap \ kl_lapsed :
             /\ j.id \in DOMAIN kl_items' /\ kl_items'[j.id] = j
             /\ \A i \in DOMAIN kl_items' : kl_items'[i].n # 0 /\ kl_items'[i].uid = j.uid /\ kl_items'[i] # j => kl_items'[i] \in kl_lapsed
             => j.uid \in DOMAIN kl_by_uid' /\ kl_by_uid'[j.uid] = j.id
    BY <2>1, <2>3, <2>4, ItemsAreRebuilt DEF items
  <2> QED
    BY <2>1, <2>2, <2>5
<1>2. Clear' = Clear
  BY DEF Clear
<1>3. \A j \in Clear : j \in Klap /\ Holds(j)
  BY DEF Clear, HistoryOK, ClearHold
<1>4. ASSUME NEW j \in Clear, j # k
      PROVE  /\ j.id # k.id /\ j.id \in DOMAIN kl_items' /\ kl_items'[j.id] = kl_items[j.id]
             /\ j \in kl_laid' <=> j \in kl_laid
  <2>1. j.id # k.id /\ j.id \in DOMAIN kl_items
    BY <1>3, <1>4 DEF Holds
  <2> QED
    BY <1>1, <1>4, <2>1
<1>5. ASSUME NEW j \in Clear PROVE Holds(j)'
  <2>1. j.id \in DOMAIN kl_items' /\ kl_items'[j.id] = IF j \in kl_laid' THEN j ELSE EmptyItem(j.id)
    <3>1. CASE j = k
      BY <1>1, <3>1
    <3>2. CASE j # k
      BY <1>3, <1>4, <3>2 DEF Holds
    <3> QED
      BY <3>1, <3>2
  <2>2. \A i \in InPlay' : i # j => i.id # j.id
    BY <1>3 DEF Holds
  <2>3. RemovingKlap(j) \notin Removals'
    BY <1>3 DEF Holds
  <2> QED
    BY <2>1, <2>2, <2>3 DEF Holds
<1>6. ASSUME NEW j \in Clear, j \notin kl_lapsed
      PROVE  Rules(j)' /\ (j \in kl_laid' \ kl_wiped' => ChatWillKnow(j)')
  <2>1. Rules(j) /\ (j \in kl_laid \ kl_wiped => ChatWillKnow(j))
    BY <1>6 DEF ForceRules
  <2>2. \A i \in DOMAIN kl_items' : kl_items'[i].n # 0 /\ kl_items'[i].uid = j.uid /\ kl_items'[i] # j => kl_items'[i] \in kl_lapsed
    <3> SUFFICES ASSUME NEW i \in DOMAIN kl_items', kl_items'[i].n # 0, kl_items'[i].uid = j.uid, kl_items'[i] # j
                 PROVE  kl_items'[i] \in kl_lapsed
      OBVIOUS
    <3>1. CASE i = k.id
      <4>1. k # j => k.uid # j.uid
        BY <2>1 DEF Rules
      <4> QED
        BY <1>1, <3>1, <4>1
    <3>2. CASE i # k.id
      <4>1. i \in DOMAIN kl_items /\ kl_items'[i] = kl_items[i]
        BY <1>1, <3>2
      <4> QED
        BY <2>1, <4>1 DEF Rules
    <3> QED
      BY <3>1, <3>2
  <2>3. \A i \in InPlay' : i # j => i.uid # j.uid
    BY <2>1 DEF Rules
  <2>4. \A c \in Removals' : c.klap.n # 0 /\ c.klap # j => c.klap.uid # j.uid
    BY <2>1 DEF Rules
  <2>5. j \in kl_laid' => j.uid \in DOMAIN kl_by_uid' /\ kl_by_uid'[j.uid] = j.id
    <3> SUFFICES ASSUME j \in kl_laid' PROVE j.uid \in DOMAIN kl_by_uid' /\ kl_by_uid'[j.uid] = j.id
      OBVIOUS
    <3>1. j.id \in DOMAIN kl_items' /\ kl_items'[j.id] = j
      BY <1>5 DEF Holds
    <3>2. j \in Klap \ kl_lapsed
      BY <1>3, <1>6
    <3> QED
      BY <1>1, <2>2, <3>1, <3>2
  <2>6. Rules(j)'
    BY <2>2, <2>3, <2>4, <2>5 DEF Rules
  <2>7. j \in kl_laid' \ kl_wiped' => ChatWillKnow(j)'
    BY <2>1
  <2> QED
    BY <2>6, <2>7
<1>7. ClearHold'
  BY <1>2, <1>5 DEF ClearHold
<1>8. ForceRules'
  BY <1>2, <1>6 DEF ForceRules
<1>9. ASSUME NEW j, j # k, j.id \notin DOMAIN kl_items \/ kl_items[j.id] # j PROVE j.id \notin DOMAIN kl_items' \/ kl_items'[j.id] # j
  BY <1>1, <1>9
<1> QED
  BY <1>1, <1>7, <1>8, <1>9

\* add_klap, by a moderator.
Lay(p) ==
  /\ PageAt(p, "add")
  /\ add__klap(kl_page[p].klap)
  /\ kl_laid' = kl_laid \cup {kl_page[p].klap}
  /\ PageGoes(p, "queue add")
  /\ UNCHANGED <<kl_lifted, kl_lapsed, kl_blurred, commandVars, channelVars>>

LEMMA LayKeeps ==
  ASSUME KlapsInv, NEW p \in KlapPage, Lay(p)
  PROVE  KlapsInv'
<1> PICK k : k = kl_page[p].klap
  OBVIOUS
<1> DEFINE w == [kl_page[p] EXCEPT !.at = "queue add"]
<1>0. HistoryOK /\ ItemsOK /\ PagesOK /\ FlowOK /\ ChatOK
  BY DEF KlapsInv, KlapsTypeOK
<1>1. /\ kl_page[p].at = "add" /\ add__klap(k) /\ kl_laid' = kl_laid \cup {k}
      /\ UNCHANGED <<kl_lifted, kl_lapsed, kl_blurred, commandVars, channelVars>>
      /\ kl_page' = [kl_page EXCEPT ![p] = w]
  BY <1>0, PageStepChanges DEF Lay, PageAt, PagesOK
<1>2. UNCHANGED <<kl_moders, kl_klaped, kl_wiped>>
  BY <1>1 DEF channelVars
<1>3. k \in Klap /\ k \notin kl_laid
  BY <1>0, <1>1 DEF PagesOK, KlapPageOK
<1>4. w \in KlapWork /\ w.at = "queue add" /\ w.klap = k
  BY <1>0 DEF PagesOK, KlapWork
<1>5. k \notin kl_lapsed /\ SetItems(WithKlap(kl_items, k.id, k))
  BY <1>0, <1>1, <1>3 DEF HistoryOK, add__klap
<1>6. k \in BeingLaid
  BY <1>1 DEF BeingLaid, PageAt
<1> HIDE DEF w
<1>7. kl_page'[p] = w /\ OnePage(p) /\ kl_page' \in [KlapPage -> KlapWork]
  BY <1>0, <1>1, <1>4, PageChanges DEF PagesOK, OnePage
<1>8. BeingLaid' = BeingLaid
  BY <1>1, <1>4, <1>7, LayingChanges DEF KlapsInv, OnePage, LaysAt
<1>9. \A q \in KlapPage : q # p /\ kl_page[q].at \in LaysAt => kl_page[q].klap # k
  BY <1>1 DEF KlapsInv, LaidAlone, LaysAt
<1>10. PagesOK'
  <2>1. KlapPageOK(kl_page[p])'
    BY <1>1, <1>3, <1>4, <1>7 DEF KlapPageOK
  <2>2. ASSUME NEW q \in KlapPage, q # p PROVE KlapPageOK(kl_page[q])'
    <3>1. kl_page'[q] = kl_page[q] /\ KlapPageOK(kl_page[q])
      BY <1>0, <1>7, <2>2 DEF OnePage, PagesOK
    <3>2. kl_page[q].at = "add" => kl_page[q].klap \notin kl_laid'
      BY <1>1, <1>9, <2>2, <3>1 DEF LaysAt, KlapPageOK
    <3>3. kl_laid \subseteq kl_laid'
      BY <1>1
    <3>4. /\ kl_page[q].at = "queue add" => kl_page[q].klap \in kl_laid'
          /\ kl_page[q].at = "lift" => kl_page[q].klap \in kl_laid' \cup Empties
      BY <3>1, <3>3 DEF KlapPageOK
    <3> QED
      BY <3>1, <3>2, <3>4 DEF KlapPageOK
  <2> QED
    BY <1>7, <2>1, <2>2 DEF PagesOK
<1>11. /\ FlowOK' /\ UnderWay' = UnderWay
       /\ Commands(kl_queue)' = Commands(kl_queue) /\ Commands(ToChat)' = Commands(ToChat) /\ Commands(kl_events)' = Commands(kl_events)
       /\ \A A, B : (EndsPages(A, B)' <=> EndsPages(A, B)) /\ (EndsChat(A, B)' <=> EndsChat(A, B))
       /\ \A B : (StillPages(B)' <=> StillPages(B)) /\ (StillChat(B)' <=> StillChat(B))
  <2>1. kl_laid \subseteq kl_laid'
    BY <1>1
  <2> QED
    BY <1>0, <1>1, <2>1, FlowStays
<1>12. InPlay' = InPlay /\ Removals' = Removals
  BY <1>8, <1>11 DEF InPlay, Removals
<1>13. \A j \in kl_laid : ChatWillKnow(j) => ChatWillKnow(j)'
  BY <1>1, <1>2, <1>7, <1>11 DEF ChatWillKnow, OnePage
<1>14. ChatWillKnow(k)'
  BY <1>4, <1>7 DEF ChatWillKnow
<1>15. /\ ItemsOK' /\ ClearHold' /\ ForceRules'
       /\ \A j : j # k /\ (j.id \notin DOMAIN kl_items \/ kl_items[j.id] # j) => (j.id \notin DOMAIN kl_items' \/ kl_items'[j.id] # j)
  <2>1. k \in InPlay
    BY <1>6 DEF InPlay
  <2>2. BeingLaid \subseteq Klap
    BY <1>0, KnownKlaps
  <2>3. /\ k \in kl_laid' /\ kl_laid' \subseteq kl_laid \cup {k} /\ kl_laid \subseteq kl_laid'
        /\ UNCHANGED <<kl_lifted, kl_lapsed, kl_blurred, kl_wiped>>
    BY <1>1, <1>2
  <2>4. ClearHold /\ ForceRules
    BY DEF KlapsInv
  <2> QED
    BY <1>0, <1>3, <1>5, <1>6, <1>8, <1>12, <1>13, <1>14, <2>1, <2>2, <2>3, <2>4, SetKeeps
<1>16. HistoryOK' /\ ChatOK'
  BY <1>0, <1>1, <1>2, <1>3 DEF HistoryOK, ChatOK
<1>17. LaidAlone'
  <2> SUFFICES ASSUME NEW q \in KlapPage, NEW r \in KlapPage, q # r, {kl_page'[q].at, kl_page'[r].at} \subseteq {"add", "queue add"}
               PROVE  kl_page'[q].klap # kl_page'[r].klap
    BY DEF LaidAlone
  <2>1. \A x \in KlapPage : kl_page'[x].klap = kl_page[x].klap /\ (kl_page'[x].at \in LaysAt => kl_page[x].at \in LaysAt)
    BY <1>1, <1>4, <1>7 DEF OnePage, LaysAt
  <2> QED
    BY <2>1 DEF KlapsInv, LaidAlone, LaysAt
<1>18. LiftedGo'
  <2> SUFFICES ASSUME NEW j \in kl_lifted, j \notin kl_blurred PROVE GoesFor(j)'
    BY <1>1 DEF LiftedGo
  <2>1. GoesFor(j) /\ j # k
    BY <1>0, <1>3 DEF KlapsInv, LiftedGo, HistoryOK
  <2>2. (j.id \notin DOMAIN kl_items \/ kl_items[j.id] # j) => (j.id \notin DOMAIN kl_items' \/ kl_items'[j.id] # j)
    BY <1>15, <2>1
  <2> QED
    BY <1>2, <1>8, <1>11, <2>1, <2>2 DEF GoesFor
<1>19. ModeratorsTrack'
  <2>1. PagesAside
    BY <1>1, <1>4, <1>7 DEF PagesAside, AsideOf, OnePage
  <2> QED
    BY <1>2, <1>11, <2>1, ModeratorsKept DEF KlapsInv
<1> QED
  BY <1>10, <1>11, <1>15, <1>16, <1>17, <1>18, <1>19 DEF KlapsInv, KlapsTypeOK
-----------------------------------------------------------------------------
(* Klaps are lifted.                                                       *)

\* Who removes the klap k, and finds nothing under its id.
LEMMA MissKeeps ==
  ASSUME HistoryOK, ClearHold, ForceRules, LiftedGo, NEW k, k.id \notin DOMAIN kl_items,
         UNCHANGED <<kl_items, kl_by_uid, kl_blurred, kl_laid, kl_lapsed, kl_klaped, kl_wiped>>,
         kl_lifted \subseteq kl_lifted', kl_lifted' \subseteq kl_lifted \cup ({k} \cap kl_laid),
         BeingLaid' = BeingLaid, InPlay' \subseteq InPlay, Removals' \subseteq Removals,
         \A j \in kl_laid : ChatWillKnow(j) => ChatWillKnow(j)',
         \A j : /\ EndsPages({RemovingKlap(j)}, {AddingKlap(j)}) => EndsPages({RemovingKlap(j)}, {AddingKlap(j)})' \/ (j = k /\ StillPages({AddingKlap(j)})')
                /\ EndsChat({RemovingKlap(j)}, {AddingKlap(j)}) => EndsChat({RemovingKlap(j)}, {AddingKlap(j)})'
                /\ StillPages({AddingKlap(j)}) => StillPages({AddingKlap(j)})'
                /\ StillChat({AddingKlap(j)}) => StillChat({AddingKlap(j)})'
  PROVE  HistoryOK' /\ ClearHold' /\ ForceRules' /\ LiftedGo'
<1>1. kl_lifted' \ kl_blurred' \subseteq kl_lifted
  <2> SUFFICES ASSUME k \in kl_laid, k \notin kl_lifted, k \notin kl_blurred PROVE FALSE
    OBVIOUS
  <2>1. k \in Clear
    BY DEF Clear
  <2> QED
    BY <2>1 DEF ClearHold, Holds
<1>2. \A j \in kl_lifted : GoesFor(j) => GoesFor(j)'
  <2> SUFFICES ASSUME NEW j \in kl_lifted, GoesFor(j) PROVE GoesFor(j)'
    OBVIOUS
  <2>1. j = k => j.id \notin DOMAIN kl_items
    OBVIOUS
  <2> QED
    BY <2>1 DEF GoesFor
<1>3. HistoryOK'
  BY DEF HistoryOK
<1>4. ClearHold' /\ ForceRules' /\ LiftedGo'
  BY <1>1, <1>2, KlapsKept
<1> QED
  BY <1>3, <1>4

\* Who removes the klap k, and finds h under its id.
LEMMA HitKeeps ==
  ASSUME HistoryOK, ItemsOK, PagesOK, ClearHold, ForceRules, LiftedGo, NEW k, NEW h,
         k.id \in DOMAIN kl_items, h = kl_items[k.id], SetItems(WithoutKlap(kl_items, k.id)),
         kl_blurred' = kl_blurred \cup Near(h) \cup (IF h # k \/ h \in BeingLaid THEN {h} ELSE {}),
         UNCHANGED <<kl_laid, kl_lapsed, kl_klaped, kl_wiped>>,
         kl_lifted \subseteq kl_lifted', kl_lifted' \subseteq kl_lifted \cup ({k} \cap kl_laid),
         k \in kl_laid => k \in kl_lifted' \/ RemovingKlap(k) \in Removals,
         BeingLaid' = BeingLaid, InPlay' \subseteq InPlay, Removals' \subseteq Removals \cup {RemovingKlap(h)},
         \A j \in kl_laid : ChatWillKnow(j) => ChatWillKnow(j)',
         EndsPages({RemovingKlap(h)}, {AddingKlap(h)})', EndsChat({RemovingKlap(h)}, {AddingKlap(h)})',
         \A j : j # h =>
           /\ EndsPages({RemovingKlap(j)}, {AddingKlap(j)}) => EndsPages({RemovingKlap(j)}, {AddingKlap(j)})' \/ (j = k /\ StillPages({AddingKlap(j)})')
           /\ EndsChat({RemovingKlap(j)}, {AddingKlap(j)}) => EndsChat({RemovingKlap(j)}, {AddingKlap(j)})'
           /\ StillPages({AddingKlap(j)}) => StillPages({AddingKlap(j)})'
           /\ StillChat({AddingKlap(j)}) => StillChat({AddingKlap(j)})'
  PROVE  HistoryOK' /\ ItemsOK' /\ ClearHold' /\ ForceRules' /\ LiftedGo'
<1>1. /\ DOMAIN kl_items' = DOMAIN kl_items \ {k.id} /\ kl_items' = [i \in DOMAIN kl_items' |-> kl_items'[i]]
      /\ \A i \in DOMAIN kl_items' : i # k.id /\ i \in DOMAIN kl_items /\ kl_items'[i] = kl_items[i]
  BY DEF WithoutKlap, SetItems
<1>2. h \in kl_laid \cup Empties /\ h.id = k.id
  BY DEF ItemsOK
<1>3. /\ ItemsOK'
      /\ \A j \in Klap \ kl_lapsed :
           /\ j.id \in DOMAIN kl_items' /\ kl_items'[j.id] = j
           /\ \A i \in DOMAIN kl_items' : kl_items'[i].n # 0 /\ kl_items'[i].uid = j.uid /\ kl_items'[i] # j => kl_items'[i] \in kl_lapsed
           => j.uid \in DOMAIN kl_by_uid' /\ kl_by_uid'[j.uid] = j.id
  <2>1. DOMAIN kl_items' \subseteq KlapId
    BY <1>1 DEF ItemsOK
  <2>2. \A i \in DOMAIN kl_items' : kl_items'[i] \in kl_laid' \cup Empties /\ kl_items'[i].id = i
    BY <1>1 DEF ItemsOK
  <2>3. kl_items' = WithoutKlap(kl_items, k.id)
    BY DEF SetItems
  <2>4. PICK items : items = WithoutKlap(kl_items, k.id)
    OBVIOUS
  <2> QED
    BY <1>1, <2>1, <2>2, <2>3, <2>4, ItemsAreRebuilt
<1>4. BeingLaid \subseteq Known /\ BeingLaid \subseteq Klap /\ kl_laid \subseteq Known /\ kl_laid \subseteq Klap
  BY KnownKlaps DEF HistoryOK
<1>5. Clear' \subseteq Clear /\ \A j \in Clear : j \in Klap /\ j \in Known /\ Holds(j)
  BY <1>4 DEF Clear, ClearHold
<1>6. ASSUME NEW j \in Clear' PROVE j.id # k.id
  <2> SUFFICES ASSUME j.id = k.id PROVE FALSE
    OBVIOUS
  <2>1. j \notin kl_blurred' /\ j \notin kl_lifted'
    BY DEF Clear
  <2>2. h = IF j \in kl_laid THEN j ELSE EmptyItem(j.id)
    BY <1>5 DEF Holds
  <2>3. CASE j \in kl_laid
    <3>1. h = j /\ j = k
      BY <2>1, <2>2, <2>3
    <3>2. RemovingKlap(k) \notin Removals
      BY <1>5, <3>1 DEF Holds
    <3> QED
      BY <2>1, <2>3, <3>1, <3>2
  <2>4. CASE j \notin kl_laid
    <3>1. h = EmptyItem(j.id) /\ h.n = 0
      BY <2>2, <2>4, EmptyFields
    <3>2. j.n # 0
      BY <1>5, RealKlaps
    <3>3. Akin(h, j)
      BY <1>2, <3>1, <3>2 DEF Akin
    <3>4. j \in Near(h)
      BY <1>5, <3>3 DEF Near
    <3> QED
      BY <2>1, <3>4
  <2> QED
    BY <2>3, <2>4
<1>7. ASSUME NEW j \in Clear' PROVE j \in Clear /\ j \in Klap /\ j.id \in DOMAIN kl_items' /\ kl_items'[j.id] = kl_items[j.id] /\ Holds(j)
  BY <1>1, <1>5, <1>6 DEF Holds
<1>8. ClearHold'
  <2> SUFFICES ASSUME NEW j \in Clear' PROVE Holds(j)'
    BY DEF ClearHold
  <2>1. j.id \in DOMAIN kl_items' /\ kl_items'[j.id] = IF j \in kl_laid' THEN j ELSE EmptyItem(j.id)
    BY <1>7 DEF Holds
  <2>2. \A i \in InPlay' : i # j => i.id # j.id
    BY <1>7 DEF Holds
  <2>3. RemovingKlap(j) # RemovingKlap(h)
    <3>1. RemovingKlap(j).klap = j /\ RemovingKlap(h).klap = h
      BY DEF RemovingKlap
    <3> QED
      BY <1>2, <1>6, <3>1
  <2>4. RemovingKlap(j) \notin Removals'
    BY <1>7, <2>3 DEF Holds
  <2> QED
    BY <2>1, <2>2, <2>4 DEF Holds
<1>9. ForceRules'
  <2> SUFFICES ASSUME NEW j \in Clear', j \notin kl_lapsed'
               PROVE  Rules(j)' /\ (j \in kl_laid' \ kl_wiped' => ChatWillKnow(j)')
    BY DEF ForceRules
  <2>1. Rules(j) /\ (j \in kl_laid \ kl_wiped => ChatWillKnow(j)) /\ j \notin kl_lapsed
    BY <1>7 DEF ForceRules
  <2>2. \A i \in DOMAIN kl_items' : kl_items'[i].n # 0 /\ kl_items'[i].uid = j.uid /\ kl_items'[i] # j => kl_items'[i] \in kl_lapsed
    BY <1>1, <2>1 DEF Rules
  <2>3. \A i \in InPlay' : i # j => i.uid # j.uid
    BY <2>1 DEF Rules
  <2>4. h.n # 0 => h.uid # j.uid
    <3> SUFFICES ASSUME h.n # 0, h.uid = j.uid PROVE FALSE
      OBVIOUS
    <3>1. j.n # 0 /\ h # j
      BY <1>2, <1>6, <1>7, RealKlaps
    <3>2. j \in Near(h)
      BY <1>5, <1>7, <3>1 DEF Near, Akin
    <3> QED
      BY <3>2 DEF Clear
  <2>5. \A c \in Removals' : c.klap.n # 0 /\ c.klap # j => c.klap.uid # j.uid
    <3>1. RemovingKlap(h).klap = h
      BY DEF RemovingKlap
    <3> QED
      BY <2>1, <2>4, <3>1 DEF Rules
  <2>6. j \in kl_laid' => j.uid \in DOMAIN kl_by_uid' /\ kl_by_uid'[j.uid] = j.id
    <3> SUFFICES ASSUME j \in kl_laid PROVE j.uid \in DOMAIN kl_by_uid' /\ kl_by_uid'[j.uid] = j.id
      OBVIOUS
    <3>1. kl_items'[j.id] = j
      BY <1>7 DEF Holds
    <3> QED
      BY <1>3, <1>7, <2>1, <2>2, <3>1
  <2>7. Rules(j)'
    BY <2>2, <2>3, <2>5, <2>6 DEF Rules
  <2> QED
    BY <2>1, <2>7
<1>10. LiftedGo'
  <2> SUFFICES ASSUME NEW j \in kl_lifted', j \notin kl_blurred' PROVE GoesFor(j)'
    BY DEF LiftedGo
  <2>1. CASE j = h
    <3>1. j \notin BeingLaid'
      BY <2>1
    <3> QED
      BY <2>1, <3>1 DEF GoesFor
  <2>2. CASE j # h
    <3>1. j \in kl_lifted
      <4> SUFFICES ASSUME j \notin kl_lifted PROVE FALSE
        OBVIOUS
      <4>1. j = k /\ j \in kl_laid
        OBVIOUS
      <4>2. j \in Clear
        BY <4>1 DEF Clear
      <4> QED
        BY <1>5, <2>2, <4>1, <4>2 DEF Holds
    <3>2. GoesFor(j)
      BY <3>1 DEF LiftedGo
    <3>3. j.id \notin DOMAIN kl_items \/ kl_items[j.id] # j => j.id \notin DOMAIN kl_items' \/ kl_items'[j.id] # j
      BY <1>1
    <3>4. j = k => j.id \notin DOMAIN kl_items'
      BY <1>1
    <3> QED
      BY <2>2, <3>2, <3>3, <3>4 DEF GoesFor
  <2> QED
    BY <2>1, <2>2
<1>11. HistoryOK'
  BY DEF HistoryOK
<1> QED
  BY <1>3, <1>8, <1>9, <1>10, <1>11

\* A page, or a message of the user, removes the klap k.
LEMMA LiftKeeps ==
  ASSUME KlapsInv, NEW k, Lifted(k), k \in kl_laid => k \in kl_lifted',
         kl_lifted \subseteq kl_lifted', kl_lifted' \subseteq kl_lifted \cup ({k} \cap kl_laid),
         UNCHANGED <<kl_laid, kl_lapsed, kl_batch, kl_step, kl_events, channelVars>>,
         BeingLaid' = BeingLaid, PagesAside,
         \A p \in KlapPage : kl_page[p].at = "queue add" => kl_page'[p] = kl_page[p]
  PROVE  HistoryOK' /\ ItemsOK' /\ FlowOK' /\ ChatOK' /\ ClearHold' /\ ForceRules' /\ LiftedGo' /\ ModeratorsTrack'
<1>0. HistoryOK /\ ItemsOK /\ PagesOK /\ FlowOK /\ ChatOK /\ ClearHold /\ ForceRules /\ LiftedGo
  BY DEF KlapsInv, KlapsTypeOK
<1>1. UNCHANGED <<kl_moders, kl_klaped, kl_wiped>>
  BY DEF channelVars
<1>2. ChatOK'
  BY <1>0, <1>1 DEF ChatOK
<1>3. CASE k.id \notin DOMAIN kl_items
  <2>1. UNCHANGED <<kl_items, kl_by_uid, kl_queue, kl_blurred>>
    BY <1>3 DEF Lifted
  <2>2. /\ FlowOK' /\ UnderWay' = UnderWay
        /\ Commands(kl_queue)' = Commands(kl_queue) /\ Commands(ToChat)' = Commands(ToChat) /\ Commands(kl_events)' = Commands(kl_events)
        /\ \A A, B : (EndsPages(A, B)' <=> EndsPages(A, B)) /\ (EndsChat(A, B)' <=> EndsChat(A, B))
        /\ \A B : (StillPages(B)' <=> StillPages(B)) /\ (StillChat(B)' <=> StillChat(B))
    BY <1>0, <2>1, FlowStays DEF commandVars
  <2>3. InPlay' \subseteq InPlay /\ Removals' \subseteq Removals
    BY <2>2 DEF InPlay, Removals
  <2>4. \A j \in kl_laid : ChatWillKnow(j) => ChatWillKnow(j)'
    BY <1>1, <2>2 DEF ChatWillKnow
  <2>5. HistoryOK' /\ ClearHold' /\ ForceRules' /\ LiftedGo'
    BY <1>0, <1>1, <1>3, <2>1, <2>2, <2>3, <2>4, MissKeeps
  <2>6. ItemsOK'
    BY <1>0, <2>1 DEF ItemsOK
  <2>7. ModeratorsTrack'
    BY <1>1, <2>2, ModeratorsKept DEF KlapsInv
  <2> QED
    BY <1>2, <2>2, <2>5, <2>6, <2>7
<1>4. CASE k.id \in DOMAIN kl_items
  <2>1. PICK h : h = kl_items[k.id]
    OBVIOUS
  <2>2. /\ SetItems(WithoutKlap(kl_items, k.id)) /\ kl_queue' = Append(kl_queue, RemovingKlap(h))
        /\ kl_blurred' = kl_blurred \cup Near(h) \cup (IF h # k \/ h \in BeingLaid THEN {h} ELSE {})
    BY <1>4, <2>1 DEF Lifted, RemovingKlap
  <2>3. h \in kl_laid \cup Empties /\ kl_laid \subseteq Klap
    BY <1>0, <1>4, <2>1 DEF ItemsOK, HistoryOK
  <2>4. RemovingKlap(h) \in KlapCommand /\ RemovingKlap(h).klap = h /\ RemovingKlap(h).cmd = "ban$remove"
    <3>1. RemovingKlap(h) \in KlapCommand
      BY <2>3, CommandKinds
    <3> QED
      BY <3>1 DEF RemovingKlap
  <2>5. /\ FlowOK' /\ UnderWay' = UnderWay \cup {RemovingKlap(h)}
        /\ Commands(kl_queue)' = Commands(kl_queue) \cup {RemovingKlap(h)} /\ Commands(ToChat)' = Commands(ToChat) /\ Commands(kl_events)' = Commands(kl_events)
        /\ \A A, B : /\ RemovingKlap(h) \in A => EndsPages(A, B)' /\ EndsChat(A, B)'
                     /\ RemovingKlap(h) \notin B => (EndsPages(A, B) => EndsPages(A, B)') /\ (EndsChat(A, B) => EndsChat(A, B)')
        /\ \A B : RemovingKlap(h) \notin B => (StillPages(B) => StillPages(B)') /\ (StillChat(B) => StillChat(B)')
    <3>1. kl_laid \subseteq kl_laid' /\ RemovingKlap(h).klap \in kl_laid' \cup Empties \cup {NoKlap}
      BY <2>3, <2>4
    <3>2. UNCHANGED <<kl_batch, kl_step, kl_events>>
      OBVIOUS
    <3> QED
      BY <1>0, <2>2, <2>4, <3>1, <3>2, FlowQueues
  <2>6. InPlay' \subseteq InPlay /\ Removals' \subseteq Removals \cup {RemovingKlap(h)}
    BY <2>4, <2>5 DEF InPlay, Removals
  <2>7. \A j \in kl_laid : ChatWillKnow(j) => ChatWillKnow(j)'
    BY <1>1, <2>5 DEF ChatWillKnow
  <2>8. ASSUME NEW j PROVE AddingKlap(j) # RemovingKlap(h)
    <3>1. AddingKlap(j).cmd = "ban$add"
      BY DEF AddingKlap
    <3> QED
      BY <2>4, <3>1
  <2>9. /\ EndsPages({RemovingKlap(h)}, {AddingKlap(h)})' /\ EndsChat({RemovingKlap(h)}, {AddingKlap(h)})'
        /\ \A j :
             /\ EndsPages({RemovingKlap(j)}, {AddingKlap(j)}) => EndsPages({RemovingKlap(j)}, {AddingKlap(j)})'
             /\ EndsChat({RemovingKlap(j)}, {AddingKlap(j)}) => EndsChat({RemovingKlap(j)}, {AddingKlap(j)})'
             /\ StillPages({AddingKlap(j)}) => StillPages({AddingKlap(j)})'
             /\ StillChat({AddingKlap(j)}) => StillChat({AddingKlap(j)})'
    BY <2>5, <2>8
  <2>10. HistoryOK' /\ ItemsOK' /\ ClearHold' /\ ForceRules' /\ LiftedGo'
    BY <1>0, <1>1, <1>4, <2>1, <2>2, <2>6, <2>7, <2>9, HitKeeps
  <2>11. \A m : RemovingKlap(h) \notin Tell(m)
    BY KlapCommandsTellNothing
  <2>12. ModeratorsTrack'
    BY <1>1, <2>5, <2>11, ModeratorsKept DEF KlapsInv
  <2> QED
    BY <1>2, <2>5, <2>10, <2>12
<1> QED
  BY <1>3, <1>4

LEMMA RemoveKeeps ==
  ASSUME KlapsInv, NEW p \in KlapPage, remove_klap(p)
  PROVE  KlapsInv'
<1>0. HistoryOK /\ PagesOK
  BY DEF KlapsInv, KlapsTypeOK
<1> PICK k : k = kl_page[p].klap
  OBVIOUS
<1>1. /\ kl_page[p].at = "lift" /\ Lifted(k) /\ kl_lifted' = kl_lifted \cup ({k} \cap kl_laid)
      /\ kl_page' = [kl_page EXCEPT ![p] = PageAtRest]
      /\ UNCHANGED <<kl_laid, kl_lapsed, kl_batch, kl_step, kl_events, channelVars>>
  BY DEF remove_klap, PageAt
<1>2. PageAtRest \in KlapWork /\ PageAtRest.at = "idle" /\ PageAtRest.klap = NoKlap
  BY RestIsWork
<1>3. kl_page'[p] = PageAtRest /\ OnePage(p) /\ kl_page' \in [KlapPage -> KlapWork]
  BY <1>0, <1>1, <1>2, PageChanges DEF PagesOK, OnePage
<1>4. PagesOK'
  BY <1>0, <1>1, <1>2, <1>3 DEF PagesOK, KlapPageOK, OnePage
<1>5. BeingLaid' = BeingLaid
  BY <1>1, <1>2, <1>3, LayingChanges DEF KlapsInv, OnePage, LaysAt
<1>6. LaidAlone'
  <2>1. \A x \in KlapPage : kl_page'[x].at \in LaysAt => kl_page'[x] = kl_page[x]
    BY <1>2, <1>3 DEF OnePage, LaysAt
  <2> QED
    BY <2>1 DEF KlapsInv, LaidAlone, LaysAt
<1>7. PagesAside /\ \A q \in KlapPage : kl_page[q].at = "queue add" => kl_page'[q] = kl_page[q]
  BY <1>1, <1>2, <1>3 DEF PagesAside, AsideOf, OnePage
<1>8. HistoryOK' /\ ItemsOK' /\ FlowOK' /\ ChatOK' /\ ClearHold' /\ ForceRules' /\ LiftedGo' /\ ModeratorsTrack'
  <2>1. k \in kl_laid => k \in kl_lifted'
    BY <1>1
  <2> QED
    BY <1>1, <1>5, <1>7, <2>1, LiftKeeps
<1> QED
  BY <1>4, <1>6, <1>8 DEF KlapsInv, KlapsTypeOK

LEMMA ExpireKeeps ==
  ASSUME KlapsInv, NEW u \in Offender, check_ban_by_uid(u)
  PROVE  KlapsInv'
<1> PICK k : k = kl_items[kl_by_uid[u]]
  OBVIOUS
<1>1. /\ u \in DOMAIN kl_by_uid /\ Lifted(k) /\ kl_lifted' = kl_lifted \cup {k}
      /\ UNCHANGED <<kl_page, kl_laid, kl_lapsed, kl_batch, kl_step, kl_events, channelVars>>
  BY DEF check_ban_by_uid
<1>2. k \in kl_laid
  BY <1>1 DEF KlapsInv, KlapsTypeOK, ItemsOK
<1>3. LaidAlone' /\ BeingLaid' = BeingLaid /\ PagesAside
  BY <1>1 DEF KlapsInv, LaidAlone, BeingLaid, PageAt, PagesAside
<1>4. PagesOK'
  BY <1>1 DEF KlapsInv, KlapsTypeOK, PagesOK, KlapPageOK
<1>5. HistoryOK' /\ ItemsOK' /\ FlowOK' /\ ChatOK' /\ ClearHold' /\ ForceRules' /\ LiftedGo' /\ ModeratorsTrack'
  BY <1>1, <1>2, <1>3, LiftKeeps
<1> QED
  BY <1>3, <1>4, <1>5 DEF KlapsInv, KlapsTypeOK
-----------------------------------------------------------------------------
(* The update processor and the chat thread do a command.                  *)

\* The moderators of the pages, after a command is done there.
LEMMA ModeratorsDone ==
  ASSUME ModeratorsTrack, kl_page' = kl_page, kl_wiped' = kl_wiped, NEW c \in KlapCommand,
         kl_moders \in [rows : SUBSET Moder, pages : SUBSET Moder, chat : SUBSET Moder],
         kl_moders' = [kl_moders EXCEPT !.pages = Changed(c, @)],
         \A m \in Moder, b \in BOOLEAN :
           /\ EndsPages(Tells(m, b), Tell(m)) => EndsPages(Tells(m, b), Tell(m))' \/ (c \in Tells(m, b) /\ StillPages(Tell(m))')
           /\ StillPages(Tell(m)) => StillPages(Tell(m))' /\ c \notin Tell(m)
           /\ EndsChat(Tells(m, b), Tell(m)) => EndsChat(Tells(m, b), Tell(m))'
           /\ StillChat(Tell(m)) => StillChat(Tell(m))'
  PROVE  ModeratorsTrack' /\ kl_moders' \in [rows : SUBSET Moder, pages : SUBSET Moder, chat : SUBSET Moder]
<1>1. \A M \in SUBSET Moder : Changed(c, M) \in SUBSET Moder
  BY CommandKinds DEF Changed
<1>2. /\ kl_moders'.rows = kl_moders.rows /\ kl_moders'.chat = kl_moders.chat /\ kl_moders'.pages = Changed(c, kl_moders.pages)
      /\ kl_moders' \in [rows : SUBSET Moder, pages : SUBSET Moder, chat : SUBSET Moder]
  BY <1>1
<1>3. ASSUME NEW m \in Moder, NEW b \in BOOLEAN, c \in Tells(m, b), NEW M \in SUBSET Moder PROVE m \in Changed(c, M) <=> b = TRUE
  BY <1>3 DEF Tells, ModeratorCommand, ChannelCommand, Changed
<1>4. ASSUME NEW m \in Moder, c \notin Tell(m), NEW M \in SUBSET Moder PROVE m \in Changed(c, M) <=> m \in M
  BY <1>4, CommandKinds DEF Tell, Tells, Changed
<1> SUFFICES ASSUME NEW m \in Moder, m \notin kl_wiped PROVE ModeratorTracks(m)'
  BY <1>2 DEF ModeratorsTrack
<1>5. ModeratorTracks(m)
  BY DEF ModeratorsTrack
<1>6. (\A p \in KlapPage : PageKnows(m, p)') /\ (Telling(m) => Telling(m)')
  BY <1>2, <1>5 DEF ModeratorTracks, PageKnows, Telling
<1>7. \A b \in BOOLEAN : PagesAreTold(m, b) /\ ChatIsTold(m, b) => PagesAreTold(m, b)' /\ ChatIsTold(m, b)'
  <2> SUFFICES ASSUME NEW b \in BOOLEAN, PagesAreTold(m, b), ChatIsTold(m, b) PROVE PagesAreTold(m, b)' /\ ChatIsTold(m, b)'
    OBVIOUS
  <2>1. ChatIsTold(m, b)'
    BY <1>2 DEF ChatIsTold
  <2>2. PagesAreTold(m, b)'
    <3>1. CASE EndsPages(Tells(m, b), Tell(m))
      BY <1>2, <1>3, <3>1 DEF PagesAreTold
    <3>2. CASE StillPages(Tell(m)) /\ (m \in kl_moders.pages <=> b = TRUE)
      BY <1>2, <1>4, <3>2 DEF PagesAreTold
    <3> QED
      BY <3>1, <3>2 DEF PagesAreTold
  <2> QED
    BY <2>1, <2>2
<1> QED
  BY <1>2, <1>5, <1>6, <1>7 DEF ModeratorTracks

\* What update_processor does with a command, and the commands after it.
LEMMA DatumDone ==
  ASSUME KlapsInv, update_klap_datum, NEW c, c = Head(kl_batch), NEW d \in KlapCommand, d.klap \in kl_laid \cup Empties \cup {NoKlap},
         kl_queue' = kl_queue \/ kl_queue' = Append(kl_queue, d), \A m : d \notin Tell(m) \/ kl_queue' = kl_queue
  PROVE  /\ FlowOK' /\ PagesOK' /\ ChatOK' /\ LaidAlone' /\ ModeratorsTrack'
         /\ UNCHANGED <<kl_laid, kl_lifted, kl_lapsed, kl_klaped, kl_wiped, kl_page>> /\ BeingLaid' = BeingLaid
         /\ c \in UnderWay /\ c \in KlapCommand /\ UnderWay' \subseteq UnderWay \cup {d}
         /\ \A j \in kl_laid : ChatWillKnow(j) => ChatWillKnow(j)'
         /\ \A A, B : /\ kl_queue' # kl_queue /\ d \in A => EndsPages(A, B)' /\ EndsChat(A, B)'
                      /\ kl_queue' = kl_queue \/ d \notin B =>
                           /\ EndsPages(A, B) => EndsPages(A, B)' \/ (c \in A /\ StillPages(B)')
                           /\ EndsChat(A, B) => EndsChat(A, B)'
         /\ \A B : kl_queue' = kl_queue \/ d \notin B =>
              /\ StillPages(B) => StillPages(B)' /\ c \notin B
              /\ StillChat(B) => StillChat(B)'
<1>0. PagesOK /\ FlowOK /\ ChatOK
  BY DEF KlapsInv, KlapsTypeOK
<1>1. /\ kl_step = "datum" /\ kl_step' = "event" /\ kl_batch' = Tail(kl_batch)
      /\ kl_moders' = [kl_moders EXCEPT !.pages = Changed(c, @)]
      /\ UNCHANGED <<kl_laid, kl_lifted, kl_lapsed, kl_events, kl_klaped, kl_wiped, kl_page>>
  BY DEF update_klap_datum
<1>2. /\ FlowOK' /\ UnderWay' \subseteq UnderWay \cup {d}
      /\ c \in UnderWay /\ c \in KlapCommand
      /\ Commands(kl_queue) \subseteq Commands(kl_queue)' /\ Commands(ToChat)' = Commands(ToChat) /\ Commands(kl_events)' = Commands(kl_events)
      /\ \A A, B : /\ kl_queue' # kl_queue /\ d \in A => EndsPages(A, B)' /\ EndsChat(A, B)'
                   /\ kl_queue' = kl_queue \/ d \notin B =>
                        /\ EndsPages(A, B) => EndsPages(A, B)' \/ (c \in A /\ StillPages(B)')
                        /\ EndsChat(A, B) => EndsChat(A, B)'
      /\ \A B : kl_queue' = kl_queue \/ d \notin B =>
           /\ StillPages(B) => StillPages(B)' /\ c \notin B
           /\ StillChat(B) => StillChat(B)'
  BY <1>0, <1>1, FlowDone
<1>3. PagesOK' /\ LaidAlone' /\ BeingLaid' = BeingLaid
  BY <1>0, <1>1 DEF KlapsInv, PagesOK, KlapPageOK, LaidAlone, BeingLaid, PageAt
<1>4. \A j \in kl_laid : ChatWillKnow(j) => ChatWillKnow(j)'
  BY <1>1, <1>2 DEF ChatWillKnow
<1>5. ModeratorsTrack' /\ kl_moders' \in [rows : SUBSET Moder, pages : SUBSET Moder, chat : SUBSET Moder]
  <2>1. kl_moders \in [rows : SUBSET Moder, pages : SUBSET Moder, chat : SUBSET Moder] /\ ModeratorsTrack
    BY <1>0 DEF ChatOK, KlapsInv
  <2>2. \A m \in Moder, b \in BOOLEAN :
          /\ EndsPages(Tells(m, b), Tell(m)) => EndsPages(Tells(m, b), Tell(m))' \/ (c \in Tells(m, b) /\ StillPages(Tell(m))')
          /\ StillPages(Tell(m)) => StillPages(Tell(m))' /\ c \notin Tell(m)
          /\ EndsChat(Tells(m, b), Tell(m)) => EndsChat(Tells(m, b), Tell(m))'
          /\ StillChat(Tell(m)) => StillChat(Tell(m))'
    BY <1>2
  <2> QED
    BY <1>1, <1>2, <2>1, <2>2, ModeratorsDone
<1>6. ChatOK'
  BY <1>0, <1>1, <1>5 DEF ChatOK
<1> QED
  BY <1>1, <1>2, <1>3, <1>4, <1>5, <1>6

LEMMA DatumKeeps == KlapsInv /\ update_klap_datum => KlapsInv'
<1> SUFFICES ASSUME KlapsInv, update_klap_datum PROVE KlapsInv'
  OBVIOUS
<1>0. HistoryOK /\ ItemsOK /\ PagesOK /\ FlowOK /\ ChatOK /\ ClearHold /\ ForceRules /\ LiftedGo
  BY DEF KlapsInv, KlapsTypeOK
<1> PICK c : c = Head(kl_batch)
  OBVIOUS
<1> PICK k : k = c.klap
  OBVIOUS
<1>1. Again(c) /\ kl_step = "datum"
  BY DEF update_klap_datum
<1>2. c \in KlapCommand /\ c \in UnderWay
  <2>1. kl_batch # <<>> /\ kl_batch \in Seq(KlapCommand)
    BY <1>0, <1>1 DEF FlowOK
  <2> QED
    BY <2>1, TailLast DEF UnderWay
<1>3. k \in kl_laid \cup Empties \cup {NoKlap}
  BY <1>0, <1>2 DEF FlowOK
<1>4. \A j : AddingKlap(j).cmd = "ban$add" /\ AddingKlap(j).klap = j /\ RemovingKlap(j).cmd = "ban$remove" /\ RemovingKlap(j).klap = j
  BY DEF AddingKlap, RemovingKlap
<1>5. ASSUME NEW j PROVE {RemovingKlap(j)} \cap {AddingKlap(j)} = {} /\ \A i : RemovingKlap(i) # AddingKlap(j)
  BY <1>4
<1>6. CASE c.cmd = "ban$add"
  <2>1. k \in Klap /\ c = AddingKlap(k)
    BY <1>2, <1>6, CommandKinds
  <2>2. k \in kl_laid /\ k \in InPlay
    <3>1. k \in kl_laid
      BY <1>3, <2>1, RealKlaps
    <3>2. k \in InPlay
      BY <1>2, <1>6 DEF InPlay
    <3> QED
      BY <3>1, <3>2
  <2>3. kl_queue' = kl_queue /\ kl_blurred' = kl_blurred /\ add__klap(k)
    BY <1>1, <1>6 DEF Again
  <2>4. /\ FlowOK' /\ PagesOK' /\ ChatOK' /\ LaidAlone' /\ ModeratorsTrack'
        /\ UNCHANGED <<kl_laid, kl_lifted, kl_lapsed, kl_klaped, kl_wiped, kl_page>> /\ BeingLaid' = BeingLaid
        /\ UnderWay' \subseteq UnderWay \cup {c}
        /\ \A j \in kl_laid : ChatWillKnow(j) => ChatWillKnow(j)'
        /\ \A A, B : /\ EndsPages(A, B) => EndsPages(A, B)' \/ (c \in A /\ StillPages(B)')
                     /\ EndsChat(A, B) => EndsChat(A, B)'
        /\ \A B : /\ StillPages(B) => StillPages(B)' /\ c \notin B
                  /\ StillChat(B) => StillChat(B)'
    BY <1>2, <1>3, <2>3, DatumDone
  <2>5. InPlay' \subseteq InPlay /\ Removals' \subseteq Removals
    BY <1>2, <2>4 DEF InPlay, Removals
  <2>6. /\ ItemsOK' /\ ClearHold' /\ ForceRules'
        /\ \A j : j # k /\ (j.id \notin DOMAIN kl_items \/ kl_items[j.id] # j) => (j.id \notin DOMAIN kl_items' \/ kl_items'[j.id] # j)
    <3>1. CASE k \in kl_lapsed
      <4>1. UNCHANGED <<kl_items, kl_by_uid>>
        BY <2>3, <3>1 DEF add__klap
      <4>2. ItemsOK'
        BY <1>0, <2>4, <4>1 DEF ItemsOK
      <4>3. Clear' \subseteq Clear
        BY <2>3, <2>4 DEF Clear
      <4>4. ASSUME NEW j \in Clear, Holds(j) PROVE Holds(j)'
        BY <2>4, <2>5, <4>1, <4>4 DEF Holds
      <4>5. ASSUME NEW j \in Clear, Rules(j) PROVE Rules(j)'
        BY <2>4, <2>5, <4>1, <4>5 DEF Rules
      <4>6. ClearHold' /\ ForceRules'
        BY <1>0, <2>4, <4>3, <4>4, <4>5 DEF ClearHold, ForceRules
      <4> QED
        BY <4>1, <4>2, <4>6
    <3>2. CASE k \notin kl_lapsed
      <4>1. SetItems(WithKlap(kl_items, k.id, k))
        BY <2>3, <3>2 DEF add__klap
      <4>2. BeingLaid \subseteq Klap
        BY <1>0, KnownKlaps
      <4> QED
        BY <1>0, <2>1, <2>2, <2>3, <2>4, <2>5, <3>2, <4>1, <4>2, SetKeeps
    <3> QED
      BY <3>1, <3>2
  <2>7. LiftedGo'
    <3> SUFFICES ASSUME NEW j \in kl_lifted, j \notin kl_blurred PROVE GoesFor(j)'
      BY <2>3, <2>4 DEF LiftedGo
    <3>1. GoesFor(j)
      BY <1>0 DEF LiftedGo
    <3>2. c \notin {RemovingKlap(j)}
      BY <1>4, <1>6
    <3>3. j = k => c \in {AddingKlap(j)}
      BY <2>1
    <3>4. j = k => EndsPages({RemovingKlap(j)}, {AddingKlap(j)})'
      BY <2>4, <3>1, <3>2, <3>3 DEF GoesFor
    <3> QED
      BY <2>4, <2>6, <3>1, <3>2, <3>4 DEF GoesFor
  <2>8. HistoryOK'
    BY <1>0, <2>4 DEF HistoryOK
  <2> QED
    BY <2>4, <2>6, <2>7, <2>8 DEF KlapsInv, KlapsTypeOK
<1>7. CASE c.cmd = "ban$remove"
  <2>1. c = RemovingKlap(k) /\ c \in Removals /\ Lifted(k)
    <3>1. c = RemovingKlap(k)
      BY <1>2, <1>7, CommandKinds
    <3>2. Lifted(k)
      BY <1>1, <1>7 DEF Again
    <3> QED
      BY <1>2, <1>7, <3>1, <3>2 DEF Removals
  <2>2. CASE k.id \notin DOMAIN kl_items
    <3>1. UNCHANGED <<kl_items, kl_by_uid, kl_queue, kl_blurred>>
      BY <2>1, <2>2 DEF Lifted
    <3>2. /\ FlowOK' /\ PagesOK' /\ ChatOK' /\ LaidAlone' /\ ModeratorsTrack'
          /\ UNCHANGED <<kl_laid, kl_lifted, kl_lapsed, kl_klaped, kl_wiped, kl_page>> /\ BeingLaid' = BeingLaid
          /\ UnderWay' \subseteq UnderWay \cup {c}
          /\ \A j \in kl_laid : ChatWillKnow(j) => ChatWillKnow(j)'
          /\ \A A, B : /\ EndsPages(A, B) => EndsPages(A, B)' \/ (c \in A /\ StillPages(B)')
                       /\ EndsChat(A, B) => EndsChat(A, B)'
          /\ \A B : /\ StillPages(B) => StillPages(B)' /\ c \notin B
                    /\ StillChat(B) => StillChat(B)'
      BY <1>2, <1>3, <3>1, DatumDone
    <3>3. InPlay' \subseteq InPlay /\ Removals' \subseteq Removals
      BY <1>2, <3>2 DEF InPlay, Removals
    <3>4. ASSUME NEW j
          PROVE  /\ EndsPages({RemovingKlap(j)}, {AddingKlap(j)}) => EndsPages({RemovingKlap(j)}, {AddingKlap(j)})' \/ (j = k /\ StillPages({AddingKlap(j)})')
                 /\ EndsChat({RemovingKlap(j)}, {AddingKlap(j)}) => EndsChat({RemovingKlap(j)}, {AddingKlap(j)})'
                 /\ StillPages({AddingKlap(j)}) => StillPages({AddingKlap(j)})'
                 /\ StillChat({AddingKlap(j)}) => StillChat({AddingKlap(j)})'
      <4>1. c \in {RemovingKlap(j)} => j = k
        BY <1>4, <2>1
      <4> QED
        BY <3>2, <4>1
    <3>5. HistoryOK' /\ ClearHold' /\ ForceRules' /\ LiftedGo'
      BY <1>0, <2>2, <3>1, <3>2, <3>3, <3>4, MissKeeps
    <3>6. ItemsOK'
      BY <1>0, <3>1, <3>2 DEF ItemsOK
    <3> QED
      BY <3>2, <3>5, <3>6 DEF KlapsInv, KlapsTypeOK
  <2>3. CASE k.id \in DOMAIN kl_items
    <3>1. PICK h : h = kl_items[k.id]
      OBVIOUS
    <3>2. /\ SetItems(WithoutKlap(kl_items, k.id)) /\ kl_queue' = Append(kl_queue, RemovingKlap(h))
          /\ kl_blurred' = kl_blurred \cup Near(h) \cup (IF h # k \/ h \in BeingLaid THEN {h} ELSE {})
      BY <2>1, <2>3, <3>1 DEF Lifted, RemovingKlap
    <3>3. h \in kl_laid \cup Empties /\ kl_laid \subseteq Klap
      BY <1>0, <2>3, <3>1 DEF ItemsOK, HistoryOK
    <3>4. RemovingKlap(h) \in KlapCommand /\ RemovingKlap(h).klap = h
      BY <1>4, <3>3, CommandKinds
    <3>5. \A m : RemovingKlap(h) \notin Tell(m)
      BY KlapCommandsTellNothing
    <3>6. kl_queue' # kl_queue
      <4>1. kl_queue \in Seq(KlapCommand)
        BY <1>0 DEF FlowOK
      <4> QED
        BY <3>2, <3>4, <4>1
    <3>7. /\ FlowOK' /\ PagesOK' /\ ChatOK' /\ LaidAlone' /\ ModeratorsTrack'
          /\ UNCHANGED <<kl_laid, kl_lifted, kl_lapsed, kl_klaped, kl_wiped, kl_page>> /\ BeingLaid' = BeingLaid
          /\ UnderWay' \subseteq UnderWay \cup {RemovingKlap(h)}
          /\ \A j \in kl_laid : ChatWillKnow(j) => ChatWillKnow(j)'
          /\ \A A, B : /\ RemovingKlap(h) \in A => EndsPages(A, B)' /\ EndsChat(A, B)'
                       /\ RemovingKlap(h) \notin B =>
                            /\ EndsPages(A, B) => EndsPages(A, B)' \/ (c \in A /\ StillPages(B)')
                            /\ EndsChat(A, B) => EndsChat(A, B)'
          /\ \A B : RemovingKlap(h) \notin B =>
               /\ StillPages(B) => StillPages(B)' /\ c \notin B
               /\ StillChat(B) => StillChat(B)'
      BY <3>2, <3>3, <3>4, <3>5, <3>6, DatumDone
    <3>8. InPlay' \subseteq InPlay /\ Removals' \subseteq Removals \cup {RemovingKlap(h)}
      BY <1>4, <3>7 DEF InPlay, Removals
    <3>9. EndsPages({RemovingKlap(h)}, {AddingKlap(h)})' /\ EndsChat({RemovingKlap(h)}, {AddingKlap(h)})'
      BY <3>7
    <3>10. ASSUME NEW j
           PROVE  /\ EndsPages({RemovingKlap(j)}, {AddingKlap(j)}) => EndsPages({RemovingKlap(j)}, {AddingKlap(j)})' \/ (j = k /\ StillPages({AddingKlap(j)})')
                  /\ EndsChat({RemovingKlap(j)}, {AddingKlap(j)}) => EndsChat({RemovingKlap(j)}, {AddingKlap(j)})'
                  /\ StillPages({AddingKlap(j)}) => StillPages({AddingKlap(j)})'
                  /\ StillChat({AddingKlap(j)}) => StillChat({AddingKlap(j)})'
      <4>1. c \in {RemovingKlap(j)} => j = k
        BY <1>4, <2>1
      <4>2. RemovingKlap(h) \notin {AddingKlap(j)}
        BY <1>5
      <4> QED
        BY <3>7, <4>1, <4>2
    <3>11. k \in kl_laid => k \in kl_lifted' \/ RemovingKlap(k) \in Removals
      BY <2>1
    <3>12. HistoryOK' /\ ItemsOK' /\ ClearHold' /\ ForceRules' /\ LiftedGo'
      BY <1>0, <2>3, <3>1, <3>2, <3>7, <3>8, <3>9, <3>10, <3>11, HitKeeps
    <3> QED
      BY <3>7, <3>12 DEF KlapsInv, KlapsTypeOK
  <2> QED
    BY <2>2, <2>3
<1>8. CASE c.cmd \notin {"ban$add", "ban$remove"}
  <2>1. UNCHANGED <<kl_items, kl_by_uid, kl_queue, kl_blurred>>
    BY <1>1, <1>8 DEF Again
  <2>2. /\ FlowOK' /\ PagesOK' /\ ChatOK' /\ LaidAlone' /\ ModeratorsTrack'
        /\ UNCHANGED <<kl_laid, kl_lifted, kl_lapsed, kl_klaped, kl_wiped, kl_page>> /\ BeingLaid' = BeingLaid
        /\ UnderWay' \subseteq UnderWay \cup {c}
        /\ \A j \in kl_laid : ChatWillKnow(j) => ChatWillKnow(j)'
        /\ \A A, B : /\ EndsPages(A, B) => EndsPages(A, B)' \/ (c \in A /\ StillPages(B)')
                     /\ EndsChat(A, B) => EndsChat(A, B)'
        /\ \A B : /\ StillPages(B) => StillPages(B)' /\ c \notin B
                  /\ StillChat(B) => StillChat(B)'
    BY <1>2, <1>3, <2>1, DatumDone
  <2>3. InPlay' \subseteq InPlay /\ Removals' \subseteq Removals
    BY <1>2, <2>2 DEF InPlay, Removals
  <2>4. \A j \in kl_lifted : GoesFor(j) => GoesFor(j)'
    <3> SUFFICES ASSUME NEW j \in kl_lifted, GoesFor(j) PROVE GoesFor(j)'
      OBVIOUS
    <3>1. c \notin {RemovingKlap(j)}
      BY <1>4, <1>8
    <3>2. j \notin BeingLaid'
      BY <2>2 DEF GoesFor
    <3> QED
      BY <2>1, <2>2, <3>1, <3>2, GoesOn
  <2>5. HistoryOK' /\ ItemsOK'
    BY <1>0, <2>1, <2>2 DEF HistoryOK, ItemsOK
  <2>6. ClearHold' /\ ForceRules' /\ LiftedGo'
    BY <1>0, <2>1, <2>2, <2>3, <2>4, KlapsKept
  <2> QED
    BY <2>2, <2>5, <2>6 DEF KlapsInv, KlapsTypeOK
<1> QED
  BY <1>6, <1>7, <1>8

LEMMA HearKeeps == KlapsInv /\ on_ban_and_channel => KlapsInv'
<1> SUFFICES ASSUME KlapsInv, on_ban_and_channel PROVE KlapsInv'
  OBVIOUS
<1>0. HistoryOK /\ ItemsOK /\ PagesOK /\ FlowOK /\ ChatOK /\ ClearHold /\ ForceRules /\ LiftedGo /\ ModeratorsTrack
  BY DEF KlapsInv, KlapsTypeOK
<1> PICK c : c = Head(kl_events)
  OBVIOUS
<1>1. /\ kl_events # <<>> /\ kl_events' = Tail(kl_events)
      /\ kl_klaped' = KlapedAfter(c) /\ kl_moders' = [kl_moders EXCEPT !.chat = Changed(c, @)]
      /\ kl_wiped' = IF c.cmd = "channel$update" THEN kl_wiped \cup kl_laid ELSE kl_wiped
      /\ UNCHANGED <<klapVars, kl_queue, kl_batch, kl_step, kl_page>>
  BY DEF on_ban_and_channel
<1>2. UNCHANGED <<kl_items, kl_by_uid, kl_laid, kl_lifted, kl_lapsed, kl_blurred>>
  BY <1>1 DEF klapVars
<1>3. /\ FlowOK' /\ UnderWay' \subseteq UnderWay
      /\ c \in UnderWay /\ c \in KlapCommand
      /\ Commands(kl_queue)' = Commands(kl_queue) /\ Commands(ToChat)' = Commands(ToChat)
      /\ Commands(kl_events) = Commands(kl_events)' \cup {c}
      /\ \A A, B : /\ EndsPages(A, B)' <=> EndsPages(A, B)
                   /\ EndsChat(A, B) => EndsChat(A, B)' \/ (c \in A /\ StillChat(B)')
      /\ \A B : /\ StillPages(B)' <=> StillPages(B)
                /\ StillChat(B) => StillChat(B)' /\ c \notin B
  BY <1>0, <1>1, <1>2, FlowHeard
<1>4. HistoryOK' /\ ItemsOK' /\ PagesOK' /\ LaidAlone' /\ BeingLaid' = BeingLaid
  <2>1. HistoryOK' /\ ItemsOK'
    BY <1>0, <1>2 DEF HistoryOK, ItemsOK
  <2>2. kl_page' = kl_page /\ kl_laid' = kl_laid
    BY <1>1, <1>2
  <2>3. PagesOK' /\ LaidAlone' /\ BeingLaid' = BeingLaid
    BY <1>0, <2>2 DEF PagesOK, KlapPageOK, KlapsInv, LaidAlone, BeingLaid, PageAt
  <2> QED
    BY <2>1, <2>3
<1>5. kl_moders \in [rows : SUBSET Moder, pages : SUBSET Moder, chat : SUBSET Moder]
  BY <1>0 DEF ChatOK
<1>6. \A M \in SUBSET Moder : Changed(c, M) \in SUBSET Moder
  BY <1>3, CommandKinds DEF Changed
<1>7. /\ kl_moders'.rows = kl_moders.rows /\ kl_moders'.pages = kl_moders.pages /\ kl_moders'.chat = Changed(c, kl_moders.chat)
      /\ kl_moders' \in [rows : SUBSET Moder, pages : SUBSET Moder, chat : SUBSET Moder]
  BY <1>1, <1>5, <1>6
<1>8. \A j : AddingKlap(j).cmd = "ban$add" /\ AddingKlap(j).klap = j /\ RemovingKlap(j).cmd = "ban$remove" /\ RemovingKlap(j).klap = j
  BY DEF AddingKlap, RemovingKlap
<1>9. /\ c.cmd = "ban$add" => c = AddingKlap(c.klap) /\ c.klap \in InPlay /\ c.klap \in Klap /\ kl_klaped' = WithKlap(kl_klaped, c.klap.uid, c.klap)
      /\ c.cmd = "ban$remove" => c = RemovingKlap(c.klap) /\ c \in Removals /\ c.klap \in Klap \cup Empties /\ kl_klaped' = WithoutKlap(kl_klaped, c.klap.uid)
      /\ c.cmd \notin {"ban$add", "ban$remove"} => kl_klaped' = kl_klaped \/ (kl_klaped' = <<>> /\ c.cmd = "channel$update")
  BY <1>1, <1>3, CommandKinds DEF InPlay, Removals, KlapedAfter
<1>10. ChatOK'
  <2>1. CASE c.cmd = "ban$add"
    BY <1>0, <1>7, <1>9, <2>1 DEF ChatOK, WithKlap
  <2>2. CASE c.cmd = "ban$remove"
    BY <1>0, <1>7, <1>9, <2>2 DEF ChatOK, WithoutKlap
  <2>3. CASE c.cmd \notin {"ban$add", "ban$remove"}
    <3>1. CASE kl_klaped' = kl_klaped
      BY <1>0, <1>7, <3>1 DEF ChatOK
    <3>2. CASE kl_klaped' = <<>>
      <4>1. DOMAIN kl_klaped' = {} /\ kl_klaped' = [u \in {} |-> u]
        BY <3>2
      <4>2. kl_klaped' = [u \in DOMAIN kl_klaped' |-> kl_klaped'[u]]
        BY <4>1
      <4> QED
        BY <1>7, <4>1, <4>2 DEF ChatOK
    <3> QED
      BY <1>9, <2>3, <3>1, <3>2
  <2> QED
    BY <2>1, <2>2, <2>3
<1>11. ASSUME NEW j \in Clear \cap kl_laid, j \notin kl_lapsed, j \notin kl_wiped', ChatWillKnow(j) PROVE ChatWillKnow(j)'
  <2>1. Rules(j) /\ Holds(j) /\ j \in Klap
    BY <1>0, <1>11 DEF ClearHold, ForceRules, HistoryOK
  <2>2. CASE \E p \in KlapPage : kl_page[p].at = "queue add" /\ kl_page[p].klap = j
    BY <1>1, <2>2 DEF ChatWillKnow
  <2>3. CASE c = AddingKlap(j)
    <3>1. kl_klaped' = WithKlap(kl_klaped, j.uid, j)
      BY <1>8, <1>9, <2>3
    <3>2. j.uid \in DOMAIN kl_klaped' /\ kl_klaped'[j.uid] = j
      BY <3>1 DEF WithKlap
    <3> QED
      BY <3>2 DEF ChatWillKnow
  <2>4. CASE c # AddingKlap(j) /\ AddingKlap(j) \in Commands(kl_queue) \cup Commands(ToChat) \cup Commands(kl_events)
    BY <1>3, <2>4 DEF ChatWillKnow
  <2>5. CASE c # AddingKlap(j) /\ j.uid \in DOMAIN kl_klaped /\ kl_klaped[j.uid] = j
    <3>1. c.cmd = "ban$add" => c.klap.uid # j.uid
      <4>1. c.cmd = "ban$add" => c.klap # j
        BY <1>9, <2>5
      <4> QED
        BY <1>9, <2>1, <4>1 DEF Rules
    <3>2. c.cmd = "ban$remove" => c.klap.uid # j.uid
      <4>1. c.cmd = "ban$remove" => c.klap # j
        BY <1>9, <2>1 DEF Holds
      <4>2. c.klap \in Klap /\ c.cmd = "ban$remove" => c.klap.uid # j.uid
        BY <1>9, <2>1, <4>1, RealKlaps DEF Rules
      <4>3. c.klap \in Empties => c.klap.uid = "nobody"
        BY RealKlaps, EmptyFields
      <4>4. j.uid # "nobody"
        BY <2>1, RealKlaps, KlapsAssumption
      <4> QED
        BY <1>9, <4>2, <4>3, <4>4
    <3>3. c.cmd # "channel$update"
      BY <1>1, <1>11
    <3>4. j.uid \in DOMAIN kl_klaped' /\ kl_klaped'[j.uid] = j
      <4>1. CASE c.cmd = "ban$add"
        BY <1>9, <2>5, <3>1, <4>1 DEF WithKlap
      <4>2. CASE c.cmd = "ban$remove"
        BY <1>9, <2>5, <3>2, <4>2 DEF WithoutKlap
      <4>3. CASE c.cmd \notin {"ban$add", "ban$remove"}
        BY <1>9, <2>5, <3>3, <4>3
      <4> QED
        BY <4>1, <4>2, <4>3
    <3> QED
      BY <3>4 DEF ChatWillKnow
  <2> QED
    BY <1>11, <2>2, <2>3, <2>4, <2>5 DEF ChatWillKnow
<1>12. ASSUME NEW j \in kl_lifted, GoesFor(j) PROVE GoesFor(j)'
  <2>1. c = AddingKlap(j) => EndsChat({RemovingKlap(j)}, {AddingKlap(j)})'
    <3> SUFFICES ASSUME c = AddingKlap(j) PROVE EndsChat({RemovingKlap(j)}, {AddingKlap(j)})'
      OBVIOUS
    <3>1. c \in {AddingKlap(j)} /\ c \notin {RemovingKlap(j)}
      BY <1>8
    <3>2. ~ StillChat({AddingKlap(j)})
      BY <1>3, <3>1
    <3> QED
      BY <1>3, <1>12, <3>1, <3>2 DEF GoesFor
  <2>2. c = RemovingKlap(j) => j.uid \notin DOMAIN kl_klaped'
    BY <1>8, <1>9 DEF WithoutKlap
  <2>3. c # AddingKlap(j) /\ (j.uid \notin DOMAIN kl_klaped \/ kl_klaped[j.uid] # j) => j.uid \notin DOMAIN kl_klaped' \/ kl_klaped'[j.uid] # j
    <3> SUFFICES ASSUME c # AddingKlap(j), j.uid \notin DOMAIN kl_klaped \/ kl_klaped[j.uid] # j
                 PROVE  j.uid \notin DOMAIN kl_klaped' \/ kl_klaped'[j.uid] # j
      OBVIOUS
    <3>1. CASE c.cmd = "ban$add"
      <4>1. c.klap # j
        BY <1>9, <3>1
      <4> QED
        BY <1>9, <3>1, <4>1 DEF WithKlap
    <3>2. CASE c.cmd = "ban$remove"
      BY <1>9, <3>2 DEF WithoutKlap
    <3>3. CASE c.cmd \notin {"ban$add", "ban$remove"}
      BY <1>9, <3>3
    <3> QED
      BY <3>1, <3>2, <3>3
  <2>4. StillChat({AddingKlap(j)}) => StillChat({AddingKlap(j)})'
    BY <1>3
  <2>5. EndsChat({RemovingKlap(j)}, {AddingKlap(j)}) => EndsChat({RemovingKlap(j)}, {AddingKlap(j)})' \/ (c = RemovingKlap(j) /\ StillChat({AddingKlap(j)})')
    BY <1>3
  <2>6. j \notin BeingLaid'
    BY <1>4, <1>12 DEF GoesFor
  <2>7. j.uid \notin DOMAIN kl_klaped' \/ kl_klaped'[j.uid] # j \/ EndsChat({RemovingKlap(j)}, {AddingKlap(j)})'
    BY <1>12, <2>1, <2>2, <2>3, <2>5 DEF GoesFor
  <2>8. StillChat({AddingKlap(j)})' \/ EndsChat({RemovingKlap(j)}, {AddingKlap(j)})'
    BY <1>12, <2>4, <2>5 DEF GoesFor
  <2>9. /\ j.id \notin DOMAIN kl_items' \/ kl_items'[j.id] # j \/ EndsPages({RemovingKlap(j)}, {AddingKlap(j)})'
        /\ StillPages({AddingKlap(j)})' \/ EndsPages({RemovingKlap(j)}, {AddingKlap(j)})'
    BY <1>2, <1>3, <1>12 DEF GoesFor
  <2> QED
    BY <2>6, <2>7, <2>8, <2>9 DEF GoesFor
<1>13. ClearHold' /\ ForceRules' /\ LiftedGo'
  <2>1. InPlay' \subseteq InPlay /\ Removals' \subseteq Removals
    BY <1>3, <1>4 DEF InPlay, Removals
  <2>2. kl_wiped \subseteq kl_wiped'
    BY <1>1
  <2>3. \A j \in (Clear \cap kl_laid) \ (kl_wiped' \cup kl_lapsed') : ChatWillKnow(j) => ChatWillKnow(j)'
    BY <1>2, <1>11
  <2> QED
    BY <1>0, <1>2, <1>4, <1>12, <2>1, <2>2, <2>3, KlapsKept
<1>14. ASSUME NEW m \in Moder, NEW b \in BOOLEAN, c \in Tells(m, b), NEW M \in SUBSET Moder PROVE m \in Changed(c, M) <=> b = TRUE
  BY <1>14 DEF Tells, ModeratorCommand, ChannelCommand, Changed
<1>15. ASSUME NEW m \in Moder, c \notin Tell(m), NEW M \in SUBSET Moder PROVE m \in Changed(c, M) <=> m \in M
  BY <1>3, <1>15, CommandKinds DEF Tell, Tells, Changed
<1>16. ModeratorsTrack'
  <2> SUFFICES ASSUME NEW m \in Moder, m \notin kl_wiped' PROVE ModeratorTracks(m)'
    BY DEF ModeratorsTrack
  <2>1. ModeratorTracks(m)
    BY <1>0, <1>1 DEF ModeratorsTrack
  <2>2. (\A p \in KlapPage : PageKnows(m, p)') /\ (Telling(m) => Telling(m)')
    BY <1>1, <1>7, <2>1 DEF ModeratorTracks, PageKnows, Telling
  <2>3. \A b \in BOOLEAN : PagesAreTold(m, b) /\ ChatIsTold(m, b) => PagesAreTold(m, b)' /\ ChatIsTold(m, b)'
    <3> SUFFICES ASSUME NEW b \in BOOLEAN, PagesAreTold(m, b), ChatIsTold(m, b) PROVE PagesAreTold(m, b)' /\ ChatIsTold(m, b)'
      OBVIOUS
    <3>1. PagesAreTold(m, b)'
      BY <1>3, <1>7 DEF PagesAreTold
    <3>2. ChatIsTold(m, b)'
      <4>1. CASE EndsChat(Tells(m, b), Tell(m))
        <5>1. EndsChat(Tells(m, b), Tell(m))' \/ (c \in Tells(m, b) /\ StillChat(Tell(m))')
          BY <1>3, <4>1
        <5>2. c \in Tells(m, b) => (m \in kl_moders'.chat <=> b = TRUE)
          <6>1. kl_moders.chat \in SUBSET Moder
            BY <1>5
          <6> QED
            BY <1>7, <1>14, <6>1
        <5> QED
          BY <5>1, <5>2 DEF ChatIsTold
      <4>2. CASE StillChat(Tell(m)) /\ (m \in kl_moders.chat <=> b = TRUE)
        BY <1>3, <1>5, <1>7, <1>15, <4>2 DEF ChatIsTold
      <4> QED
        BY <4>1, <4>2 DEF ChatIsTold
    <3> QED
      BY <3>1, <3>2
  <2> QED
    BY <1>7, <2>1, <2>2, <2>3 DEF ModeratorTracks
<1> QED
  BY <1>3, <1>4, <1>10, <1>13, <1>16 DEF KlapsInv, KlapsTypeOK
-----------------------------------------------------------------------------
(* All of it.                                                              *)

LEMMA KlapsStart == KlapsInit => KlapsInv
<1> SUFFICES ASSUME KlapsInit PROVE KlapsInv
  OBVIOUS
<1>1. /\ kl_items = <<>> /\ kl_by_uid = <<>> /\ kl_klaped = <<>>
      /\ kl_moders = [rows |-> Moderator, pages |-> Moderator, chat |-> Moderator]
      /\ kl_page = [p \in KlapPage |-> PageAtRest]
      /\ kl_queue = <<>> /\ kl_batch = <<>> /\ kl_step = "event" /\ kl_events = <<>>
      /\ kl_laid = {} /\ kl_lifted = {} /\ kl_lapsed = {} /\ kl_blurred = {} /\ kl_wiped = {}
  BY DEF KlapsInit
<1>2. DOMAIN kl_items = {} /\ DOMAIN kl_by_uid = {} /\ DOMAIN kl_klaped = {}
  BY <1>1
<1>3. PageAtRest \in KlapWork /\ PageAtRest.at = "idle" /\ PageAtRest.klap = NoKlap
  BY RestIsWork
<1>4. \A p \in KlapPage : kl_page[p] = PageAtRest
  BY <1>1
<1>5. BeingLaid = {}
  BY <1>3, <1>4 DEF BeingLaid, PageAt
<1>6. UnderWay = {}
  BY <1>1, EmptyLast DEF UnderWay
<1>7. HistoryOK /\ ItemsOK /\ ChatOK
  <2>1. kl_items = [i \in DOMAIN kl_items |-> kl_items[i]]
    BY <1>1
  <2>2. kl_by_uid = [u \in DOMAIN kl_by_uid |-> kl_by_uid[u]]
    BY <1>1
  <2>3. kl_klaped = [u \in DOMAIN kl_klaped |-> kl_klaped[u]]
    BY <1>1
  <2>4. kl_moders \in [rows : SUBSET Moder, pages : SUBSET Moder, chat : SUBSET Moder]
    BY <1>1, KlapsAssumption
  <2> QED
    BY <1>1, <1>2, <2>1, <2>2, <2>3, <2>4 DEF HistoryOK, ItemsOK, ChatOK
<1>8. PagesOK /\ LaidAlone
  BY <1>1, <1>3, <1>4 DEF PagesOK, KlapPageOK, LaidAlone
<1>9. FlowOK
  BY <1>1, <1>6 DEF FlowOK
<1>10. ClearHold /\ ForceRules /\ LiftedGo
  BY <1>1, <1>5 DEF ClearHold, ForceRules, LiftedGo, Clear
<1>11. ModeratorsTrack
  <2> SUFFICES ASSUME NEW m \in Moder PROVE ModeratorTracks(m)
    BY DEF ModeratorsTrack
  <2>1. \A p \in KlapPage : PageKnows(m, p)
    BY <1>3, <1>4 DEF PageKnows
  <2>2. ToChat = <<>>
    BY <1>1 DEF ToChat
  <2>3. StillPages(Tell(m)) /\ StillChat(Tell(m))
    BY <1>1, <2>2, EmptyLast DEF StillPages, StillChat, Still2, Still3
  <2>4. \E b \in BOOLEAN : b = TRUE <=> m \in Moderator
    <3>1. CASE m \in Moderator
      BY <3>1
    <3>2. CASE m \notin Moderator
      BY <3>2
    <3> QED
      BY <3>1, <3>2
  <2> QED
    BY <1>1, <2>1, <2>3, <2>4 DEF ModeratorTracks, PagesAreTold, ChatIsTold
<1> QED
  BY <1>7, <1>8, <1>9, <1>10, <1>11 DEF KlapsInv, KlapsTypeOK

LEMMA KlapsStand == KlapsInv /\ UNCHANGED allKlapVars => KlapsInv'
<1> SUFFICES ASSUME KlapsInv, UNCHANGED allKlapVars PROVE KlapsInv'
  OBVIOUS
<1>1. /\ UNCHANGED <<kl_items, kl_by_uid, kl_laid, kl_lifted, kl_lapsed, kl_blurred>>
      /\ UNCHANGED <<kl_moders, kl_klaped, kl_wiped, kl_page>> /\ UNCHANGED commandVars
  BY DEF allKlapVars, klapVars, channelVars
<1>2. UNCHANGED <<kl_queue, kl_batch, kl_step, kl_events>>
  BY <1>1 DEF commandVars
<1>3. /\ FlowOK' /\ UnderWay' = UnderWay
      /\ Commands(kl_queue)' = Commands(kl_queue) /\ Commands(ToChat)' = Commands(ToChat) /\ Commands(kl_events)' = Commands(kl_events)
      /\ \A A, B : (EndsPages(A, B)' <=> EndsPages(A, B)) /\ (EndsChat(A, B)' <=> EndsChat(A, B))
      /\ \A B : (StillPages(B)' <=> StillPages(B)) /\ (StillChat(B)' <=> StillChat(B))
  BY <1>1, FlowStays DEF KlapsInv, KlapsTypeOK
<1>4. KlapsTypeOK'
  BY <1>1, <1>3 DEF KlapsInv, KlapsTypeOK, HistoryOK, ItemsOK, PagesOK, KlapPageOK, ChatOK
<1>5. LaidAlone' /\ BeingLaid' = BeingLaid /\ PagesAside
  BY <1>1 DEF KlapsInv, LaidAlone, BeingLaid, PageAt, PagesAside
<1>6. ModeratorsTrack'
  BY <1>1, <1>3, <1>5, ModeratorsKept DEF KlapsInv
<1>7. \A k \in kl_laid : ChatWillKnow(k) => ChatWillKnow(k)'
  BY <1>1, <1>3 DEF ChatWillKnow
<1>8. \A k \in kl_lifted : GoesFor(k) => GoesFor(k)'
  <2> SUFFICES ASSUME NEW k \in kl_lifted, GoesFor(k) PROVE GoesFor(k)'
    OBVIOUS
  <2>1. k \notin BeingLaid'
    BY <1>5 DEF GoesFor
  <2> QED
    BY <1>1, <1>3, <2>1, GoesOn
<1>9. ClearHold' /\ ForceRules' /\ LiftedGo'
  BY <1>1, <1>3, <1>5, <1>7, <1>8, KlapsKept, InPlayChanges DEF KlapsInv
<1> QED
  BY <1>4, <1>5, <1>6, <1>9 DEF KlapsInv

\* Klaps whose id and user met no other's are held by their ids, rule in
\* _klap_stuff and are, or will be, in the chat thread; lifted ones go; and the
\* last that is said of a moderator is what the table has.
THEOREM KlapsInvariant == KlapsSpec => []KlapsInv
<1>1. KlapsInit => KlapsInv
  BY KlapsStart
<1>2. KlapsInv /\ [KlapsNext]_allKlapVars => KlapsInv'
  <2> SUFFICES ASSUME KlapsInv, [KlapsNext]_allKlapVars PROVE KlapsInv'
    OBVIOUS
  <2>1. CASE UNCHANGED allKlapVars
    BY <2>1, KlapsStand
  <2>2. ASSUME NEW p \in KlapPage, KlapPageSteps(p) PROVE KlapsInv'
    <3>1. ASSUME NEW u \in Offender, get_next_klap_id(p, u) PROVE KlapsInv'
      BY <3>1, ReserveKeeps
    <3>2. CASE add_klap(p)
      <4>1. Lay(p) \/ Abandon(p)
        BY <3>2 DEF add_klap, Lay, Abandon, klapVars
      <4> QED
        BY <4>1, LayKeeps, AbandonKeeps
    <3>3. CASE queue_add(p)
      BY <3>3, QueueAddKeeps
    <3>4. ASSUME NEW id \in KlapId, get_item(p, id) PROVE KlapsInv'
      BY <3>4, LookUpKeeps
    <3>5. CASE remove_klap(p)
      BY <3>5, RemoveKeeps
    <3>6. ASSUME NEW m \in Moder, NEW adds \in BOOLEAN, change_moderator(p, m, adds) PROVE KlapsInv'
      BY <3>6, ChangeModeratorKeeps
    <3>7. ASSUME NEW adds \in BOOLEAN, queue_moderator(p, adds) PROVE KlapsInv'
      BY <3>7, QueueModeratorKeeps
    <3>8. CASE load_channels(p)
      BY <3>8, LoadChannelsKeeps
    <3>9. CASE update_channel(p)
      BY <3>9, UpdateChannelKeeps
    <3> QED
      BY <2>2, <3>1, <3>2, <3>3, <3>4, <3>5, <3>6, <3>7, <3>8, <3>9 DEF KlapPageSteps
  <2>3. ASSUME NEW u \in Offender, check_ban_by_uid(u) PROVE KlapsInv'
    BY <2>3, ExpireKeeps
  <2>4. ASSUME NEW u \in Offender, check_klaped(u) PROVE KlapsInv'
    BY <2>4, ForgetKeeps
  <2>5. ASSUME NEW k \in kl_laid \ kl_lapsed, lapse(k) PROVE KlapsInv'
    BY <2>5, LapseKeeps
  <2>6. CASE take_commands
    BY <2>6, TakeKeeps
  <2>7. CASE push_event
    BY <2>7, PushKeeps
  <2>8. CASE update_klap_datum
    BY <2>8, DatumKeeps
  <2>9. CASE on_ban_and_channel
    BY <2>9, HearKeeps
  <2> QED
    BY <2>1, <2>2, <2>3, <2>4, <2>5, <2>6, <2>7, <2>8, <2>9 DEF KlapsNext
<1> QED
  BY <1>1, <1>2, PTL DEF KlapsSpec

LEMMA SettledKlapsAgree == KlapsInv => KlapsAgree
<1> SUFFICES ASSUME KlapsInv, KlapsSettled PROVE KlapsAgree
  BY DEF KlapsAgree, KlapStands, ChatKlaps, LiftedGone, ModeratorsAgree
<1>0. HistoryOK /\ ItemsOK /\ PagesOK /\ FlowOK /\ ChatOK /\ ClearHold /\ ForceRules /\ LiftedGo /\ ModeratorsTrack
  BY DEF KlapsInv, KlapsTypeOK
<1>1. kl_queue = <<>> /\ kl_batch = <<>> /\ kl_events = <<>> /\ \A p \in KlapPage : kl_page[p].at = "idle"
  BY DEF KlapsSettled, PageAt
<1>2. ToChat = <<>>
  BY <1>0, <1>1 DEF ToChat, FlowOK
<1>3. \A A, B : ~ EndsPages(A, B) /\ ~ EndsChat(A, B)
  BY <1>1, <1>2, NothingUnderWay DEF EndsPages, EndsChat
<1>4. \A k \in Standing : k \in Clear \ kl_lapsed /\ k \in kl_laid
  BY DEF Standing, Clear
<1>5. KlapStands
  <2> SUFFICES ASSUME NEW k \in Standing PROVE k.uid \in DOMAIN kl_by_uid /\ kl_items[kl_by_uid[k.uid]] = k
    BY DEF KlapStands
  <2> QED
    BY <1>0, <1>4 DEF ClearHold, ForceRules, Holds, Rules
<1>6. ChatKlaps
  <2> SUFFICES ASSUME NEW k \in Standing \ kl_wiped PROVE k.uid \in DOMAIN kl_klaped /\ kl_klaped[k.uid] = k
    BY DEF ChatKlaps
  <2>1. ChatWillKnow(k)
    BY <1>0, <1>4 DEF ForceRules
  <2> QED
    BY <1>1, <1>2, <2>1, EmptyLast DEF ChatWillKnow
<1>7. LiftedGone
  <2> SUFFICES ASSUME NEW k \in kl_lifted \ kl_blurred
               PROVE  (\A i \in DOMAIN kl_items : kl_items[i] # k) /\ (\A u \in DOMAIN kl_klaped : kl_klaped[u] # k)
    BY DEF LiftedGone
  <2>1. (k.id \notin DOMAIN kl_items \/ kl_items[k.id] # k) /\ (k.uid \notin DOMAIN kl_klaped \/ kl_klaped[k.uid] # k)
    BY <1>0, <1>3 DEF LiftedGo, GoesFor
  <2> QED
    BY <1>0, <2>1 DEF ItemsOK, ChatOK
<1>8. ModeratorsAgree
  <2>1. kl_moders \in [rows : SUBSET Moder, pages : SUBSET Moder, chat : SUBSET Moder]
    BY <1>0 DEF ChatOK
  <2>2. ASSUME NEW m \in Moder, m \notin kl_wiped
        PROVE  (m \in kl_moders.pages <=> m \in kl_moders.rows) /\ (m \in kl_moders.chat <=> m \in kl_moders.rows)
    <3>1. ModeratorTracks(m)
      BY <1>0, <2>2 DEF ModeratorsTrack
    <3>2. ~ Telling(m)
      BY <1>1 DEF Telling, TellsAt
    <3> QED
      BY <1>3, <3>1, <3>2 DEF ModeratorTracks, PagesAreTold, ChatIsTold
  <2>3. kl_moders.rows \subseteq Moder /\ kl_moders.pages \subseteq Moder /\ kl_moders.chat \subseteq Moder
    BY <2>1
  <2>4. /\ (kl_moders.pages \ kl_moders.rows) \cup (kl_moders.rows \ kl_moders.pages) \subseteq kl_wiped
        /\ (kl_moders.chat \ kl_moders.rows) \cup (kl_moders.rows \ kl_moders.chat) \subseteq kl_wiped
    BY <2>2, <2>3
  <2>5. kl_moders["pages"] = kl_moders.pages /\ kl_moders["chat"] = kl_moders.chat
    OBVIOUS
  <2> QED
    BY <2>4, <2>5 DEF ModeratorsAgree
<1> QED
  BY <1>5, <1>6, <1>7, <1>8 DEF KlapsAgree

\* When no page and no command is under way, _klap_stuff, the chat thread and
\* the table of moderators agree, but for what concurrent pages confused.
THEOREM KlapsAreAgreed == KlapsSpec => []KlapsAgree
BY KlapsInvariant, SettledKlapsAgree, PTL
=============================================================================
