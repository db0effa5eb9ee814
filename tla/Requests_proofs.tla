--------------------------- MODULE Requests_proofs ---------------------------
(***************************************************************************)
(* Proofs about Bans, for any administrators, users, levels and number of  *)
(* bans: who is banned is out, and who is freed is free.  About Messages,  *)
(* for any users, channels and ignore lists: a nick leads to its user, a   *)
(* page shows nothing that is not for its user, and who is told to have    *)
(* come is told to have gone.  And about ExtEvents, for any number of      *)
(* events and faults: what other programs ask for is done, once, and a     *)
(* flushed profile is not an old one.                                      *)
(***************************************************************************)
EXTENDS Bans, Messages, ExtEvents, FiniteSetTheorems, TLAPS

Row == [what : {"login", "ip", "system"}, id : Nat, of : Victim \cup {Nobody}, by : Admin, kicks : BOOLEAN]
Job == [at : {"idle", "select", "insert", "cache", "kick", "delete"},
        what : {"none", "login", "ip", "nick", "system"},
        of : Victim \cup {Nobody}, how : {"page", "chat", "event"}, row : Nat]

BansTypeOK ==
  /\ b_rows \subseteq Row
  /\ b_nick \in [Users -> [banned : BOOLEAN, by : Admin \cup {Nobody}]]
  /\ b_cache \in [Victim -> {"none", "has", "has not"}]
  /\ b_load \in [Victim -> {"no", "has", "has not"}]
  /\ b_irc \in [Victim -> {"out", "login", "ip", "enter", "in"}]
  /\ b_kicks \subseteq Victim
  /\ b_job \in [Admin -> Job]
  /\ b_asked \in Nat
  /\ b_slipped \subseteq Victim /\ b_old \subseteq Victim

\* A row is of a user, but that of a nick of nobody.
RowMakesSense(r) == IF r.what = "system" THEN r.of = Nobody ELSE r.of \in Victim

\* What each step of a thread may be at.
JobMakesSense(k) ==
  /\ k.at \in {"select", "insert", "delete"} => k.what # "none"
  /\ k.what \in {"login", "ip", "nick"} \/ k.at = "kick" => k.of \in Victim
  /\ k.what = "system" => k.of = Nobody /\ k.how = "page"
  /\ k.at = "cache" => k.what = "nick"

RecordsMakeSense ==
  /\ \A r \in b_rows : RowMakesSense(r)
  /\ \A a \in Admin : JobMakesSense(b_job[a])

\* A login that has looked at a table and goes on found nothing there: a ban
\* there is one it has missed.
LookedBefore ==
  \A u \in Victim \ b_slipped :
    /\ b_irc[u] \in {"login", "ip", "enter"} => ~ b_nick[u].banned
    /\ b_irc[u] \in {"ip", "enter"} => Rows("login", u) = {}
    /\ b_irc[u] = "enter" /\ Level[u] < am_admin => Rows("ip", u) = {}

\* A nick that was read before it was banned is one of b_old.
ReadBefore == \A u \in Victim \ b_old : b_nick[u].banned => b_load[u] # "has"

\* Unless two administrators were adding it at a time, there is one row for a
\* ban, and none while somebody is about to add it.
OneRow ==
  \A what \in {"login", "ip", "system"}, u \in Victim \cup {Nobody} : <<what, u>> \notin b_twice =>
    /\ \A r, s \in Rows(what, u) : r = s
    /\ \A a \in Admin : At(a, "insert") /\ Does(a, what) /\ b_job[a].of = u => Rows(what, u) = {}

BansInv ==
  /\ BansTypeOK /\ RecordsMakeSense /\ LookedBefore /\ ReadBefore /\ OneRow
  /\ BannedAreOut /\ BannedNickGone
-----------------------------------------------------------------------------
(* The administrators.                                                     *)

USE BansAssumption DEF BansInv, banHistoryVars, Users

\* Whatever an administrator asks for, the thread that does it begins.
LEMMA AskKeeps ==
  ASSUME BansInv, NEW a \in Admin,
         NEW step \in {"select", "kick", "delete"}, NEW what \in {"none", "login", "ip", "nick", "system"},
         NEW u \in Victim \cup {Nobody}, NEW how \in {"page", "chat", "event"}, NEW row \in Nat,
         JobMakesSense([at |-> step, what |-> what, of |-> u, how |-> how, row |-> row]),
         ask(a, step, what, u, how, row)
  PROVE  BansInv'
<1> USE DEF ask
<1> DEFINE k == [at |-> step, what |-> what, of |-> u, how |-> how, row |-> row]
<1>1. k \in Job /\ k.at = step /\ k.of = u /\ JobMakesSense(k)
  BY DEF Job
<1>2. b_job' = [b_job EXCEPT ![a] = k]
  OBVIOUS
<1>3. b_job[a].at = "idle"
  BY DEF At
<1> HIDE DEF k
<1>4. b_job \in [Admin -> Job]
  BY DEF BansTypeOK
<1>5. \A x \in Admin : b_job'[x] = IF x = a THEN k ELSE b_job[x]
  BY <1>2, <1>4
<1>6. BansTypeOK'
  <2>1. b_job' \in [Admin -> Job]
    BY <1>1, <1>2, <1>4
  <2>2. b_asked' \in Nat
    <3>1. b_asked \in Nat /\ b_asked' = b_asked + 1
      BY DEF BansTypeOK
    <3> HIDE DEF BansInv, ask
    <3> QED
      BY <3>1
  <2> QED
    BY <2>1, <2>2 DEF BansTypeOK
<1>7. RecordsMakeSense'
  BY <1>1, <1>5 DEF RecordsMakeSense
<1>8. LookedBefore' /\ ReadBefore'
  BY DEF LookedBefore, ReadBefore, Rows
<1>9. OneRow'
  BY <1>1, <1>5 DEF OneRow, Rows, At, Does
<1>10. BannedAreOut'
  BY <1>3, <1>5 DEF BannedAreOut, KeepsOut, Leaving
<1>11. BannedNickGone'
  BY <1>3, <1>5 DEF BannedNickGone, At
<1> QED
  BY <1>6, <1>7, <1>8, <1>9, <1>10, <1>11

\* Every page, menu, command and event is such a request.
LEMMA RequestKeeps ==
  ASSUME BansInv, NEW a \in Admin, AdminNext(a)
  PROVE  BansInv' \/ select(a) \/ insert(a) \/ erase_nick(a) \/ kick_banned(a) \/ delete(a)
<1> HIDE DEF BansInv
<1>0. b_asked + 1 \in Nat /\ b_rows \subseteq Row /\ \A r \in b_rows : RowMakesSense(r)
  <2>1. b_asked \in Nat /\ b_rows \subseteq Row /\ \A r \in b_rows : RowMakesSense(r)
    BY DEF BansInv, BansTypeOK, RecordsMakeSense
  <2> QED
    BY <2>1
<1>1. ASSUME url_admin_old_nickban_add(a, Nobody)
      PROVE  BansInv'
  BY <1>0, <1>1, AskKeeps DEF url_admin_old_nickban_add, JobMakesSense
<1>2. ASSUME NEW r \in b_rows, url_admin_old_ipban_remove(a, r) \/ remove_system_nick(a, r)
      PROVE  BansInv'
  <2>1. r.of \in Victim \cup {Nobody} /\ r.id \in Nat /\ (r.what = "ip" => r.of \in Victim)
    BY <1>0 DEF Row, RowMakesSense
  <2> QED
    BY <1>2, <2>1, AskKeeps DEF url_admin_old_ipban_remove, remove_system_nick, JobMakesSense
<1>3. ASSUME NEW u \in Victim,
             \/ url_admin_old_loginban_add(a, u) \/ url_admin_old_ipban_add(a, u)
             \/ url_admin_old_nickban_add(a, u) \/ irc_cmd_MODE_BN(a, u)
      PROVE  BansInv'
  BY <1>0, <1>3, AskKeeps DEF url_admin_old_loginban_add, url_admin_old_ipban_add,
    url_admin_old_nickban_add, irc_cmd_MODE_BN, JobMakesSense
<1>4. ASSUME NEW u \in Victim,
             \/ url_login_ban(a, u) \/ url_ip_ban(a, u) \/ url_nick_ban(a, u)
             \/ url_kick_user(a, u) \/ irc_cmd_KICK(a, u)
      PROVE  BansInv'
  BY <1>0, <1>4, AskKeeps DEF url_login_ban, url_ip_ban, url_nick_ban, url_kick_user,
    irc_cmd_KICK, JobMakesSense
<1>5. ASSUME NEW u \in Victim, ban_login_common(a, u) \/ ban_ip_common(a, u) \/ ban_nick(a, u)
      PROVE  BansInv'
  BY <1>0, <1>5, AskKeeps DEF ban_login_common, ban_ip_common, ban_nick, JobMakesSense
<1>6. ASSUME NEW u \in Victim, url_admin_old_loginban_remove(a, u) \/ url_admin_old_nickban_remove(a, u)
      PROVE  BansInv'
  BY <1>0, <1>6, AskKeeps DEF url_admin_old_loginban_remove, url_admin_old_nickban_remove, JobMakesSense
<1> QED
  BY <1>1, <1>2, <1>3, <1>4, <1>5, <1>6 DEF AdminNext

LEMMA SelectKeeps ==
  ASSUME BansInv, NEW a \in Admin, select(a)
  PROVE  BansInv'
<1> USE DEF select
<1> DEFINE k == b_job[a]
<1>1. k \in Job /\ JobMakesSense(k) /\ k.at = "select" /\ k.what # "none"
  BY DEF BansTypeOK, RecordsMakeSense, JobMakesSense, At
<1>2. PICK j \in Job :
        /\ b_job' = [b_job EXCEPT ![a] = j]
        /\ JobMakesSense(j)
        /\ j.at = "insert" => j.what = k.what /\ j.of = k.of /\ ~ Banned(k.what, k.of)
  <2>1. CASE b_job' = [b_job EXCEPT ![a] = NoJob]
    <3>1. NoJob \in Job /\ JobMakesSense(NoJob) /\ NoJob.at = "idle"
      BY DEF NoJob, Job, JobMakesSense
    <3> QED
      BY <2>1, <3>1
  <2>2. ASSUME NEW step \in {"kick", "insert"}, Proceeds(a, step), step = "kick" => k.what # "system",
               step = "insert" => ~ Banned(k.what, k.of)
        PROVE  \E j \in Job :
                 /\ b_job' = [b_job EXCEPT ![a] = j]
                 /\ JobMakesSense(j)
                 /\ j.at = "insert" => j.what = k.what /\ j.of = k.of /\ ~ Banned(k.what, k.of)
    <3> DEFINE j == [k EXCEPT !.at = step]
    <3>1. b_job' = [b_job EXCEPT ![a] = j]
      BY <2>2 DEF Proceeds
    <3>2. j \in Job /\ j.at = step /\ j.what = k.what /\ j.of = k.of /\ j.how = k.how
      BY <1>1 DEF Job
    <3>3. JobMakesSense(j)
      BY <1>1, <2>2, <3>2 DEF JobMakesSense, Job
    <3> HIDE DEF j
    <3> QED
      BY <2>2, <3>1, <3>2, <3>3
  <2> QED
    BY <1>1, <2>1, <2>2 DEF Ends, JobMakesSense
<1>3. b_job \in [Admin -> Job] /\ UNCHANGED <<b_rows, b_nick, b_cache, b_load, b_irc, b_kicks, b_asked, banHistoryVars>>
  BY DEF BansTypeOK
<1> HIDE DEF select
<1>4. \A x \in Admin : b_job'[x] = IF x = a THEN j ELSE b_job[x]
  BY <1>2, <1>3
<1>5. BansTypeOK'
  <2>1. b_job' \in [Admin -> Job]
    BY <1>2, <1>3
  <2> QED
    BY <1>3, <2>1 DEF BansTypeOK
<1>6. RecordsMakeSense'
  BY <1>2, <1>3, <1>4 DEF RecordsMakeSense
<1>7. LookedBefore' /\ ReadBefore'
  BY <1>3 DEF LookedBefore, ReadBefore, Rows
<1>8. OneRow'
  BY <1>1, <1>2, <1>3, <1>4 DEF OneRow, Rows, At, Does, Banned
<1>9. BannedAreOut'
  BY <1>1, <1>3, <1>4 DEF BannedAreOut, KeepsOut, Leaving
<1>10. BannedNickGone'
  BY <1>1, <1>3, <1>4 DEF BannedNickGone, At
<1> QED
  BY <1>5, <1>6, <1>7, <1>8, <1>9, <1>10
LEMMA InsertKeeps ==
  ASSUME BansInv, NEW a \in Admin, insert(a)
  PROVE  BansInv'
<1> USE DEF insert
<1> DEFINE k == b_job[a]
           next == IF AfterBan(a) = "idle" THEN NoJob ELSE [k EXCEPT !.at = AfterBan(a)]
           row == [what |-> k.what, id |-> k.row, of |-> k.of, by |-> a, kicks |-> k.how = "chat"]
<1>1. k \in Job /\ JobMakesSense(k) /\ k.at = "insert" /\ k.what # "none"
  BY DEF BansTypeOK, RecordsMakeSense, JobMakesSense, At
<1>2. b_job' = [b_job EXCEPT ![a] = next]
  BY DEF Ends, Proceeds
<1>3. /\ next \in Job /\ JobMakesSense(next) /\ next.at \in {"idle", "cache", "kick"}
      /\ k.what = "nick" => next.at = "cache" /\ next.of = k.of
      /\ k.what # "nick" /\ k.how = "chat" => next.at = "kick" /\ next.of = k.of
  <2>1. AfterBan(a) \in {"idle", "cache", "kick"}
    BY DEF AfterBan
  <2>2. NoJob \in Job /\ JobMakesSense(NoJob) /\ NoJob.at = "idle"
    BY DEF NoJob, Job, JobMakesSense
  <2>3. /\ k.what = "nick" => AfterBan(a) = "cache"
        /\ k.what # "nick" => AfterBan(a) = IF k.how = "chat" THEN "kick" ELSE "idle"
    BY DEF AfterBan, Does
  <2> DEFINE j == [k EXCEPT !.at = AfterBan(a)]
  <2>4. j \in Job /\ j.at = AfterBan(a) /\ j.what = k.what /\ j.of = k.of /\ j.how = k.how
    BY <1>1, <2>1 DEF Job
  <2> HIDE DEF j
  <2>5. AfterBan(a) # "idle" => JobMakesSense(j)
    BY <1>1, <2>1, <2>3, <2>4 DEF JobMakesSense, Job
  <2> QED
    BY <2>1, <2>2, <2>3, <2>4, <2>5 DEF j
<1>4. b_job \in [Admin -> Job]
  BY DEF BansTypeOK
<1> DEFINE others == {x \in Admin \ {a} : b_job[x].at = "insert" /\ b_job[x].what = k.what /\ b_job[x].of = k.of}
<1>5. /\ k.what = "nick" => b_nick' = [b_nick EXCEPT ![k.of] = [banned |-> TRUE, by |-> a]] /\ b_rows' = b_rows
      /\ k.what # "nick" => b_rows' = b_rows \cup {row} /\ b_nick' = b_nick
      /\ b_slipped' = b_slipped \cup (Past(k.what) \cap {k.of})
      /\ b_twice' = IF others # {} THEN b_twice \cup {<<k.what, k.of>>} ELSE b_twice
      /\ b_old' = IF k.what = "nick" /\ b_load[k.of] = "has" THEN b_old \cup {k.of} ELSE b_old
      /\ UNCHANGED <<b_cache, b_load, b_irc, b_kicks, b_asked>>
  BY DEF others, row
<1>6. /\ k.what # "nick" => row \in Row /\ RowMakesSense(row)
      /\ row.what = k.what /\ row.of = k.of /\ row.kicks = (k.how = "chat")
  BY <1>1 DEF Row, Job, RowMakesSense, JobMakesSense
<1>7. k.what = "nick" => k.of \in Victim
  BY <1>1 DEF JobMakesSense
<1> HIDE DEF insert, row, next, k
<1>8. \A x \in Admin : b_job'[x] = IF x = a THEN next ELSE b_job[x]
  BY <1>2, <1>4
<1>9. /\ k.what = "nick" => \A u \in Victim : b_nick'[u].banned <=> b_nick[u].banned \/ u = k.of
      /\ k.what # "nick" => \A u \in Victim : b_nick'[u] = b_nick[u]
  <2> DEFINE new == [banned |-> TRUE, by |-> a]
  <2>1. b_nick \in [Users -> [banned : BOOLEAN, by : Admin \cup {Nobody}]] /\ Victim \subseteq Users
    BY DEF BansTypeOK
  <2>2. new.banned = TRUE /\ new \in [banned : BOOLEAN, by : Admin \cup {Nobody}]
    OBVIOUS
  <2>3. k.what = "nick" => b_nick' = [b_nick EXCEPT ![k.of] = new]
    BY <1>5
  <2> HIDE DEF new, BansInv
  <2>4. k.what = "nick" => \A u \in Users : b_nick'[u] = IF u = k.of THEN new ELSE b_nick[u]
    BY <2>1, <2>3
  <2> QED
    BY <1>5, <1>7, <2>1, <2>2, <2>4
<1>10. \A what, u : Rows(what, u)' = IF k.what # "nick" /\ k.what = what /\ k.of = u THEN Rows(what, u) \cup {row} ELSE Rows(what, u)
  BY <1>5, <1>6 DEF Rows
<1>11. BansTypeOK'
  <2>1. b_rows' \subseteq Row
    BY <1>5, <1>6 DEF BansTypeOK
  <2>2. b_nick' \in [Users -> [banned : BOOLEAN, by : Admin \cup {Nobody}]]
    <3> DEFINE new == [banned |-> TRUE, by |-> a]
    <3>1. b_nick \in [Users -> [banned : BOOLEAN, by : Admin \cup {Nobody}]]
      BY DEF BansTypeOK
    <3>2. new \in [banned : BOOLEAN, by : Admin \cup {Nobody}]
      OBVIOUS
    <3>3. b_nick' = b_nick \/ b_nick' = [b_nick EXCEPT ![k.of] = new]
      BY <1>5
    <3> HIDE DEF new, BansInv
    <3> QED
      BY <3>1, <3>2, <3>3
  <2>3. b_job' \in [Admin -> Job]
    BY <1>2, <1>3, <1>4
  <2>4. b_slipped' \subseteq Victim /\ b_old' \subseteq Victim
    BY <1>5, <1>7 DEF BansTypeOK, Past
  <2> QED
    BY <1>5, <2>1, <2>2, <2>3, <2>4 DEF BansTypeOK
<1>12. RecordsMakeSense'
  BY <1>3, <1>5, <1>6, <1>8 DEF RecordsMakeSense
<1>13. LookedBefore'
  <2> SUFFICES ASSUME NEW u \in Victim, u \notin b_slipped'
               PROVE  /\ b_irc[u] \in {"login", "ip", "enter"} => ~ b_nick'[u].banned
                      /\ b_irc[u] \in {"ip", "enter"} => Rows("login", u)' = {}
                      /\ b_irc[u] = "enter" /\ Level[u] < am_admin => Rows("ip", u)' = {}
    BY <1>5 DEF LookedBefore
  <2>1. u \notin b_slipped /\ (k.of = u => u \notin Past(k.what))
    BY <1>5
  <2>2. CASE k.of # u
    BY <1>9, <1>10, <2>1, <2>2 DEF LookedBefore
  <2>3. CASE k.of = u
    BY <1>9, <1>10, <2>1, <2>3 DEF LookedBefore, Past
  <2> QED
    BY <2>2, <2>3
<1>14. ReadBefore'
  BY <1>5, <1>9 DEF ReadBefore
<1>15. OneRow'
  <2> SUFFICES ASSUME NEW what \in {"login", "ip", "system"}, NEW u \in Victim \cup {Nobody},
                      <<what, u>> \notin b_twice'
               PROVE  /\ \A r, s \in Rows(what, u)' : r = s
                      /\ \A x \in Admin : b_job'[x].at = "insert" /\ b_job'[x].what = what /\ b_job'[x].of = u
                           => Rows(what, u)' = {}
    BY DEF OneRow, At, Does
  <2>1. <<what, u>> \notin b_twice /\ (k.what = what /\ k.of = u => others = {})
    BY <1>5
  <2>2. CASE ~ (k.what = what /\ k.of = u)
    BY <1>3, <1>8, <1>10, <2>1, <2>2 DEF OneRow, At, Does
  <2>3. CASE k.what = what /\ k.of = u
    <3>1. Rows(what, u) = {}
      BY <1>1, <2>1, <2>3 DEF OneRow, At, Does, k
    <3>2. \A x \in Admin : ~ (b_job'[x].at = "insert" /\ b_job'[x].what = what /\ b_job'[x].of = u)
      BY <1>3, <1>8, <2>1, <2>3
    <3> QED
      BY <1>10, <2>3, <3>1, <3>2
  <2> QED
    BY <2>2, <2>3
<1>16. BannedAreOut'
  <2> SUFFICES ASSUME NEW u \in Victim, u \notin b_slipped', b_irc[u] = "in",
                      b_nick'[u].banned \/ \E r \in b_rows' : KeepsOut(r, u)
               PROVE  u \in b_kicks \/ \E x \in Admin : b_job'[x].of = u /\ b_job'[x].at \in {"cache", "kick"}
    BY <1>5 DEF BannedAreOut, Leaving, KeepsOut
  <2>1. CASE b_nick[u].banned \/ \E r \in b_rows : KeepsOut(r, u)
    <3>1. u \in b_kicks \/ \E x \in Admin : b_job[x].of = u /\ b_job[x].at \in {"cache", "kick"}
      BY <1>5, <2>1 DEF BannedAreOut, Leaving
    <3> QED
      BY <1>1, <1>8, <3>1 DEF k
  <2>2. CASE ~ (b_nick[u].banned \/ \E r \in b_rows : KeepsOut(r, u))
    <3>1. k.of = u /\ (k.what = "nick" \/ k.how = "chat")
      <4>1. CASE k.what = "nick"
        BY <1>5, <1>9, <2>2, <4>1
      <4>2. CASE k.what # "nick"
        BY <1>5, <1>6, <1>9, <2>2, <4>2 DEF KeepsOut
      <4> QED
        BY <4>1, <4>2
    <3> QED
      BY <1>3, <1>8, <3>1
  <2> QED
    BY <2>1, <2>2
<1>17. BannedNickGone'
  <2> SUFFICES ASSUME NEW u \in Victim, u \notin b_old', b_nick'[u].banned, b_cache[u] = "has"
               PROVE  \E x \in Admin : b_job'[x].at = "cache" /\ b_job'[x].of = u
    BY <1>5 DEF BannedNickGone, At
  <2>1. CASE b_nick[u].banned
    <3>1. PICK x \in Admin : b_job[x].at = "cache" /\ b_job[x].of = u
      BY <1>5, <2>1 DEF BannedNickGone, At
    <3> QED
      BY <1>1, <1>8, <3>1 DEF k
  <2>2. CASE ~ b_nick[u].banned
    BY <1>3, <1>8, <1>9, <2>2
  <2> QED
    BY <2>1, <2>2
<1> QED
  BY <1>11, <1>12, <1>13, <1>14, <1>15, <1>16, <1>17

LEMMA EraseNickKeeps ==
  ASSUME BansInv, NEW a \in Admin, erase_nick(a)
  PROVE  BansInv'
<1> USE DEF erase_nick
<1> DEFINE k == b_job[a]
           j == [k EXCEPT !.at = "kick"]
<1>1. k \in Job /\ JobMakesSense(k) /\ k.at = "cache" /\ k.of \in Victim
  BY DEF BansTypeOK, RecordsMakeSense, JobMakesSense, At
<1>2. b_job' = [b_job EXCEPT ![a] = j]
  BY DEF Proceeds
<1>3. j \in Job /\ j.at = "kick" /\ j.of = k.of /\ j.what = k.what /\ j.how = k.how
  BY <1>1 DEF Job
<1>4. b_job \in [Admin -> Job] /\ b_cache' = [b_cache EXCEPT ![k.of] = "has not"]
  BY DEF BansTypeOK, Without
<1>5. UNCHANGED <<b_rows, b_nick, b_load, b_irc, b_kicks, b_asked, banHistoryVars>>
  OBVIOUS
<1> HIDE DEF j, erase_nick, k
<1>6. JobMakesSense(j)
  BY <1>1, <1>3 DEF JobMakesSense
<1>7. \A x \in Admin : b_job'[x] = IF x = a THEN j ELSE b_job[x]
  BY <1>2, <1>4
<1>8. BansTypeOK'
  <2>1. b_job' \in [Admin -> Job] /\ b_cache' \in [Victim -> {"none", "has", "has not"}]
    BY <1>1, <1>2, <1>3, <1>4 DEF BansTypeOK
  <2> QED
    BY <1>5, <2>1 DEF BansTypeOK
<1>9. RecordsMakeSense'
  BY <1>5, <1>6, <1>7 DEF RecordsMakeSense
<1>10. LookedBefore' /\ ReadBefore'
  BY <1>5 DEF LookedBefore, ReadBefore, Rows
<1>11. OneRow'
  BY <1>3, <1>5, <1>7 DEF OneRow, Rows, At, Does
<1>12. BannedAreOut'
  <2>1. \A u \in Victim : (\E x \in Admin : b_job[x].of = u /\ b_job[x].at \in {"cache", "kick"})
                            => \E x \in Admin : b_job'[x].of = u /\ b_job'[x].at \in {"cache", "kick"}
    BY <1>3, <1>7 DEF k
  <2> QED
    BY <1>5, <2>1 DEF BannedAreOut, KeepsOut, Leaving
<1>13. BannedNickGone'
  <2> SUFFICES ASSUME NEW u \in Victim, u \notin b_old, b_nick[u].banned, b_cache'[u] = "has"
               PROVE  \E x \in Admin : b_job'[x].at = "cache" /\ b_job'[x].of = u
    BY <1>5 DEF BannedNickGone, At
  <2>1. u # k.of /\ b_cache[u] = "has"
    BY <1>1, <1>4 DEF BansTypeOK
  <2>2. PICK x \in Admin : b_job[x].at = "cache" /\ b_job[x].of = u
    BY <2>1 DEF BannedNickGone, At
  <2> QED
    BY <1>7, <2>1, <2>2 DEF k
<1> QED
  BY <1>8, <1>9, <1>10, <1>11, <1>12, <1>13
LEMMA KickKeeps ==
  ASSUME BansInv, NEW a \in Admin, kick_banned(a)
  PROVE  BansInv'
<1> USE DEF kick_banned
<1> DEFINE k == b_job[a]
<1>1. k \in Job /\ JobMakesSense(k) /\ k.at = "kick" /\ k.of \in Victim
  BY DEF BansTypeOK, RecordsMakeSense, JobMakesSense, At
<1>2. b_job' = [b_job EXCEPT ![a] = NoJob]
  BY DEF Ends
<1>3. b_job \in [Admin -> Job] /\ NoJob \in Job /\ JobMakesSense(NoJob) /\ NoJob.at = "idle"
  BY DEF BansTypeOK, NoJob, Job, JobMakesSense
<1>4. /\ b_kicks \subseteq b_kicks' /\ b_kicks' \subseteq b_kicks \cup {k.of}
      /\ b_irc[k.of] = "in" => k.of \in b_kicks'
  OBVIOUS
<1>5. UNCHANGED <<b_rows, b_nick, b_cache, b_load, b_irc, b_asked, banHistoryVars>>
  OBVIOUS
<1> HIDE DEF kick_banned, k
<1>6. \A x \in Admin : b_job'[x] = IF x = a THEN NoJob ELSE b_job[x]
  BY <1>2, <1>3
<1>7. BansTypeOK'
  <2>1. b_job' \in [Admin -> Job] /\ b_kicks' \subseteq Victim
    BY <1>1, <1>2, <1>3, <1>4 DEF BansTypeOK
  <2> QED
    BY <1>5, <2>1 DEF BansTypeOK
<1>8. RecordsMakeSense'
  BY <1>3, <1>5, <1>6 DEF RecordsMakeSense
<1>9. LookedBefore' /\ ReadBefore'
  BY <1>5 DEF LookedBefore, ReadBefore, Rows
<1>10. OneRow'
  BY <1>3, <1>5, <1>6 DEF OneRow, Rows, At, Does
<1>11. BannedAreOut'
  <2> SUFFICES ASSUME NEW u \in Victim, u \notin b_slipped, b_irc[u] = "in",
                      b_nick[u].banned \/ \E r \in b_rows : KeepsOut(r, u)
               PROVE  u \in b_kicks' \/ \E x \in Admin : b_job'[x].of = u /\ b_job'[x].at \in {"cache", "kick"}
    BY <1>5 DEF BannedAreOut, Leaving, KeepsOut
  <2>1. u \in b_kicks \/ \E x \in Admin : b_job[x].of = u /\ b_job[x].at \in {"cache", "kick"}
    BY DEF BannedAreOut, Leaving
  <2> QED
    BY <1>4, <1>6, <2>1 DEF k
<1>12. BannedNickGone'
  BY <1>1, <1>5, <1>6 DEF BannedNickGone, At, k
<1> QED
  BY <1>7, <1>8, <1>9, <1>10, <1>11, <1>12

LEMMA DeleteKeeps ==
  ASSUME BansInv, NEW a \in Admin, delete(a)
  PROVE  BansInv'
<1> USE DEF delete
<1> DEFINE k == b_job[a]
<1>1. k \in Job /\ JobMakesSense(k) /\ k.at = "delete"
  BY DEF BansTypeOK, RecordsMakeSense, At
<1>2. b_job' = [b_job EXCEPT ![a] = NoJob]
  BY DEF Ends
<1>3. b_job \in [Admin -> Job] /\ NoJob \in Job /\ JobMakesSense(NoJob) /\ NoJob.at = "idle"
  BY DEF BansTypeOK, NoJob, Job, JobMakesSense
<1>4. /\ b_rows' \subseteq b_rows
      /\ b_nick' = b_nick \/ (k.what = "nick" /\ b_nick' = [b_nick EXCEPT ![k.of].banned = FALSE])
  OBVIOUS
<1>5. UNCHANGED <<b_cache, b_load, b_irc, b_kicks, b_asked, banHistoryVars>>
  OBVIOUS
<1> HIDE DEF delete, k
<1>6. \A x \in Admin : b_job'[x] = IF x = a THEN NoJob ELSE b_job[x]
  BY <1>2, <1>3
<1>7. /\ b_nick' \in [Users -> [banned : BOOLEAN, by : Admin \cup {Nobody}]]
      /\ \A u \in Victim : b_nick'[u].banned => b_nick[u].banned
  <2>1. b_nick \in [Users -> [banned : BOOLEAN, by : Admin \cup {Nobody}]] /\ Victim \subseteq Users
    BY DEF BansTypeOK
  <2>2. CASE b_nick' = b_nick
    BY <2>1, <2>2
  <2>3. CASE k.what = "nick" /\ b_nick' = [b_nick EXCEPT ![k.of].banned = FALSE]
    <3> DEFINE old == b_nick[k.of]
               new == [old EXCEPT !.banned = FALSE]
    <3>1. k.of \in Victim
      BY <1>1, <2>3 DEF JobMakesSense
    <3>2. new \in [banned : BOOLEAN, by : Admin \cup {Nobody}] /\ new.banned = FALSE
      BY <2>1, <3>1
    <3>3. b_nick' = [b_nick EXCEPT ![k.of] = new]
      BY <2>3
    <3> HIDE DEF new, BansInv
    <3> QED
      BY <2>1, <3>1, <3>2, <3>3
  <2> QED
    BY <1>4, <2>2, <2>3
<1>8. \A what, u : Rows(what, u)' \subseteq Rows(what, u)
  BY <1>4 DEF Rows
<1>9. BansTypeOK'
  <2>1. b_job' \in [Admin -> Job] /\ b_rows' \subseteq Row
    BY <1>2, <1>3, <1>4 DEF BansTypeOK
  <2> QED
    BY <1>5, <1>7, <2>1 DEF BansTypeOK
<1>10. RecordsMakeSense'
  BY <1>3, <1>4, <1>6 DEF RecordsMakeSense
<1>11. LookedBefore' /\ ReadBefore'
  BY <1>5, <1>7, <1>8 DEF LookedBefore, ReadBefore
<1>12. OneRow'
  BY <1>3, <1>5, <1>6, <1>8 DEF OneRow, At, Does
<1>13. BannedAreOut'
  <2> SUFFICES ASSUME NEW u \in Victim, u \notin b_slipped, b_irc[u] = "in",
                      b_nick'[u].banned \/ \E r \in b_rows' : KeepsOut(r, u)
               PROVE  u \in b_kicks \/ \E x \in Admin : b_job'[x].of = u /\ b_job'[x].at \in {"cache", "kick"}
    BY <1>5 DEF BannedAreOut, Leaving, KeepsOut
  <2>1. u \in b_kicks \/ \E x \in Admin : b_job[x].of = u /\ b_job[x].at \in {"cache", "kick"}
    BY <1>4, <1>7 DEF BannedAreOut, Leaving
  <2> QED
    BY <1>1, <1>6, <2>1 DEF k
<1>14. BannedNickGone'
  BY <1>1, <1>5, <1>6, <1>7 DEF BannedNickGone, At, k
<1> QED
  BY <1>9, <1>10, <1>11, <1>12, <1>13, <1>14
-----------------------------------------------------------------------------
(* The users.                                                              *)

\* Where a login goes on only when the table has nothing against the user.
LEMMA LoginGoesOn ==
  ASSUME BansInv, NEW u \in Victim, NEW next \in {"out", "login", "ip", "enter", "in"},
         b_irc' = [b_irc EXCEPT ![u] = next],
         b_slipped' = b_slipped \/ (next = "out" /\ b_slipped' = b_slipped \ {u}),
         b_cache' = b_cache \/ b_cache' = [b_cache EXCEPT ![u] = "none"],
         b_kicks' = b_kicks \/ (next # "in" /\ b_kicks' = b_kicks \ {u}),
         UNCHANGED <<b_rows, b_nick, b_load, b_job, b_asked, b_twice, b_old>>,
         u \notin b_slipped => /\ next \in {"login", "ip", "enter"} => ~ b_nick[u].banned
                               /\ next \in {"ip", "enter"} => Rows("login", u) = {}
                               /\ next = "enter" /\ Level[u] < am_admin => Rows("ip", u) = {}
                               /\ next = "in" => /\ ~ b_nick[u].banned
                                                 /\ Rows("login", u) = {}
                                                 /\ Level[u] < am_admin => Rows("ip", u) = {}
  PROVE  BansInv'
<1>1. \A v \in Victim : b_irc'[v] = IF v = u THEN next ELSE b_irc[v]
  BY DEF BansTypeOK
<1>2. \A v \in Victim : b_cache'[v] \in {b_cache[v], "none"}
  BY DEF BansTypeOK
<1>3. \A v \in Victim \ {u} : (v \in b_slipped' <=> v \in b_slipped) /\ (v \in b_kicks' <=> v \in b_kicks)
  OBVIOUS
<1>4. next # "out" => b_slipped' = b_slipped
  OBVIOUS
<1>5. BansTypeOK'
  <2>1. /\ b_irc' \in [Victim -> {"out", "login", "ip", "enter", "in"}]
        /\ b_cache' \in [Victim -> {"none", "has", "has not"}]
        /\ b_slipped' \subseteq Victim /\ b_kicks' \subseteq Victim
    BY DEF BansTypeOK
  <2> QED
    BY <2>1 DEF BansTypeOK
<1>6. RecordsMakeSense' /\ ReadBefore' /\ OneRow'
  BY DEF RecordsMakeSense, ReadBefore, OneRow, Rows, At, Does
<1>7. LookedBefore'
  <2> SUFFICES ASSUME NEW v \in Victim, v \notin b_slipped'
               PROVE  /\ b_irc'[v] \in {"login", "ip", "enter"} => ~ b_nick[v].banned
                      /\ b_irc'[v] \in {"ip", "enter"} => Rows("login", v) = {}
                      /\ b_irc'[v] = "enter" /\ Level[v] < am_admin => Rows("ip", v) = {}
    BY DEF LookedBefore, Rows
  <2>1. CASE v = u
    BY <1>1, <1>4, <2>1
  <2>2. CASE v # u
    BY <1>1, <1>3, <2>2 DEF LookedBefore
  <2> QED
    BY <2>1, <2>2
<1>8. BannedAreOut'
  <2> SUFFICES ASSUME NEW v \in Victim, v \notin b_slipped', b_irc'[v] = "in",
                      b_nick[v].banned \/ \E r \in b_rows : KeepsOut(r, v)
               PROVE  v \in b_kicks' \/ \E x \in Admin : b_job[x].of = v /\ b_job[x].at \in {"cache", "kick"}
    BY DEF BannedAreOut, Leaving, KeepsOut
  <2>1. CASE v = u
    <3>1. ~ b_nick[u].banned /\ Rows("login", u) = {} /\ (Level[u] < am_admin => Rows("ip", u) = {})
      BY <1>1, <1>4, <2>1
    <3>2. PICK r \in b_rows : KeepsOut(r, u)
      BY <2>1, <3>1
    <3>3. r.what \in {"login", "ip"} /\ r.of = u
      BY <3>2 DEF KeepsOut, RecordsMakeSense, RowMakesSense, BansTypeOK, Row
    <3> QED
      BY <3>1, <3>2, <3>3 DEF Rows, KeepsOut
  <2>2. CASE v # u
    BY <1>1, <1>3, <2>2 DEF BannedAreOut, Leaving
  <2> QED
    BY <2>1, <2>2
<1>9. BannedNickGone'
  BY <1>2 DEF BannedNickGone, At
<1> QED
  BY <1>5, <1>6, <1>7, <1>8, <1>9

LEMMA LoginKeeps ==
  ASSUME BansInv, NEW u \in Victim,
         \/ get_pass_by_nick(u) \/ select_banned_login(u) \/ check_for_ipban(u)
         \/ insert_session(u) \/ irc_leave(u) \/ do_user_event(u)
  PROVE  BansInv'
<1>0. /\ b_irc \in [Victim -> {"out", "login", "ip", "enter", "in"}]
      /\ u \notin b_slipped =>
           /\ b_irc[u] \in {"login", "ip", "enter"} => ~ b_nick[u].banned
           /\ b_irc[u] \in {"ip", "enter"} => Rows("login", u) = {}
           /\ b_irc[u] = "enter" /\ Level[u] < am_admin => Rows("ip", u) = {}
  BY DEF BansTypeOK, LookedBefore
<1> HIDE DEF BansInv
<1>1. CASE get_pass_by_nick(u)
  <2>1. PICK next \in {"out", "login"} : b_irc' = [b_irc EXCEPT ![u] = next] /\ (next = "login" => ~ b_nick[u].banned)
    BY <1>1 DEF get_pass_by_nick
  <2> QED
    BY <1>1, <2>1, LoginGoesOn DEF get_pass_by_nick
<1>2. CASE select_banned_login(u)
  <2> DEFINE next == IF Rows("login", u) # {} THEN "out" ELSE IF Level[u] < am_admin THEN "ip" ELSE "enter"
  <2>1. /\ b_irc' = [b_irc EXCEPT ![u] = next] /\ b_irc[u] = "login"
        /\ b_slipped' = b_slipped \/ (next = "out" /\ b_slipped' = b_slipped \ {u})
        /\ UNCHANGED <<b_rows, b_nick, b_cache, b_load, b_kicks, b_job, b_asked, b_twice, b_old>>
    BY <1>2 DEF select_banned_login, looks
  <2>2. next \in {"out", "ip", "enter"} /\ (next # "out" => Rows("login", u) = {})
        /\ (next = "enter" => ~ (Level[u] < am_admin))
    OBVIOUS
  <2> HIDE DEF next
  <2> QED
    BY <1>0, <2>1, <2>2, LoginGoesOn
<1>3. CASE check_for_ipban(u)
  <2> DEFINE next == IF Rows("ip", u) # {} THEN "out" ELSE "enter"
  <2>1. /\ b_irc' = [b_irc EXCEPT ![u] = next] /\ b_irc[u] = "ip"
        /\ b_slipped' = b_slipped \/ (next = "out" /\ b_slipped' = b_slipped \ {u})
        /\ UNCHANGED <<b_rows, b_nick, b_cache, b_load, b_kicks, b_job, b_asked, b_twice, b_old>>
    BY <1>3 DEF check_for_ipban, looks
  <2>2. next \in {"out", "enter"} /\ (next # "out" => Rows("ip", u) = {})
    OBVIOUS
  <2> HIDE DEF next
  <2> QED
    BY <1>0, <2>1, <2>2, LoginGoesOn
<1>4. CASE insert_session(u)
  BY <1>0, <1>4, LoginGoesOn DEF insert_session, banHistoryVars
<1>5. CASE irc_leave(u)
  BY <1>5, LoginGoesOn DEF irc_leave
<1>6. CASE do_user_event(u)
  <2>1. CASE b_irc[u] = "in"
    BY <1>6, <2>1, LoginGoesOn DEF do_user_event
  <2>2. CASE b_irc[u] # "in"
    <3>1. b_irc' = [b_irc EXCEPT ![u] = b_irc[u]] /\ b_irc[u] \in {"out", "login", "ip", "enter", "in"}
      BY <1>0, <1>6, <2>2 DEF do_user_event
    <3> QED
      BY <1>0, <1>6, <2>2, <3>1, LoginGoesOn DEF do_user_event
  <2> QED
    BY <2>1, <2>2
<1> QED
  BY <1>1, <1>2, <1>3, <1>4, <1>5, <1>6

LEMMA NicksKeep ==
  ASSUME BansInv, NEW u \in Victim, load_nicks(u) \/ insert_nicks(u)
  PROVE  BansInv'
<1>1. UNCHANGED <<b_rows, b_nick, b_irc, b_kicks, b_job, b_asked, banHistoryVars>>
  BY DEF load_nicks, insert_nicks
<1>2. \A v \in Victim : b_load'[v] = b_load[v] \/ (b_nick[v].banned => b_load'[v] # "has")
  BY DEF load_nicks, insert_nicks, BansTypeOK
<1>3. \A v \in Victim : b_cache'[v] = b_cache[v] \/ b_cache'[v] = b_load[v]
  BY DEF load_nicks, insert_nicks, BansTypeOK
<1>4. BansTypeOK'
  <2>1. b_load' \in [Victim -> {"no", "has", "has not"}] /\ b_cache' \in [Victim -> {"none", "has", "has not"}]
    BY DEF load_nicks, insert_nicks, BansTypeOK
  <2> QED
    BY <1>1, <2>1 DEF BansTypeOK
<1>5. RecordsMakeSense' /\ LookedBefore' /\ OneRow'
  BY <1>1 DEF RecordsMakeSense, LookedBefore, OneRow, Rows, At, Does
<1>6. ReadBefore'
  BY <1>1, <1>2 DEF ReadBefore
<1>7. BannedAreOut'
  BY <1>1 DEF BannedAreOut, Leaving, KeepsOut
<1>8. BannedNickGone'
  BY <1>1, <1>3 DEF BannedNickGone, ReadBefore, At
<1> QED
  BY <1>4, <1>5, <1>6, <1>7, <1>8
-----------------------------------------------------------------------------
(* The theorems about bans.                                                *)

LEMMA BansInitKeeps == BansInit => BansInv
<1> SUFFICES ASSUME BansInit PROVE BansInv
  OBVIOUS
<1> USE DEF BansInit
<1>1. BansTypeOK
  BY DEF BansTypeOK, NoJob, Job
<1>2. RecordsMakeSense
  BY DEF RecordsMakeSense, JobMakesSense, NoJob
<1>3. LookedBefore /\ ReadBefore
  BY DEF LookedBefore, ReadBefore
<1>4. OneRow
  BY DEF OneRow, Rows, At, NoJob
<1>5. BannedAreOut /\ BannedNickGone
  BY DEF BannedAreOut, BannedNickGone
<1> QED
  BY <1>1, <1>2, <1>3, <1>4, <1>5

LEMMA BansNextKeeps == BansInv /\ [BansNext]_bansVars => BansInv'
<1> SUFFICES ASSUME BansInv, [BansNext]_bansVars PROVE BansInv'
  OBVIOUS
<1> HIDE DEF BansInv
<1>1. ASSUME NEW a \in Admin, AdminNext(a) PROVE BansInv'
  BY <1>1, RequestKeeps, SelectKeeps, InsertKeeps, EraseNickKeeps, KickKeeps, DeleteKeeps
<1>2. ASSUME NEW u \in Victim, UserNext(u) PROVE BansInv'
  <2>1. CASE load_nicks(u) \/ insert_nicks(u)
    BY <2>1, NicksKeep
  <2>2. CASE \/ get_pass_by_nick(u) \/ select_banned_login(u) \/ check_for_ipban(u)
             \/ insert_session(u) \/ irc_leave(u) \/ do_user_event(u)
    BY <2>2, LoginKeeps
  <2> QED
    BY <1>2, <2>1, <2>2 DEF UserNext
<1>3. CASE UNCHANGED bansVars
  <2>1. BansTypeOK' = BansTypeOK /\ RecordsMakeSense' = RecordsMakeSense
    BY <1>3 DEF bansVars, banHistoryVars, BansTypeOK, RecordsMakeSense
  <2>2. LookedBefore' = LookedBefore /\ ReadBefore' = ReadBefore /\ OneRow' = OneRow
    BY <1>3 DEF bansVars, banHistoryVars, LookedBefore, ReadBefore, OneRow, Rows, At, Does
  <2>3. BannedAreOut' = BannedAreOut /\ BannedNickGone' = BannedNickGone
    BY <1>3 DEF bansVars, banHistoryVars, BannedAreOut, BannedNickGone, KeepsOut, Leaving, At
  <2> QED
    BY <2>1, <2>2, <2>3 DEF BansInv
<1> QED
  BY <1>1, <1>2, <1>3 DEF BansNext

\* What every state of the bans satisfies, for any administrators and users.
THEOREM BansInvariant == BansSpec => []BansInv
<1> HIDE DEF BansInv
<1> QED
  BY BansInitKeeps, BansNextKeeps, PTL DEF BansSpec

\* Who is banned from the chat's menus, or whose nick is banned, is out or on
\* the way out, and a banned nick is not in the cache.
THEOREM BansAreKept == BansSpec => []BansHold
<1>1. BansInv => BansHold
  BY DEF BansHold
<1> HIDE DEF BansInv
<1> QED
  BY <1>1, BansInvariant, PTL

\* A thread that ends the deletion of a ban has deleted.
LEMMA OnlyDeleteEnds ==
  ASSUME BansInv, [BansNext]_bansVars, NEW a \in Admin, At(a, "delete"), b_job'[a].at = "idle"
  PROVE  delete(a)
<1>1. b_job \in [Admin -> Job] /\ b_job[a].at = "delete"
  BY DEF BansTypeOK, At
<1> HIDE DEF BansInv
<1>2. CASE UNCHANGED bansVars
  BY <1>1, <1>2 DEF bansVars
<1>3. ASSUME NEW u \in Victim, UserNext(u) PROVE b_job' = b_job
  BY <1>3 DEF UserNext, get_pass_by_nick, select_banned_login, check_for_ipban, looks,
    insert_session, irc_leave, load_nicks, insert_nicks, do_user_event
<1>4. ASSUME NEW x \in Admin, AdminNext(x), x # a PROVE b_job'[a] = b_job[a]
  <2>1. ASSUME NEW step, NEW what, NEW u, NEW how, NEW row, ask(x, step, what, u, how, row)
        PROVE  b_job'[a] = b_job[a]
    BY <1>1, <1>4, <2>1 DEF ask
  <2>2. CASE select(x) \/ insert(x) \/ erase_nick(x) \/ kick_banned(x) \/ delete(x)
    BY <1>1, <1>4, <2>2 DEF select, insert, erase_nick, kick_banned, delete, Proceeds, Ends
  <2> QED
    BY <1>4, <2>1, <2>2 DEF AdminNext, url_admin_old_nickban_add, url_admin_old_ipban_remove,
      remove_system_nick, url_admin_old_loginban_add, url_admin_old_ipban_add, irc_cmd_MODE_BN,
      url_login_ban, url_ip_ban, url_nick_ban, url_kick_user, irc_cmd_KICK, ban_login_common,
      ban_ip_common, ban_nick, url_admin_old_loginban_remove, url_admin_old_nickban_remove
<1>5. ASSUME AdminNext(a) PROVE delete(a)
  <2>1. ASSUME NEW step, NEW what, NEW u, NEW how, NEW row, ask(a, step, what, u, how, row)
        PROVE  FALSE
    BY <1>1, <2>1 DEF ask, At
  <2>2. CASE select(a) \/ insert(a) \/ erase_nick(a) \/ kick_banned(a) \/ delete(a)
    BY <1>1, <2>2 DEF select, insert, erase_nick, kick_banned, At
  <2> QED
    BY <1>5, <2>1, <2>2 DEF AdminNext, url_admin_old_nickban_add, url_admin_old_ipban_remove,
      remove_system_nick, url_admin_old_loginban_add, url_admin_old_ipban_add, irc_cmd_MODE_BN,
      url_login_ban, url_ip_ban, url_nick_ban, url_kick_user, irc_cmd_KICK, ban_login_common,
      ban_ip_common, ban_nick, url_admin_old_loginban_remove, url_admin_old_nickban_remove
<1> QED
  BY <1>1, <1>2, <1>3, <1>4, <1>5 DEF BansNext

\* What the page that lifts a ban leaves of it.
LEMMA LiftLeavesNone ==
  ASSUME BansInv, [BansNext]_bansVars, NEW a \in Admin,
         At(a, "delete"), b_job'[a].at = "idle", b_job[a].what # "nick",
         \/ b_job[a].what = "login"
         \/ /\ <<b_job[a].what, b_job[a].of>> \notin b_twice
            /\ \E r \in Rows(b_job[a].what, b_job[a].of) : r.id = b_job[a].row
  PROVE  {r \in b_rows' : r.what = b_job[a].what /\ r.of = b_job[a].of} = {}
<1> DEFINE k == b_job[a]
<1>1. b_rows' = b_rows \ Lifted(k)
  BY OnlyDeleteEnds DEF delete
<1>2. CASE k.what = "login"
  BY <1>1, <1>2 DEF Lifted
<1>3. CASE k.what # "login"
  <2>1. k.what \in {"ip", "system"} /\ k.of \in Victim \cup {Nobody}
    BY <1>3 DEF BansTypeOK, Job, RecordsMakeSense, JobMakesSense, At
  <2>2. PICK r \in Rows(k.what, k.of) : r.id = k.row /\ \A s \in Rows(k.what, k.of) : s = r
    BY <1>3, <2>1 DEF OneRow
  <2> QED
    BY <1>1, <1>3, <2>2 DEF Lifted, Rows
<1> QED
  BY <1>2, <1>3

\* An administrator who lifts a ban leaves no such ban.
THEOREM LiftingFrees == BansSpec => LiftedAreFree
<1>1. BansInv /\ [BansNext]_bansVars =>
        [\A a \in Admin :
           LET k == b_job[a]
               lifts == \/ k.what = "login"
                        \/ /\ <<k.what, k.of>> \notin b_twice
                           /\ \E r \in Rows(k.what, k.of) : r.id = k.row IN
           At(a, "delete") /\ b_job'[a].at = "idle" /\ k.what # "nick" /\ lifts
             => {r \in b_rows' : r.what = k.what /\ r.of = k.of} = {}]_bansVars
  <2> HIDE DEF BansInv
  <2> QED
    BY LiftLeavesNone
<1> HIDE DEF BansInv
<1> QED
  BY <1>1, BansInvariant, PTL DEF BansSpec, LiftedAreFree
-----------------------------------------------------------------------------
(* The messages.  The state of the chat thread is one record of tables, and   *)
(* the operators that handle its events make one from another: each keeps     *)
(* what is Fine about them.                                                   *)

HIDE BansAssumption DEF BansInv, banHistoryVars, Users

\* The tables have the fields and the users they start with.
Shaped(s) ==
  /\ DOMAIN s = {"users", "nicks", "global", "clients", "moderated", "history", "pending",
                 "sessions", "screen", "external", "said", "loose", "kicked"}
  /\ DOMAIN s.users = Uid /\ DOMAIN s.nicks = Uid /\ DOMAIN s.screen = Uid
  /\ \A u \in Uid : /\ DOMAIN s.users[u] = {"loaded", "us", "vis", "voice"}
                    /\ s.users[u].loaded \in BOOLEAN
                    /\ DOMAIN s.nicks[u] = {"entry", "vis"}
                    /\ DOMAIN s.screen[u] = {"socket", "served", "shown"}

\* A nick leads to the present object of its user, unless the user was kicked:
\* the entry of one who is not loaded is not even an older one.
Found(s) ==
  \A u \in Uid \ s.kicked : s.nicks[u].entry = IF s.users[u].loaded = TRUE THEN "object" ELSE "none"

\* Whether u may be shown the message.
ForUser(e, u) ==
  /\ e.kind \in Private => u \in {e.from, e.to}
  /\ ~ is_ignored(e, u)

Shown(s) == \A u \in Uid : \A e \in s.screen[u].shown : ForUser(e, u)

Fine(s) == Shaped(s) /\ Found(s) /\ Shown(s)

LEMMA PagePushed ==
  ASSUME NEW page, DOMAIN page = {"socket", "served", "shown"}, NEW es
  PROVE  /\ DOMAIN Pushed(page, es) = {"socket", "served", "shown"}
         /\ Pushed(page, es).shown \subseteq page.shown \cup es
  BY DEF Pushed

\* What is pushed to pages of users it is for (data_push_back_www).
LEMMA PushKeeps ==
  ASSUME NEW s, Fine(s), NEW us, NEW e, \A u \in us \cap Uid : ForUser(e, u)
  PROVE  Fine(data_push_back_www(s, us, e))
<1> DEFINE t == data_push_back_www(s, us, e)
<1>1. \A u \in Uid : t.screen[u] = IF u \in us THEN Pushed(s.screen[u], {e}) ELSE s.screen[u]
  BY DEF Fine, Shaped, data_push_back_www
<1>2. /\ DOMAIN t = DOMAIN s /\ DOMAIN t.screen = Uid
      /\ t.users = s.users /\ t.nicks = s.nicks /\ t.kicked = s.kicked
  BY DEF Fine, Shaped, data_push_back_www
<1>3. \A u \in Uid : DOMAIN s.screen[u] = {"socket", "served", "shown"}
  BY DEF Fine, Shaped
<1> HIDE DEF t
<1>7. ASSUME NEW u \in Uid
      PROVE  /\ DOMAIN t.screen[u] = {"socket", "served", "shown"}
             /\ t.screen[u].shown \subseteq s.screen[u].shown \cup (IF u \in us THEN {e} ELSE {})
  <2>1. DOMAIN s.screen[u] = {"socket", "served", "shown"}
    BY <1>3
  <2>2. /\ DOMAIN Pushed(s.screen[u], {e}) = {"socket", "served", "shown"}
        /\ Pushed(s.screen[u], {e}).shown \subseteq s.screen[u].shown \cup {e}
    BY <2>1, PagePushed
  <2> QED  BY <1>1, <2>1, <2>2
<1>4. Shaped(t)
  BY <1>2, <1>7 DEF Fine, Shaped
<1>5. Found(t)
  BY <1>2 DEF Fine, Found
<1>6. Shown(t)
  BY <1>7 DEF Fine, Shown
<1> QED
  BY <1>4, <1>5, <1>6 DEF Fine, t

LEMMA SaveKeeps ==
  ASSUME NEW s, Fine(s), NEW e
  PROVE  Fine(save_chat_msg(s, e))
  BY DEF save_chat_msg, Fine, Shaped, Found, Shown

\* Changes of the other tables.
LEMMA ElsewhereKeeps ==
  ASSUME NEW s, Fine(s), NEW t, DOMAIN t = DOMAIN s, t.users = s.users, t.nicks = s.nicks,
         t.screen = s.screen, t.kicked = s.kicked
  PROVE  Fine(t)
  BY DEF Fine, Shaped, Found, Shown

\* Changes of a user who stays loaded, or stays unloaded.
LEMMA UserKeeps ==
  ASSUME NEW s, Fine(s), NEW t, DOMAIN t = DOMAIN s, t.nicks = s.nicks,
         t.screen = s.screen, t.kicked = s.kicked, NEW u, NEW r,
         t.users = [s.users EXCEPT ![u] = r],
         u \in Uid => /\ DOMAIN r = {"loaded", "us", "vis", "voice"}
                      /\ r.loaded = s.users[u].loaded
  PROVE  Fine(t)
<1>1. Shaped(t)
  BY DEF Fine, Shaped
<1>2. Found(t)
  BY DEF Fine, Shaped, Found
<1>3. Shown(t)
  BY DEF Fine, Shown
<1> QED
  BY <1>1, <1>2, <1>3 DEF Fine

LEMMA SayKeeps ==
  ASSUME NEW s, Fine(s), NEW us, NEW e, \A u \in us \cap Uid : ForUser(e, u)
  PROVE  Fine(data_push_back_www(save_chat_msg(s, e), us, e))
  BY SaveKeeps, PushKeeps

\* get_user_p loads the user with an entry for the nick.  This is where Found
\* has to say that there is no older entry.
LEMMA GetUserKeeps ==
  ASSUME NEW s, Fine(s), NEW u
  PROVE  Fine(get_user_p(s, u))
<1> DEFINE t == get_user_p(s, u)
<1>0. CASE s.users[u].loaded
  BY <1>0 DEF get_user_p
<1>1. CASE ~ s.users[u].loaded
  <2>1. t = [s EXCEPT !.users[u] = [Stranger EXCEPT !.loaded = TRUE],
                 !.nicks[u] = IF @.entry = "none" THEN [@ EXCEPT !.entry = "object"] ELSE @,
                 !.global[u] = NoState]
    BY <1>1 DEF get_user_p
  <2>2. /\ DOMAIN t = DOMAIN s /\ t.screen = s.screen /\ t.kicked = s.kicked
        /\ t.users = [s.users EXCEPT ![u] = [Stranger EXCEPT !.loaded = TRUE]]
        /\ t.nicks = [s.nicks EXCEPT ![u] = IF @.entry = "none" THEN [@ EXCEPT !.entry = "object"] ELSE @]
    BY <2>1 DEF Fine, Shaped
  <2> HIDE DEF t
  <2>3. Shaped(t)
    BY <2>2 DEF Fine, Shaped, Stranger
  <2>4. ASSUME NEW v \in Uid \ t.kicked
        PROVE  t.nicks[v].entry = IF t.users[v].loaded = TRUE THEN "object" ELSE "none"
    <3>1. s.nicks[v].entry = IF s.users[v].loaded = TRUE THEN "object" ELSE "none"
      BY <2>2 DEF Fine, Found
    <3>2. DOMAIN s.nicks[v] = {"entry", "vis"}
      BY DEF Fine, Shaped
    <3>3. CASE v # u
      BY <2>2, <3>1, <3>3 DEF Fine, Shaped
    <3>4. CASE v = u
      <4>1. s.nicks[v].entry = "none"
        BY <1>1, <3>1, <3>4
      <4>2. t.nicks[v].entry = "object"
        BY <2>2, <3>2, <3>4, <4>1 DEF Fine, Shaped
      <4>3. t.users[v].loaded = TRUE
        BY <2>2, <3>4 DEF Fine, Shaped, Stranger
      <4> QED  BY <4>2, <4>3
    <3> QED  BY <3>3, <3>4
  <2>5. Shown(t)
    BY <2>2 DEF Fine, Shown
  <2> QED
    BY <2>3, <2>4, <2>5 DEF Fine, Found, t
<1> QED
  BY <1>0, <1>1

LEMMA NoticeKeeps ==
  ASSUME NEW s, Fine(s), NEW u
  PROVE  Fine(send_syspriv_msg(s, u))
<1> DEFINE e == NoticeTo(s, u)
           t == data_push_back_www(s, {u}, e)
<1>1. e.kind = "SYSPRIV" /\ e.to = u
  BY DEF NoticeTo, Message
<1>2. ForUser(e, u)
  BY <1>1 DEF ForUser, is_ignored, Ignorable
<1> HIDE DEF e
<1>3. Fine(t)
  BY <1>2, PushKeeps
<1>4. send_syspriv_msg(s, u) \in {s, [t EXCEPT !.external = @ \cup {e}, !.said = e.id]}
  BY DEF send_syspriv_msg, e
<1> HIDE DEF t
<1>5. Fine([t EXCEPT !.external = @ \cup {e}, !.said = e.id])
  BY <1>3 DEF Fine, Shaped, Found, Shown
<1> QED
  BY <1>4, <1>5

LEMMA AnnounceKeeps ==
  ASSUME NEW s, Fine(s), NEW kind, NEW u, NEW chans
  PROVE  Fine(announce(s, kind, u, chans))
<1> DEFINE more == [i \in 1..Cardinality(chans) |->
     [kind |-> kind, u |-> u,
      ch |-> CHOOSE c \in chans : Cardinality({d \in chans : d <= c}) = i]]
<1>1. announce(s, kind, u, chans) = [s EXCEPT !.pending = @ \o more]
  BY DEF announce
<1> HIDE DEF more
<1> QED
  BY <1>1 DEF Fine, Shaped, Found, Shown

LEMMA JoinKeeps ==
  ASSUME NEW s, Fine(s), NEW e
  PROVE  Fine(on_JOIN_fix_lists(s, e))
<1> DEFINE old == s.users[e.u]
           us == IF e.ct = "irc" THEN channel_add(old.us, "irc", e.ch)
                 ELSE www_channel_replace(old.us, e.ch)
           r == [old EXCEPT !.us = us, !.vis = e.vis]
           loose == IF old.vis # e.vis /\ export_channels(us) # {e.ch}
                    THEN s.loose \cup {e.u} ELSE s.loose
           joined == [s EXCEPT !.users[e.u] = r, !.global[e.u] = [us |-> us, vis |-> e.vis],
                               !.loose = loose]
           greeted == IF Greeted(old, e.ch, e.vis)
                      THEN announce(joined, "GREETING", e.u, {e.ch}) ELSE joined
<1>1. on_JOIN_fix_lists(s, e) \in {announce(greeted, "QUIT", e.u, {e.ch}), greeted}
  BY DEF on_JOIN_fix_lists
<1> HIDE DEF us, loose
<1>2. Fine(joined)
  <2>1. e.u \in Uid => /\ DOMAIN r = {"loaded", "us", "vis", "voice"}
                       /\ r.loaded = old.loaded
    BY DEF Fine, Shaped
  <2> HIDE DEF r
  <2>2. /\ DOMAIN joined = DOMAIN s /\ joined.nicks = s.nicks /\ joined.screen = s.screen
        /\ joined.kicked = s.kicked /\ joined.users = [s.users EXCEPT ![e.u] = r]
    BY DEF Fine, Shaped
  <2> HIDE DEF joined
  <2> QED
    BY <2>1, <2>2, UserKeeps
<1> HIDE DEF joined
<1>3. Fine(greeted)
  BY <1>2, AnnounceKeeps
<1> HIDE DEF greeted
<1> QED
  BY <1>1, <1>3, AnnounceKeeps

LEMMA CommonJoinKeeps ==
  ASSUME NEW s, Fine(s), NEW e
  PROVE  Fine(on_common_JOIN(s, e))
<1> DEFINE l == get_user_p(s, e.u)
           j == [l EXCEPT !.clients = IF e.ct = "www" THEN @ \cup {e.u} ELSE @]
<1>1. Fine(l)
  BY GetUserKeeps
<1> HIDE DEF l
<1>2. Fine(j)
  BY <1>1 DEF Fine, Shaped, Found, Shown
<1> HIDE DEF j
<1> QED
  BY <1>2, JoinKeeps DEF on_common_JOIN, l, j

LEMMA ChroomKeeps ==
  ASSUME NEW s, Fine(s), NEW e
  PROVE  Fine(on_CHROOM(s, e))
  BY GetUserKeeps, AnnounceKeeps DEF on_CHROOM

LEMMA WithClientKeeps ==
  ASSUME NEW s, Fine(s), NEW u
  PROVE  Fine(with_client(s, u))
<1> DEFINE l == get_user_p(s, u)
<1>1. Fine(l)
  BY GetUserKeeps
<1> HIDE DEF l
<1>2. Fine([l EXCEPT !.clients = @ \cup {u}])
  BY <1>1 DEF Fine, Shaped, Found, Shown
<1> QED
  BY <1>2 DEF with_client, l

\* A page that is loaded shows what is for its user.
LEMMA ReloadShows ==
  ASSUME NEW s, NEW c, NEW u, NEW e \in get_n_messages(s, c, u)
  PROVE  ForUser(e, u)
  BY DEF get_n_messages, make, ForUser, BetweenThem, Written, Announced, Partings,
         OfTheChannel, Private

LEMMA PageKeeps ==
  ASSUME NEW s, Fine(s), NEW u, NEW es, \A e \in es : ForUser(e, u)
  PROVE  Fine([s EXCEPT !.screen[u].served = TRUE, !.screen[u].shown = @ \cup es])
<1> DEFINE page == s.screen[u]
           r == [page EXCEPT !.served = TRUE, !.shown = @ \cup es]
           t == [s EXCEPT !.screen[u].served = TRUE, !.screen[u].shown = @ \cup es]
<1>1. /\ DOMAIN t = DOMAIN s /\ t.users = s.users /\ t.nicks = s.nicks /\ t.kicked = s.kicked
      /\ t.screen = [s.screen EXCEPT ![u] = r]
  BY DEF Fine, Shaped
<1>2. u \in Uid => /\ DOMAIN r = {"socket", "served", "shown"}
                   /\ r.shown = page.shown \cup es
  BY DEF Fine, Shaped
<1> HIDE DEF r, t
<1>3. Shaped(t)
  BY <1>1, <1>2 DEF Fine, Shaped
<1>4. Found(t)
  BY <1>1 DEF Fine, Found
<1>5. Shown(t)
  BY <1>1, <1>2 DEF Fine, Shaped, Shown
<1> QED
  BY <1>3, <1>4, <1>5 DEF Fine, t

LEMMA MessagesKeep ==
  ASSUME NEW s, Fine(s), NEW e
  PROVE  Fine(on_CHAT_MESSAGES2(s, e))
<1> DEFINE u == e.u
           l == with_client(s, u)
           published == [l EXCEPT !.global[u] = [us |-> l.users[u].us, vis |-> l.users[u].vis]]
           g == IF channel_us_count_usr(l.users[u].us, e.ch, "www") THEN l ELSE published
           chans == get_channel(l.users[u].us, "www")
           c == CHOOSE x \in chans : TRUE
           n == IF <<u, c>> \in Klapped THEN send_syspriv_msg(g, u) ELSE g
           p == [n EXCEPT !.screen[u].served = TRUE,
                          !.screen[u].shown = @ \cup get_n_messages(n, c, u)]
<1>1. on_CHAT_MESSAGES2(s, e) \in {g, n, p}
  BY DEF on_CHAT_MESSAGES2
<1> HIDE DEF u, chans
<1>2. Fine(l)
  BY WithClientKeeps
<1> HIDE DEF l
<1>3. Fine(published)
  BY <1>2 DEF Fine, Shaped, Found, Shown
<1> HIDE DEF published
<1>4. Fine(g)
  BY <1>2, <1>3
<1> HIDE DEF g, c
<1>5. Fine(n)
  BY <1>4, NoticeKeeps
<1> HIDE DEF n
<1>6. Fine(p)
  BY <1>5, ReloadShows, PageKeeps
<1> HIDE DEF p
<1> QED
  BY <1>1, <1>4, <1>5, <1>6

LEMMA StatusKeeps ==
  ASSUME NEW s, Fine(s), NEW e
  PROVE  Fine(on_SET_STATUS(s, e))
<1> DEFINE old == s.users[e.u]
           r == [old EXCEPT !.vis = e.vis]
           chans == export_channels(old.us)
           set == [s EXCEPT !.users[e.u].vis = e.vis,
                            !.global[e.u] = [us |-> old.us, vis |-> e.vis]]
           kind == IF e.vis THEN "GREETING" ELSE "QUIT"
<1>1. on_SET_STATUS(s, e) \in {s, set, announce(set, kind, e.u, chans)}
  BY DEF on_SET_STATUS
<1> HIDE DEF chans, kind
<1>2. e.u \in Uid => /\ DOMAIN r = {"loaded", "us", "vis", "voice"}
                     /\ r.loaded = old.loaded
  BY DEF Fine, Shaped
<1>3. /\ DOMAIN set = DOMAIN s /\ set.nicks = s.nicks /\ set.screen = s.screen
      /\ set.kicked = s.kicked /\ set.users = [s.users EXCEPT ![e.u] = r]
  BY DEF Fine, Shaped
<1> HIDE DEF r, set
<1>4. Fine(set)
  BY <1>2, <1>3, UserKeeps
<1> QED
  BY <1>1, <1>4, AnnounceKeeps

LEMMA PartingKeeps ==
  ASSUME NEW s, Fine(s), NEW e
  PROVE  Fine(on_PART_CHANNEL(s, e))
<1> DEFINE old == s.users[e.u]
           us == part_channels(old.us, e.chans, e.ct)
           r == [old EXCEPT !.us = us]
           set == [s EXCEPT !.users[e.u].us = us, !.global[e.u] = [us |-> us, vis |-> old.vis]]
<1>1. on_PART_CHANNEL(s, e) \in {set, announce(set, "QUIT", e.u, Leaves(old.us, e.chans, e.ct))}
  BY DEF on_PART_CHANNEL
<1> HIDE DEF us
<1>2. e.u \in Uid => /\ DOMAIN r = {"loaded", "us", "vis", "voice"}
                     /\ r.loaded = old.loaded
  BY DEF Fine, Shaped
<1>3. /\ DOMAIN set = DOMAIN s /\ set.nicks = s.nicks /\ set.screen = s.screen
      /\ set.kicked = s.kicked /\ set.users = [s.users EXCEPT ![e.u] = r]
  BY DEF Fine, Shaped
<1> HIDE DEF r, set
<1>4. Fine(set)
  BY <1>2, <1>3, UserKeeps
<1> QED
  BY <1>1, <1>4, AnnounceKeeps

\* What is put in the place of a user who goes.
LEMMA FreshRecords ==
  /\ DOMAIN Stranger = {"loaded", "us", "vis", "voice"} /\ Stranger.loaded = FALSE
  /\ DOMAIN NoNick = {"entry", "vis"}
  /\ DOMAIN NewPage = {"socket", "served", "shown"}
  BY DEF Stranger, NoNick, NewPage

LEMMA KickedKeeps ==
  ASSUME NEW s, Fine(s), NEW e
  PROVE  Fine(on_KICK_USER(s, e))
<1> DEFINE u == e.u
           old == s.users[u]
           said == IF old.vis THEN announce(s, "KICK", u, export_channels(old.us)) ELSE s
           t == on_KICK_USER(s, e)
<1>1. Fine(said)
  BY AnnounceKeeps
<1>2. said.nicks = s.nicks /\ said.users = s.users
  BY DEF announce, Fine, Shaped
<1>3. t = [said EXCEPT !.users[u] = Stranger,
               !.nicks[u] = IF @.entry = "object" THEN [entry |-> "orphan", vis |-> old.vis] ELSE @,
               !.global[u] = NoState,
               !.clients = @ \ {u},
               !.sessions = @ \ {u},
               !.screen[u] = NewPage,
               !.kicked = @ \cup {u}]
  BY DEF on_KICK_USER
<1> HIDE DEF said, t
<1>4. /\ DOMAIN t = DOMAIN said /\ t.kicked = said.kicked \cup {u}
      /\ t.users = [said.users EXCEPT ![u] = Stranger]
      /\ t.nicks = [said.nicks EXCEPT ![u] =
                      IF @.entry = "object" THEN [entry |-> "orphan", vis |-> old.vis] ELSE @]
      /\ t.screen = [said.screen EXCEPT ![u] = NewPage]
  BY <1>1, <1>3 DEF Fine, Shaped
<1>5. Shaped(t)
  BY <1>1, <1>4, FreshRecords DEF Fine, Shaped
<1>6. Found(t)
  BY <1>1, <1>4 DEF Fine, Shaped, Found
<1>7. Shown(t)
  BY <1>1, <1>4 DEF Fine, Shaped, Shown, NewPage
<1> QED
  BY <1>5, <1>6, <1>7 DEF Fine, t

LEMMA UnloadKeeps ==
  ASSUME NEW s, Fine(s), NEW e
  PROVE  Fine(unload_user(s, e))
<1> DEFINE u == e.u
           loose == IF InSomeChannel(s.users[u].us) THEN s.loose \cup {u} ELSE s.loose
           t == [s EXCEPT !.users[u] = Stranger, !.nicks[u] = NicksAfter(s, u),
                          !.global[u] = NoState, !.loose = loose]
<1>1. unload_user(s, e) \in {s, t}
  BY DEF unload_user
<1> HIDE DEF loose
<1>2. /\ DOMAIN t = DOMAIN s /\ t.kicked = s.kicked /\ t.screen = s.screen
      /\ t.users = [s.users EXCEPT ![u] = Stranger]
      /\ t.nicks = [s.nicks EXCEPT ![u] = NoNick]
  BY DEF Fine, Shaped, NicksAfter
<1> HIDE DEF t
<1>3. Shaped(t)
  BY <1>2, FreshRecords DEF Fine, Shaped
<1>4. Found(t)
  BY <1>2 DEF Fine, Shaped, Found, Stranger, NoNick
<1>5. Shown(t)
  BY <1>2 DEF Fine, Shown
<1> QED
  BY <1>1, <1>3, <1>4, <1>5 DEF Fine

LEMMA SetStateKeeps ==
  ASSUME NEW s, Fine(s), NEW e
  PROVE  Fine(on_SET_user_state(s, e))
<1> DEFINE l == get_user_p(s, e.u)
<1>1. Fine(l)
  BY GetUserKeeps
<1>2. on_SET_user_state(s, e) \in
        {on_JOIN_fix_lists(l, e), on_SET_STATUS(l, e), on_PART_CHANNEL(l, e), on_KICK_USER(l, e), l}
  BY DEF on_SET_user_state
<1> HIDE DEF l
<1> QED
  BY <1>1, <1>2, JoinKeeps, StatusKeeps, PartingKeeps, KickedKeeps

LEMMA TellKeeps ==
  ASSUME NEW s, Fine(s), NEW kind \in {"MODE", "CHTOPIC"}, NEW c
  PROVE  Fine(tell(s, kind, c))
<1> DEFINE e == Message(s, kind, c, "nobody", "nobody")
<1>1. \A u : ForUser(e, u)
  BY DEF Message, ForUser, is_ignored, Private, Ignorable
<1> HIDE DEF e
<1> QED
  BY <1>1, SayKeeps DEF tell, e

LEMMA ModeKeeps ==
  ASSUME NEW s, Fine(s), NEW e
  PROVE  Fine(on_CHMODE(s, e))
<1> DEFINE l == get_user_p(s, e.u)
           j == [l EXCEPT !.moderated = IF e.ch \in @ THEN @ \ {e.ch} ELSE @ \cup {e.ch}]
<1>1. Fine(l)
  BY GetUserKeeps
<1> HIDE DEF l
<1>2. Fine(j)
  BY <1>1 DEF Fine, Shaped, Found, Shown
<1> HIDE DEF j
<1> QED
  BY <1>2, TellKeeps DEF on_CHMODE, l, j

LEMMA TopicKeeps ==
  ASSUME NEW s, Fine(s), NEW e
  PROVE  Fine(on_CHTOPIC(s, e))
<1> DEFINE l == get_user_p(s, e.u)
<1>1. Fine(l)
  BY GetUserKeeps
<1>2. on_CHTOPIC(s, e) \in
        {send_syspriv_msg(send_syspriv_msg(l, e.u), e.u), tell(l, "CHTOPIC", e.ch)}
  BY DEF on_CHTOPIC
<1> HIDE DEF l
<1> QED
  BY <1>1, <1>2, NoticeKeeps, TellKeeps

LEMMA VoiceKeeps ==
  ASSUME NEW s, Fine(s), NEW e
  PROVE  Fine(on_CHVOICE(s, e))
<1> DEFINE l == get_user_p(s, e.u)
           z == e.to
           voice == IF e.ch \in l.users[z].voice THEN l.users[z].voice \ {e.ch}
                    ELSE l.users[z].voice \cup {e.ch}
           r == [l.users[z] EXCEPT !.voice = voice]
           given == [l EXCEPT !.users[z].voice = voice,
                         !.global[e.u] = [us |-> l.users[z].us, vis |-> l.users[z].vis],
                         !.loose = IF z # e.u THEN @ \cup {e.u} ELSE @]
<1>1. Fine(l)
  BY GetUserKeeps
<1>2. on_CHVOICE(s, e) \in {send_syspriv_msg(l, e.u), tell(given, "MODE", e.ch)}
  BY DEF on_CHVOICE
<1> HIDE DEF l, voice
<1>3. z \in Uid => /\ DOMAIN r = {"loaded", "us", "vis", "voice"}
                   /\ r.loaded = l.users[z].loaded
  BY <1>1 DEF Fine, Shaped
<1>4. /\ DOMAIN given = DOMAIN l /\ given.nicks = l.nicks /\ given.screen = l.screen
      /\ given.kicked = l.kicked /\ given.users = [l.users EXCEPT ![z] = r]
  BY <1>1 DEF Fine, Shaped
<1> HIDE DEF r, given, z
<1>5. Fine(given)
  BY <1>1, <1>3, <1>4, UserKeeps
<1> QED
  BY <1>1, <1>2, <1>5, NoticeKeeps, TellKeeps

\* The writer is shown the message whatever the ignore lists say: nobody
\* ignores themselves (url_ignore_user).
LEMMA SaidKeeps ==
  ASSUME NEW s, Fine(s), NEW e, e.kind \in Written \cup {"MAT"}
  PROVE  Fine(say(s, e))
<1>1. ASSUME NEW u \in Hears(s, e) \cap Uid
      PROVE  ForUser(e, u)
  <2>1. <<u, e.from>> \notin Ignores
    BY MessagesAssumption DEF Hears
  <2> QED
    BY <2>1 DEF ForUser, is_ignored, Written, Private
<1> QED
  BY <1>1, SayKeeps DEF say

LEMMA ToChannelKeeps ==
  ASSUME NEW s, Fine(s), NEW e
  PROVE  Fine(send_message_to_channel(s, e))
<1> DEFINE u == e.u
           kind == KindOf(u, e.kind)
           foul == e.text = "foul" /\ e.ch \in DOMAIN Filtered
           moved == Filtered[e.ch] \in Channel
           c == IF foul /\ moved THEN Filtered[e.ch] ELSE e.ch
           published == [s EXCEPT !.global[u] = [us |-> s.users[u].us, vis |-> s.users[u].vis]]
           there == IF foul /\ moved /\ channel_us_count_usr(s.users[u].us, c, "www")
                    THEN published ELSE s
           mat == Message(s, "MAT", e.ch, "nobody", "nobody")
           msg == Message(there, kind, c, u, "nobody")
<1>1. send_message_to_channel(s, e) \in {s, send_syspriv_msg(s, u), say(s, mat), say(there, msg)}
  BY DEF send_message_to_channel
<1>2. mat.kind = "MAT" /\ msg.kind \in Written
  BY DEF Message, KindOf, Written
<1> HIDE DEF kind, foul, moved, c, mat, msg
<1>3. Fine(published)
  BY DEF Fine, Shaped, Found, Shown
<1> HIDE DEF published
<1>4. Fine(there)
  BY <1>3
<1> HIDE DEF there
<1> QED
  BY <1>1, <1>2, <1>4, SaidKeeps, NoticeKeeps

\* A private message on the pages of the two it is between.
LEMMA CopyKeeps ==
  ASSUME NEW s, Fine(s), NEW u, NEW z, NEW kind \in {"PRIV", "SYSPRIV"}, NEW c, NEW us,
         \A v \in us : v = u \/ (v = z /\ (kind = "PRIV" => <<z, u>> \notin Ignores))
  PROVE  LET e == Message(s, kind, c, u, z) IN
         Fine(data_push_back_www(save_chat_msg(s, e), us, e))
<1> DEFINE e == Message(s, kind, c, u, z)
<1>1. e.kind = kind /\ e.from = u /\ e.to = z
  BY DEF Message
<1> HIDE DEF e
<1>2. ASSUME NEW v \in us \cap Uid
      PROVE  ForUser(e, v)
  <2>1. kind = "PRIV" => <<v, u>> \notin Ignores
    BY MessagesAssumption
  <2> QED
    BY <1>1, <2>1 DEF ForUser, is_ignored, Ignorable
<1>3. Fine(data_push_back_www(save_chat_msg(s, e), us, e))
  BY <1>2, SayKeeps
<1> QED
  BY <1>3 DEF e

LEMMA PrivKeeps ==
  ASSUME NEW s, Fine(s), NEW u, NEW z, NEW kind \in {"PRIV", "SYSPRIV"}, NEW text
  PROVE  Fine(send_message_priv(s, u, z, kind, text))
<1> DEFINE usc == get_channel(s.users[u].us, "www")
           zsc == export_channels(s.users[z].us)
           readers == IF Reads(s, u, z, kind) THEN {z} ELSE {}
           copy(r, c, who) == LET e == Message(r, kind, c, u, z) IN
                              data_push_back_www(save_chat_msg(r, e), who \cap r.sessions, e)
           own == IF usc = {} THEN s ELSE copy(s, First(usc), {u})
<1>1. send_message_priv(s, u, z, kind, text) \in
        {s, copy(s, First(usc), {u} \cup readers), own, copy(own, First(zsc), readers)}
  BY DEF send_message_priv
<1>2. ASSUME NEW r, Fine(r), NEW c, NEW who \in SUBSET ({u} \cup readers)
      PROVE  Fine(copy(r, c, who))
  <2>1. \A v \in who \cap r.sessions : v = u \/ (v = z /\ (kind = "PRIV" => <<z, u>> \notin Ignores))
    BY DEF Reads
  <2> HIDE DEF readers
  <2> QED
    BY <1>2, <2>1, CopyKeeps
<1> HIDE DEF copy, readers, usc, zsc
<1>3. Fine(copy(s, First(usc), {u} \cup readers)) /\ Fine(own)
  BY <1>2
<1> HIDE DEF own
<1>4. Fine(copy(own, First(zsc), readers))
  BY <1>2, <1>3
<1> QED
  BY <1>1, <1>3, <1>4

LEMMA SendKeeps ==
  ASSUME NEW s, Fine(s), NEW e
  PROVE  Fine(on_SEND_MESSAGE(s, e))
<1> DEFINE l == get_user_p(s, e.u)
           j == get_user_p(l, e.to)
           kind == IF KindOf(e.u, e.kind) = "SYS" THEN "SYSPRIV" ELSE "PRIV"
<1>1. Fine(l)
  BY GetUserKeeps
<1>2. on_SEND_MESSAGE(s, e) \in
        {l, send_syspriv_msg(l, e.u), send_message_to_channel(l, e),
         send_message_priv(j, e.u, e.to, kind, e.text)}
  BY DEF on_SEND_MESSAGE
<1>3. kind \in {"PRIV", "SYSPRIV"}
  OBVIOUS
<1> HIDE DEF l, kind
<1>4. Fine(j)
  BY <1>1, GetUserKeeps
<1> HIDE DEF j
<1> QED
  BY <1>1, <1>2, <1>3, <1>4, NoticeKeeps, ToChannelKeeps, PrivKeeps

LEMMA InviteKeeps ==
  ASSUME NEW s, Fine(s), NEW e
  PROVE  Fine(on_INVITE(s, e))
<1> DEFINE l == get_user_p(get_user_p(s, e.u), e.to)
           sc == get_channel(l.users[e.u].us, "www")
           msg == Message(l, "INVITE", CHOOSE c \in sc : TRUE, e.u, e.to)
           told == data_push_back_www(save_chat_msg(l, msg), {e.to} \cap l.sessions, msg)
<1>1. Fine(l)
  BY GetUserKeeps
<1>2. on_INVITE(s, e) = l \/ ( <<e.to, e.u>> \notin Ignores /\ on_INVITE(s, e) = send_syspriv_msg(told, e.u))
  BY DEF on_INVITE
<1>3. msg.kind = "INVITE" /\ msg.from = e.u /\ msg.to = e.to
  BY DEF Message
<1> HIDE DEF l, msg
<1>4. ASSUME <<e.to, e.u>> \notin Ignores
      PROVE  Fine(told)
  <2>1. \A v \in ({e.to} \cap l.sessions) \cap Uid : ForUser(msg, v)
    BY <1>3, <1>4 DEF ForUser, is_ignored
  <2> QED
    BY <1>1, <2>1, SayKeeps
<1> HIDE DEF told
<1> QED
  BY <1>1, <1>2, <1>4, NoticeKeeps

\* Any event, whatever its fields.
LEMMA EventKeeps ==
  ASSUME NEW s, Fine(s), NEW e
  PROVE  Fine(on_event(s, e))
<1>1. on_event(s, e) \in
        {on_common_JOIN(s, e), on_CHROOM(s, e), on_CHAT_MESSAGES2(s, e), on_SEND_MESSAGE(s, e),
         on_INVITE(s, e), on_CHMODE(s, e), on_CHVOICE(s, e), on_CHTOPIC(s, e),
         unload_user(s, e), on_SET_user_state(s, e)}
  BY DEF on_event
<1> QED
  BY <1>1, CommonJoinKeeps, ChroomKeeps, MessagesKeep, SendKeeps, InviteKeeps, ModeKeeps,
     VoiceKeeps, TopicKeeps, UnloadKeeps, SetStateKeeps

FineNow == Fine(m)

LEMMA StartsFine ==
  ASSUME NEW homes \in [Uid -> Nat], MessagesInit(homes)
  PROVE  FineNow
<1> DEFINE members == {u \in Uid : homes[u] \in Channel}
           greeted == {[id |-> 0, kind |-> "GREETING", ch |-> homes[u],
                        from |-> u, to |-> "nobody"] : u \in members}
           us(u) == [c \in Channel |-> IF c = homes[u] THEN {"www"} ELSE {}]
           users == [u \in Uid |-> IF u \in members
                       THEN [Stranger EXCEPT !.loaded = TRUE, !.us = us(u)] ELSE Stranger]
           nicks == [u \in Uid |-> IF u \in members
                       THEN [NoNick EXCEPT !.entry = "object"] ELSE NoNick]
           screen == [u \in Uid |-> IF u \in members
                       THEN [socket |-> TRUE, served |-> TRUE,
                             shown |-> {e \in greeted : e.ch = homes[u]}] ELSE NewPage]
           global == [u \in Uid |-> [us |-> us(u), vis |-> TRUE]]
<1>1. m = [users |-> users, nicks |-> nicks, global |-> global, clients |-> members,
           moderated |-> {}, history |-> greeted, pending |-> << >>, sessions |-> Uid,
           screen |-> screen, external |-> {}, said |-> 0, loose |-> {}, kicked |-> {}]
  BY DEF MessagesInit
<1>2. \A e \in greeted : e.kind = "GREETING"
  OBVIOUS
<1> HIDE DEF greeted, us, global, members
<1>3. ASSUME NEW u \in Uid
      PROVE  /\ DOMAIN users[u] = {"loaded", "us", "vis", "voice"}
             /\ (users[u].loaded = TRUE) <=> u \in members
             /\ users[u].loaded \in BOOLEAN
  <2>1. CASE u \in members
    BY <2>1 DEF Stranger
  <2>2. CASE u \notin members
    BY <2>2 DEF Stranger
  <2> QED
    BY <2>1, <2>2
<1>4. \A u \in Uid : /\ DOMAIN nicks[u] = {"entry", "vis"}
                     /\ nicks[u].entry = IF u \in members THEN "object" ELSE "none"
  BY DEF NoNick
<1>5. \A u \in Uid : /\ DOMAIN screen[u] = {"socket", "served", "shown"}
                     /\ screen[u].shown \subseteq greeted
  BY DEF NewPage
<1>6. DOMAIN users = Uid /\ DOMAIN nicks = Uid /\ DOMAIN screen = Uid
  OBVIOUS
<1> HIDE DEF users, nicks, screen
<1>7. Shaped(m)
  BY <1>1, <1>3, <1>4, <1>5, <1>6 DEF Shaped
<1>8. Found(m)
  BY <1>1, <1>3, <1>4 DEF Found
<1>9. Shown(m)
  BY <1>1, <1>2, <1>5 DEF Shown, ForUser, is_ignored, Private, Ignorable
<1> QED
  BY <1>7, <1>8, <1>9 DEF FineNow, Fine

\* The session's page, renewed or told its socket.
LEMMA PageRenewed ==
  ASSUME NEW s, Fine(s), NEW u
  PROVE  /\ Fine([s EXCEPT !.screen[u] = NewPage])
         /\ \A b : Fine([s EXCEPT !.screen[u].socket = b])
<1>1. ASSUME NEW page, u \in Uid => /\ DOMAIN page = {"socket", "served", "shown"}
                                    /\ page.shown \subseteq s.screen[u].shown
      PROVE  Fine([s EXCEPT !.screen[u] = page])
  <2> DEFINE t == [s EXCEPT !.screen[u] = page]
  <2>1. /\ DOMAIN t = DOMAIN s /\ t.users = s.users /\ t.nicks = s.nicks /\ t.kicked = s.kicked
        /\ t.screen = [s.screen EXCEPT ![u] = page]
    BY DEF Fine, Shaped
  <2> HIDE DEF t
  <2>2. Shaped(t)
    BY <1>1, <2>1 DEF Fine, Shaped
  <2>3. Found(t)
    BY <2>1 DEF Fine, Found
  <2>4. Shown(t)
    BY <1>1, <2>1 DEF Fine, Shaped, Shown
  <2> QED
    BY <2>2, <2>3, <2>4 DEF Fine, t
<1>2. Fine([s EXCEPT !.screen[u] = NewPage])
  BY <1>1 DEF NewPage
<1>3. ASSUME NEW b
      PROVE  Fine([s EXCEPT !.screen[u].socket = b])
  <2> DEFINE page == [s.screen[u] EXCEPT !.socket = b]
  <2>1. u \in Uid => /\ DOMAIN page = {"socket", "served", "shown"}
                     /\ page.shown \subseteq s.screen[u].shown
    BY DEF Fine, Shaped
  <2>2. [s EXCEPT !.screen[u].socket = b] = [s EXCEPT !.screen[u] = page]
    OBVIOUS
  <2> HIDE DEF page
  <2> QED
    BY <1>1, <2>1, <2>2
<1> QED
  BY <1>2, <1>3

\* Every step of the chat thread and of the requests.
LEMMA FineStep ==
  ASSUME FineNow, [MessagesNext]_messagesVars
  PROVE  FineNow'
<1> USE DEF FineNow
<1> SUFFICES Fine(m')
  OBVIOUS
<1>0. ASSUME NEW t, DOMAIN t = DOMAIN m, t.users = m.users, t.nicks = m.nicks,
             t.screen = m.screen, t.kicked = m.kicked
      PROVE  Fine(t)
  BY <1>0, ElsewhereKeeps
<1>1. CASE UNCHANGED messagesVars
  BY <1>1 DEF messagesVars
<1>2. CASE copy_external \/ extract_all
  BY <1>2 DEF copy_external, extract_all
<1>3. CASE clear_external
  <2>1. m' = [m EXCEPT !.external = {}, !.history = Merged(m, m_chat.copied)]
    BY <1>3 DEF clear_external
  <2> QED
    BY <2>1, <1>0 DEF Fine, Shaped
<1>4. CASE handle_event
  BY <1>4, EventKeeps DEF handle_event
<1>5. CASE handle_room_event_messages
  <2> DEFINE said == {[id |-> m.said + Place(m.pending, i), kind |-> m.pending[i].kind,
                       ch |-> m.pending[i].ch, from |-> m.pending[i].u, to |-> "nobody"] :
                         i \in Announcing(m.pending)}
             shown(u) == {e \in said : u \in ClientsIn(m, e.ch)}
             screen == [u \in Uid |-> Pushed(m.screen[u], shown(u))]
             t == [m EXCEPT !.history = @ \cup said, !.said = @ + Cardinality(said),
                            !.pending = << >>, !.screen = screen]
  <2>1. m' \in {m, t}
    BY <1>5 DEF handle_room_event_messages
  <2>2. \A e \in said : e.kind \in Announced
    BY DEF Announcing
  <2> HIDE DEF said
  <2>3. ASSUME NEW u \in Uid
        PROVE  /\ DOMAIN screen[u] = {"socket", "served", "shown"}
               /\ screen[u].shown \subseteq m.screen[u].shown \cup said
    <3>1. DOMAIN m.screen[u] = {"socket", "served", "shown"}
      BY DEF Fine, Shaped
    <3>2. screen[u] = Pushed(m.screen[u], shown(u)) /\ shown(u) \subseteq said
      OBVIOUS
    <3> HIDE DEF screen, shown
    <3> QED
      BY <3>1, <3>2, PagePushed
  <2>4. DOMAIN screen = Uid
    OBVIOUS
  <2> HIDE DEF screen
  <2>5. /\ DOMAIN t = DOMAIN m /\ t.screen = screen
        /\ t.users = m.users /\ t.nicks = m.nicks /\ t.kicked = m.kicked
    BY DEF Fine, Shaped
  <2> HIDE DEF t
  <2>6. Shaped(t)
    BY <2>3, <2>4, <2>5 DEF Fine, Shaped
  <2>7. Found(t)
    BY <2>5 DEF Fine, Found
  <2>8. Shown(t)
    BY <2>2, <2>3, <2>5 DEF Fine, Shown, ForUser, is_ignored, Announced, Partings, Private, Ignorable
  <2> QED
    BY <2>1, <2>6, <2>7, <2>8 DEF Fine
<1>6. ASSUME NEW t \in RequestThread, RequestSteps(t)
      PROVE  Fine(m')
  <2> DEFINE u == Call(t).u
  <2>1. CASE send_chat_event_push_back(t) \/ check_for_channel_cleanup(t)
    BY <2>1 DEF send_chat_event_push_back, check_for_channel_cleanup
  <2>2. CASE write_global_state(t)
    <3>1. /\ DOMAIN m' = DOMAIN m /\ m'.users = m.users /\ m'.nicks = m.nicks
          /\ m'.screen = m.screen /\ m'.kicked = m.kicked
      BY <2>2 DEF write_global_state, Fine, Shaped
    <3> QED
      BY <3>1, <1>0
  <2>3. CASE write_session(t)
    <3>1. \/ m' = [m EXCEPT !.screen[u].socket = u \in m.sessions]
          \/ m' = [m EXCEPT !.sessions = @ \cup {u}]
          \/ m' = [m EXCEPT !.sessions = @ \ {u}]
      BY <2>3 DEF write_session
    <3>2. CASE m' = [m EXCEPT !.screen[u].socket = u \in m.sessions]
      BY <3>2, PageRenewed
    <3>3. CASE m' = [m EXCEPT !.sessions = @ \cup {u}] \/ m' = [m EXCEPT !.sessions = @ \ {u}]
      BY <3>3, <1>0 DEF Fine, Shaped
    <3> QED
      BY <3>1, <3>2, <3>3
  <2>4. CASE show_notice(t)
    <3> DEFINE e == NoticeTo(m, u)
               pushed == data_push_back_www(m, {u}, e)
    <3>1. m' \in {m, [pushed EXCEPT !.said = e.id]}
      BY <2>4 DEF show_notice
    <3>2. ForUser(e, u)
      BY DEF NoticeTo, Message, ForUser, is_ignored, Ignorable
    <3> HIDE DEF e, u
    <3>3. Fine(pushed)
      BY <3>2, PushKeeps
    <3> HIDE DEF pushed
    <3>4. Fine([pushed EXCEPT !.said = e.id])
      BY <3>3 DEF Fine, Shaped, Found, Shown
    <3> QED
      BY <3>1, <3>4
  <2>5. CASE push_external(t)
    <3>1. m' = [m EXCEPT !.external = @ \cup {Call(t).msg}]
      BY <2>5 DEF push_external
    <3> QED
      BY <3>1, <1>0 DEF Fine, Shaped
  <2> QED
    BY <1>6, <2>1, <2>2, <2>3, <2>4, <2>5 DEF RequestSteps
<1>7. ASSUME NEW t \in RequestThread, NEW u \in Uid, NEW steps, NEW mixes, Begin(t, u, steps, mixes)
      PROVE  Fine(m')
  <2>1. m' = [m EXCEPT !.loose = IF Unsettled(u) \/ mixes THEN @ \cup {u} ELSE @]
    BY <1>7 DEF Begin
  <2> QED
    BY <2>1, <1>0 DEF Fine, Shaped
<1>8. ASSUME NEW t \in RequestThread, NEW u \in Uid, NEW c, NEW vis, url_chat_messages2(t, u, c, vis)
      PROVE  Fine(m')
  <2> DEFINE paged == [m EXCEPT !.screen[u] = NewPage]
             loose == IF Unsettled(u) \/ get_channel(m.global[u].us, "irc") # {}
                      THEN m.loose \cup {u} ELSE m.loose
  <2>1. m' = [m EXCEPT !.screen[u] = NewPage, !.loose = loose]
    BY <1>8 DEF url_chat_messages2
  <2>2. Fine(paged)
    BY PageRenewed
  <2> HIDE DEF loose
  <2>3. /\ DOMAIN m' = DOMAIN paged /\ m'.users = paged.users /\ m'.nicks = paged.nicks
        /\ m'.screen = paged.screen /\ m'.kicked = paged.kicked
    BY <2>1 DEF Fine, Shaped
  <2> QED
    BY <2>2, <2>3, ElsewhereKeeps
<1>9. ASSUME NEW t \in RequestThread, Requests(t)
      PROVE  Fine(m')
  <2>1. PICK u \in Uid, z \in Uid, c \in Channel :
          \/ \E vis \in BOOLEAN : url_chat_messages2(t, u, c, vis) \/ us_SET_STATUS(t, u, vis)
          \/ irc_cmd_JOIN(t, u, c) \/ part(t, u, "irc", {c}) \/ part(t, u, "www", {})
          \/ expire(t, u) \/ kick_user(t, u) \/ create_reg_user(t, u) \/ notice(t, u)
          \/ \E to, kind, text : url_chat_sendmessage(t, u, to, kind, text)
          \/ irc_cmd_PRIVMSG(t, u, "nobody", c) \/ irc_cmd_PRIVMSG(t, u, z, c)
          \/ \E declined \in BOOLEAN : url_invite(t, u, z, declined)
          \/ url_set_topic(t, u) \/ channel_mode(t, u, c) \/ channel_voice(t, u, z, c)
    BY <1>9 DEF Requests
  <2>2. CASE \E vis \in BOOLEAN : url_chat_messages2(t, u, c, vis) \/ us_SET_STATUS(t, u, vis)
    BY <1>7, <1>8, <2>2 DEF us_SET_STATUS
  <2>3. CASE irc_cmd_JOIN(t, u, c) \/ part(t, u, "irc", {c}) \/ part(t, u, "www", {})
    BY <1>7, <2>3 DEF irc_cmd_JOIN, part
  <2>4. CASE expire(t, u) \/ kick_user(t, u) \/ create_reg_user(t, u) \/ notice(t, u)
    BY <1>7, <2>4 DEF expire, kick_user, create_reg_user, notice
  <2>5. CASE \E to, kind, text : url_chat_sendmessage(t, u, to, kind, text)
    BY <1>7, <2>5 DEF url_chat_sendmessage
  <2>6. CASE irc_cmd_PRIVMSG(t, u, "nobody", c) \/ irc_cmd_PRIVMSG(t, u, z, c)
    BY <1>7, <2>6 DEF irc_cmd_PRIVMSG
  <2>7. CASE \/ \E declined \in BOOLEAN : url_invite(t, u, z, declined)
             \/ url_set_topic(t, u) \/ channel_mode(t, u, c) \/ channel_voice(t, u, z, c)
    BY <1>7, <2>7 DEF url_invite, url_set_topic, channel_mode, channel_voice
  <2> QED
    BY <2>1, <2>2, <2>3, <2>4, <2>5, <2>6, <2>7
<1> QED
  BY <1>1, <1>2, <1>3, <1>4, <1>5, <1>6, <1>9 DEF MessagesNext, ChatSteps

\* The inductive invariant of the next two theorems, for any users, channels,
\* ignore lists, klaps, requests and order of steps.
THEOREM MessagesInvariant == MessagesSpec => []FineNow
<1>1. (\E homes \in [Uid -> Nat] : MessagesInit(homes)) => FineNow
  BY StartsFine
<1>2. FineNow /\ [MessagesNext]_messagesVars => FineNow'
  BY FineStep
<1> QED
  BY <1>1, <1>2, PTL DEF MessagesSpec

\* find_nick leads to the user's present object, and for one who is not loaded
\* to none: unload_user and get_user_p keep the nicks and the users together,
\* but for users who were kicked.
THEOREM NicksLeadToUsers == MessagesSpec => []NickFindsItsUser
<1>1. FineNow => NickFindsItsUser
  BY DEF FineNow, Fine, Shaped, Found, NickFindsItsUser
<1> QED
  BY <1>1, MessagesInvariant, PTL

\* Private messages are on the pages of the two they are between, and nobody is
\* shown what an ignored user writes, whether pushed to the page or loaded.
THEOREM PrivateStaysPrivate == MessagesSpec => []OnlyForThem
<1>1. FineNow => OnlyForThem
  BY DEF FineNow, Fine, Shown, ForUser, OnlyForThem
<1> QED
  BY <1>1, MessagesInvariant, PTL
-----------------------------------------------------------------------------
(* Messages: the announcements of who comes and goes.                     *)

\* The announcements of u on c of the kinds K: those made, and those to come.
Made(s, K, u, c) == {e \in s.history : e.kind \in K /\ e.from = u /\ e.ch = c}
ToMake(s, K, u, c) ==
  {i \in DOMAIN s.pending : s.pending[i].kind \in K /\ s.pending[i].u = u /\ s.pending[i].ch = c}
Told(s, K, u, c) == Cardinality(Made(s, K, u, c)) + Cardinality(ToMake(s, K, u, c))

\* How often u was announced on c and not taken leave of.
Present(s, u, c) == Told(s, {"GREETING"}, u, c) - Told(s, Partings, u, c)

Seen(s, u, c) == s.users[u].us[c] # {} /\ s.users[u].vis

\* What the counting rests on: announcements are numbered as they are made, and
\* a user is on finitely many channels, one who is not loaded on none.
Counted(s) ==
  /\ s.said \in Nat
  /\ s.pending \in Seq([kind : Announced, u : Uid, ch : Channel])
  /\ \A e \in s.history : e.kind \in Announced => e.id \in 0..s.said
  /\ \A u \in Uid, c \in Channel : IsFiniteSet(Made(s, Announced, u, c))
  /\ \A e \in s.external : e.kind \notin Announced
  /\ DOMAIN s.global = Uid
  /\ \A u \in Uid :
       /\ s.users[u].us \in ChannelUs /\ s.users[u].vis \in BOOLEAN
       /\ s.users[u].loaded = FALSE => s.users[u].us = NoChannels /\ s.users[u].vis = TRUE
       /\ IsFiniteSet(export_channels(s.users[u].us))
       /\ DOMAIN s.global[u] = {"us", "vis"}

Sound(s) == Fine(s) /\ Counted(s)

\* The state of a user as global_state has it when it agrees with the chat thread.
StateOf(s, u) == [us |-> s.users[u].us, vis |-> s.users[u].vis]

\* t differs from s in nothing that announcements are about.
Quiet(s, t) ==
  /\ t.pending = s.pending
  /\ \A e : e.kind \in Announced => (e \in t.history <=> e \in s.history)
  /\ t.said \in Nat /\ t.said >= s.said
  /\ \A e \in t.external : e \in s.external \/ e.kind \notin Announced
  /\ s.loose \subseteq t.loose
  /\ DOMAIN t.global = Uid
  /\ \A w \in Uid :
       /\ t.users[w].us = s.users[w].us /\ t.users[w].vis = s.users[w].vis
       /\ t.users[w].loaded = FALSE => s.users[w].loaded = FALSE
       /\ w \notin t.loose => t.global[w] \in {s.global[w], StateOf(s, w)}
       /\ DOMAIN t.global[w] = {"us", "vis"}

\* Announcements are the same when those of the history and of the queue are.
LEMMA SameTold ==
  ASSUME NEW s, NEW t, t.pending = s.pending,
         \A e : e.kind \in Announced => (e \in t.history <=> e \in s.history),
         NEW K \in SUBSET Announced, NEW u, NEW c
  PROVE  /\ Made(t, K, u, c) = Made(s, K, u, c) /\ ToMake(t, K, u, c) = ToMake(s, K, u, c)
         /\ Told(t, K, u, c) = Told(s, K, u, c)
<1>1. Made(t, K, u, c) = Made(s, K, u, c)
  BY DEF Made
<1>2. ToMake(t, K, u, c) = ToMake(s, K, u, c)
  BY DEF ToMake
<1> QED
  BY <1>1, <1>2 DEF Told

LEMMA KindsAre == {"GREETING"} \in SUBSET Announced /\ Partings \in SUBSET Announced /\ Announced \in SUBSET Announced
  BY DEF Announced, Partings

\* Nobody's announcements change in a quiet step.
LEMMA QuietTold ==
  ASSUME NEW s, NEW t, Quiet(s, t), NEW u \in Uid, NEW c
  PROVE  Present(t, u, c) = Present(s, u, c) /\ Seen(t, u, c) = Seen(s, u, c)
<1>1. /\ t.pending = s.pending /\ \A e : e.kind \in Announced => (e \in t.history <=> e \in s.history)
      /\ t.users[u].us = s.users[u].us /\ t.users[u].vis = s.users[u].vis
  BY DEF Quiet
<1>2. Told(t, {"GREETING"}, u, c) = Told(s, {"GREETING"}, u, c) /\ Told(t, Partings, u, c) = Told(s, Partings, u, c)
  BY <1>1, SameTold, KindsAre
<1> QED
  BY <1>1, <1>2 DEF Present, Seen

LEMMA QuietCounted ==
  ASSUME NEW s, NEW t, Counted(s), Quiet(s, t)
  PROVE  Counted(t)
<1>1. \A e \in t.history : e.kind \in Announced => e.id \in 0..t.said
  <2>1. s.said \in Nat /\ t.said \in Nat /\ t.said >= s.said
    BY DEF Counted, Quiet
  <2>2. 0..s.said \subseteq 0..t.said
    BY <2>1
  <2> QED
    BY <2>2 DEF Counted, Quiet
<1>2. \A u \in Uid, c \in Channel : IsFiniteSet(Made(t, Announced, u, c))
  <2>1. \A u \in Uid, c \in Channel : Made(t, Announced, u, c) = Made(s, Announced, u, c)
    BY SameTold, KindsAre DEF Quiet
  <2> QED
    BY <2>1 DEF Counted
<1>3. ASSUME NEW u \in Uid
      PROVE  /\ t.users[u].us \in ChannelUs /\ t.users[u].vis \in BOOLEAN
             /\ t.users[u].loaded = FALSE => t.users[u].us = NoChannels /\ t.users[u].vis = TRUE
             /\ IsFiniteSet(export_channels(t.users[u].us))
             /\ DOMAIN t.global[u] = {"us", "vis"}
  BY DEF Counted, Quiet
<1> QED
  BY <1>1, <1>2, <1>3 DEF Counted, Quiet

LEMMA QuietSelf ==
  ASSUME NEW s, Counted(s)
  PROVE  Quiet(s, s)
  BY DEF Quiet, Counted

LEMMA QuietTwice ==
  ASSUME NEW s, NEW t, NEW r, Counted(s), Quiet(s, t), Quiet(t, r)
  PROVE  Quiet(s, r)
<1>1. r.said >= s.said
  <2>1. s.said \in Nat /\ t.said \in Nat /\ r.said \in Nat /\ t.said >= s.said /\ r.said >= t.said
    BY DEF Quiet, Counted
  <2> QED
    BY <2>1
<1>2. ASSUME NEW w \in Uid
      PROVE  /\ r.users[w].us = s.users[w].us /\ r.users[w].vis = s.users[w].vis
             /\ r.users[w].loaded = FALSE => s.users[w].loaded = FALSE
             /\ w \notin r.loose => r.global[w] \in {s.global[w], StateOf(s, w)}
             /\ DOMAIN r.global[w] = {"us", "vis"}
  BY DEF Quiet, StateOf
<1> QED
  BY <1>1, <1>2 DEF Quiet

\* A quiet step from tables that are sound to such tables.
Calms(s, t) == Sound(t) /\ Quiet(s, t)

LEMMA CalmsTwice ==
  ASSUME NEW s, NEW t, NEW r, Sound(s), Calms(s, t), Calms(t, r)
  PROVE  Calms(s, r)
  BY QuietTwice DEF Calms, Sound

LEMMA CalmsSelf ==
  ASSUME NEW s, Sound(s)
  PROVE  Calms(s, s)
  BY QuietSelf DEF Calms, Sound

LEMMA CalmsBy ==
  ASSUME NEW s, NEW t, Sound(s), Quiet(s, t), Fine(t)
  PROVE  Calms(s, t)
  BY QuietCounted DEF Calms, Sound

\* Changes of the other tables.
LEMMA QuietElsewhere ==
  ASSUME NEW s, NEW t, Counted(s),
         t.users = s.users, t.global = s.global, t.history = s.history, t.pending = s.pending,
         t.said = s.said, t.external = s.external, t.loose = s.loose
  PROVE  Quiet(s, t)
  BY DEF Quiet, Counted

\* What is pushed to pages.
LEMMA PushFields ==
  ASSUME NEW s, Fine(s), NEW us, NEW e
  PROVE  LET t == data_push_back_www(s, us, e) IN
         /\ t.users = s.users /\ t.global = s.global /\ t.history = s.history /\ t.pending = s.pending
         /\ t.said = s.said /\ t.external = s.external /\ t.loose = s.loose
  BY DEF data_push_back_www, Fine, Shaped

LEMMA QuietPush ==
  ASSUME NEW s, Sound(s), NEW us, NEW e
  PROVE  Quiet(s, data_push_back_www(s, us, e))
<1>1. Fine(s) /\ Counted(s)
  BY DEF Sound
<1> DEFINE t == data_push_back_www(s, us, e)
<1>2. /\ t.users = s.users /\ t.global = s.global /\ t.history = s.history /\ t.pending = s.pending
      /\ t.said = s.said /\ t.external = s.external /\ t.loose = s.loose
  BY <1>1, PushFields
<1> HIDE DEF t
<1>3. Quiet(s, t)
  BY <1>1, <1>2, QuietElsewhere
<1> QED
  BY <1>3 DEF t

\* A message that is no announcement, with the next number.
LEMMA QuietSave ==
  ASSUME NEW s, Sound(s), NEW e, e.kind \notin Announced, e.id = s.said + 1
  PROVE  Quiet(s, save_chat_msg(s, e))
<1>1. Shaped(s) /\ Counted(s)
  BY DEF Sound, Fine
<1> DEFINE t == save_chat_msg(s, e)
<1>2. /\ t.users = s.users /\ t.global = s.global /\ t.history = s.history \cup {e} /\ t.pending = s.pending
      /\ t.said = s.said + 1 /\ t.external = s.external /\ t.loose = s.loose
  BY <1>1 DEF save_chat_msg, Shaped
<1> HIDE DEF t
<1>3. s.said \in Nat
  BY <1>1 DEF Counted
<1>4. t.said \in Nat /\ t.said >= s.said
  BY <1>2, <1>3
<1>5. Quiet(s, t)
  BY <1>1, <1>2, <1>4 DEF Quiet, Counted
<1> QED
  BY <1>5 DEF t

LEMMA QuietSaid ==
  ASSUME NEW s, Sound(s), NEW e, e.kind \notin Announced, e.id = s.said + 1, NEW us
  PROVE  Quiet(s, data_push_back_www(save_chat_msg(s, e), us, e))
<1>1. Calms(s, save_chat_msg(s, e))
  BY QuietSave, SaveKeeps, CalmsBy DEF Sound
<1> QED
  BY <1>1, QuietPush, QuietTwice DEF Calms, Sound

\* The state a user has is published again.
LEMMA CalmPublish ==
  ASSUME NEW s, Sound(s), NEW u \in Uid
  PROVE  Calms(s, [s EXCEPT !.global[u] = [us |-> s.users[u].us, vis |-> s.users[u].vis]])
<1> DEFINE t == [s EXCEPT !.global[u] = [us |-> s.users[u].us, vis |-> s.users[u].vis]]
<1>1. Shaped(s) /\ Counted(s) /\ Fine(s)
  BY DEF Sound, Fine
<1>2. /\ t.users = s.users /\ t.history = s.history /\ t.pending = s.pending
      /\ t.said = s.said /\ t.external = s.external /\ t.loose = s.loose
      /\ t.global = [s.global EXCEPT ![u] = StateOf(s, u)]
  BY <1>1 DEF Shaped, StateOf
<1>3. Fine(t)
  BY <1>1 DEF Fine, Shaped, Found, Shown
<1> HIDE DEF t
<1>4. DOMAIN t.global = Uid /\ \A w \in Uid : t.global[w] \in {s.global[w], StateOf(s, w)}
  BY <1>1, <1>2 DEF Counted
<1>5. \A w \in Uid : DOMAIN t.global[w] = {"us", "vis"}
  BY <1>1, <1>4 DEF Counted, StateOf
<1>6. Quiet(s, t)
  BY <1>1, <1>2, <1>4, <1>5 DEF Quiet, Counted
<1>7. Calms(s, t)
  BY <1>3, <1>6, CalmsBy
<1> QED
  BY <1>7 DEF t

\* Who is loaded is on no channel and seen, as if they were not there.
LEMMA CalmGet ==
  ASSUME NEW s, Sound(s), NEW u \in Uid
  PROVE  Calms(s, get_user_p(s, u))
<1>1. Shaped(s) /\ Counted(s) /\ Fine(s)
  BY DEF Sound, Fine
<1>2. CASE s.users[u].loaded
  BY <1>2, CalmsSelf DEF get_user_p
<1>3. CASE ~ s.users[u].loaded
  <2> DEFINE t == get_user_p(s, u)
             r == [Stranger EXCEPT !.loaded = TRUE]
  <2>1. t = [s EXCEPT !.users[u] = r,
                 !.nicks[u] = IF @.entry = "none" THEN [@ EXCEPT !.entry = "object"] ELSE @,
                 !.global[u] = NoState]
    BY <1>3 DEF get_user_p
  <2>2. Fine(t)
    BY <1>1, GetUserKeeps
  <2>3. /\ t.history = s.history /\ t.pending = s.pending
        /\ t.said = s.said /\ t.external = s.external /\ t.loose = s.loose
        /\ t.users = [s.users EXCEPT ![u] = r] /\ t.global = [s.global EXCEPT ![u] = NoState]
    BY <1>1, <2>1 DEF Shaped
  <2> HIDE DEF t
  <2>4. s.users[u].loaded = FALSE /\ s.users[u].us = NoChannels /\ s.users[u].vis = TRUE
    BY <1>1, <1>3 DEF Shaped, Counted
  <2>5. r.us = NoChannels /\ r.vis = TRUE /\ r.loaded = TRUE
    BY DEF Stranger
  <2>6. NoState = StateOf(s, u) /\ DOMAIN NoState = {"us", "vis"}
    BY <2>4 DEF NoState, StateOf
  <2> HIDE DEF r
  <2>7. ASSUME NEW w \in Uid
        PROVE  /\ t.users[w].us = s.users[w].us /\ t.users[w].vis = s.users[w].vis
               /\ t.users[w].loaded = FALSE => s.users[w].loaded = FALSE
               /\ t.global[w] \in {s.global[w], StateOf(s, w)}
               /\ DOMAIN t.global[w] = {"us", "vis"}
    <3>1. CASE w = u
      BY <1>1, <2>3, <2>4, <2>5, <2>6, <3>1 DEF Shaped, Counted
    <3>2. CASE w # u
      BY <1>1, <2>3, <3>2 DEF Shaped, Counted
    <3> QED  BY <3>1, <3>2
  <2>8. Quiet(s, t)
    <3>1. s.said \in Nat /\ DOMAIN t.global = Uid
      BY <1>1, <2>3 DEF Counted
    <3>2. t.said >= s.said
      BY <2>3, <3>1
    <3> QED
      BY <2>3, <2>7, <3>1, <3>2 DEF Quiet
  <2>9. Calms(s, t)
    BY <2>2, <2>8, CalmsBy
  <2> QED
    BY <2>9 DEF t
<1> QED
  BY <1>2, <1>3

LEMMA CalmNotice ==
  ASSUME NEW s, Sound(s), NEW u
  PROVE  Calms(s, send_syspriv_msg(s, u))
<1> DEFINE e == NoticeTo(s, u)
           p == data_push_back_www(s, {u}, e)
           t == [p EXCEPT !.external = @ \cup {e}, !.said = e.id]
<1>1. send_syspriv_msg(s, u) \in {s, t}
  BY DEF send_syspriv_msg
<1>2. e.kind \notin Announced /\ e.id = s.said + 1
  BY DEF NoticeTo, Message, Announced, Partings
<1>3. Shaped(s) /\ Counted(s) /\ Fine(s)
  BY DEF Sound, Fine
<1> HIDE DEF e
<1>4. DOMAIN p = DOMAIN s
  BY <1>3 DEF data_push_back_www, Shaped
<1>5. /\ p.users = s.users /\ p.global = s.global /\ p.history = s.history /\ p.pending = s.pending
      /\ p.said = s.said /\ p.external = s.external /\ p.loose = s.loose
  BY <1>3, PushFields
<1> HIDE DEF p
<1>6. /\ t.users = s.users /\ t.global = s.global /\ t.history = s.history /\ t.pending = s.pending
      /\ t.said = s.said + 1 /\ t.external = s.external \cup {e} /\ t.loose = s.loose
  BY <1>2, <1>3, <1>4, <1>5 DEF Shaped
<1> HIDE DEF t
<1>7. s.said \in Nat
  BY <1>3 DEF Counted
<1>8. t.said \in Nat /\ t.said >= s.said
  BY <1>6, <1>7
<1>9. Quiet(s, t)
  BY <1>2, <1>3, <1>6, <1>8 DEF Quiet, Counted
<1>10. Quiet(s, send_syspriv_msg(s, u))
  BY <1>1, <1>3, <1>9, QuietSelf
<1> QED
  BY <1>3, <1>10, NoticeKeeps, CalmsBy

LEMMA CalmElsewhere ==
  ASSUME NEW s, NEW t, Sound(s), Fine(t),
         t.users = s.users, t.global = s.global, t.history = s.history, t.pending = s.pending,
         t.said = s.said, t.external = s.external, t.loose = s.loose
  PROVE  Calms(s, t)
  BY QuietElsewhere, CalmsBy DEF Sound

\* A message that is no announcement, written and shown.
LEMMA CalmSaid ==
  ASSUME NEW s, Sound(s), NEW e, e.kind \in Written \cup {"MAT"}, e.id = s.said + 1
  PROVE  Calms(s, say(s, e))
<1>1. e.kind \notin Announced
  BY DEF Written, Announced, Partings
<1>2. Quiet(s, say(s, e))
  BY <1>1, QuietSaid DEF say
<1> QED
  BY <1>2, SaidKeeps, CalmsBy DEF Sound

LEMMA CalmTell ==
  ASSUME NEW s, Sound(s), NEW kind \in {"MODE", "CHTOPIC"}, NEW c
  PROVE  Calms(s, tell(s, kind, c))
<1> DEFINE e == Message(s, kind, c, "nobody", "nobody")
<1>1. e.kind \notin Announced /\ e.id = s.said + 1
  BY DEF Message, Announced, Partings
<1> HIDE DEF e
<1>2. Quiet(s, tell(s, kind, c))
  BY <1>1, QuietSaid DEF tell, e
<1> QED
  BY <1>2, TellKeeps, CalmsBy DEF Sound

LEMMA CalmCopy ==
  ASSUME NEW s, Sound(s), NEW u, NEW z, NEW kind \in {"PRIV", "SYSPRIV"}, NEW c, NEW us,
         \A v \in us : v = u \/ (v = z /\ (kind = "PRIV" => <<z, u>> \notin Ignores))
  PROVE  LET e == Message(s, kind, c, u, z) IN
         Calms(s, data_push_back_www(save_chat_msg(s, e), us, e))
<1> DEFINE e == Message(s, kind, c, u, z)
           t == data_push_back_www(save_chat_msg(s, e), us, e)
<1>1. e.kind \notin Announced /\ e.id = s.said + 1
  BY DEF Message, Announced, Partings
<1>2. Fine(t)
  BY CopyKeeps DEF Sound
<1> HIDE DEF e
<1>3. Quiet(s, t)
  BY <1>1, QuietSaid
<1> HIDE DEF t
<1>4. Calms(s, t)
  BY <1>2, <1>3, CalmsBy
<1> QED
  BY <1>4 DEF t, e

LEMMA CalmClient ==
  ASSUME NEW s, Sound(s), NEW u \in Uid
  PROVE  Calms(s, with_client(s, u))
<1> DEFINE l == get_user_p(s, u)
           t == [l EXCEPT !.clients = @ \cup {u}]
<1>1. Calms(s, l)
  BY CalmGet
<1>2. Sound(l) /\ Fine(l) /\ Shaped(l)
  BY <1>1 DEF Calms, Sound, Fine
<1> HIDE DEF l
<1>3. /\ t.users = l.users /\ t.global = l.global /\ t.history = l.history /\ t.pending = l.pending
      /\ t.said = l.said /\ t.external = l.external /\ t.loose = l.loose
  BY <1>2 DEF Shaped
<1>4. Fine(t)
  BY <1>2 DEF Fine, Shaped, Found, Shown
<1> HIDE DEF t
<1>5. Calms(l, t)
  BY <1>2, <1>3, <1>4, CalmElsewhere
<1>6. Calms(s, t)
  BY <1>1, <1>5, CalmsTwice
<1> QED
  BY <1>6 DEF with_client, t, l

LEMMA CalmMessages ==
  ASSUME NEW s, Sound(s), NEW e, e.u \in Uid
  PROVE  Calms(s, on_CHAT_MESSAGES2(s, e))
<1> DEFINE u == e.u
           l == with_client(s, u)
           published == [l EXCEPT !.global[u] = [us |-> l.users[u].us, vis |-> l.users[u].vis]]
           g == IF channel_us_count_usr(l.users[u].us, e.ch, "www") THEN l ELSE published
           chans == get_channel(l.users[u].us, "www")
           c == CHOOSE x \in chans : TRUE
           n == IF <<u, c>> \in Klapped THEN send_syspriv_msg(g, u) ELSE g
           p == [n EXCEPT !.screen[u].served = TRUE,
                          !.screen[u].shown = @ \cup get_n_messages(n, c, u)]
<1>1. on_CHAT_MESSAGES2(s, e) \in {g, n, p}
  BY DEF on_CHAT_MESSAGES2
<1> HIDE DEF chans, c
<1>2. Calms(s, l)
  BY CalmClient
<1> HIDE DEF l
<1>3. Calms(l, published) /\ Calms(l, l)
  BY <1>2, CalmPublish, CalmsSelf DEF Calms
<1> HIDE DEF published
<1>4. Calms(s, g)
  BY <1>2, <1>3, CalmsTwice
<1> HIDE DEF g, u
<1>5. Calms(g, send_syspriv_msg(g, u)) /\ Calms(g, g)
  BY <1>4, CalmNotice, CalmsSelf DEF Calms
<1>6. Calms(s, n)
  BY <1>4, <1>5, CalmsTwice
<1> HIDE DEF n
<1>7. Fine(p)
  BY <1>6, ReloadShows, PageKeeps DEF Calms, Sound
<1>8. /\ p.users = n.users /\ p.global = n.global /\ p.history = n.history /\ p.pending = n.pending
      /\ p.said = n.said /\ p.external = n.external /\ p.loose = n.loose
  BY <1>6 DEF Calms, Sound, Fine, Shaped
<1> HIDE DEF p
<1>9. Calms(n, p)
  BY <1>6, <1>7, <1>8, CalmElsewhere DEF Calms
<1> QED
  BY <1>1, <1>4, <1>6, <1>9, CalmsTwice

LEMMA CalmMode ==
  ASSUME NEW s, Sound(s), NEW e, e.u \in Uid
  PROVE  Calms(s, on_CHMODE(s, e))
<1> DEFINE l == get_user_p(s, e.u)
           j == [l EXCEPT !.moderated = IF e.ch \in @ THEN @ \ {e.ch} ELSE @ \cup {e.ch}]
<1>1. Calms(s, l)
  BY CalmGet
<1>2. Sound(l) /\ Fine(l) /\ Shaped(l)
  BY <1>1 DEF Calms, Sound, Fine
<1> HIDE DEF l
<1>3. /\ j.users = l.users /\ j.global = l.global /\ j.history = l.history /\ j.pending = l.pending
      /\ j.said = l.said /\ j.external = l.external /\ j.loose = l.loose
  BY <1>2 DEF Shaped
<1>4. Fine(j)
  BY <1>2 DEF Fine, Shaped, Found, Shown
<1> HIDE DEF j
<1>5. Calms(s, j)
  BY <1>1, <1>2, <1>3, <1>4, CalmElsewhere, CalmsTwice
<1>6. Calms(j, tell(j, "MODE", e.ch))
  BY <1>5, CalmTell DEF Calms
<1> QED
  BY <1>5, <1>6, CalmsTwice DEF on_CHMODE, l, j

LEMMA CalmTopic ==
  ASSUME NEW s, Sound(s), NEW e, e.u \in Uid
  PROVE  Calms(s, on_CHTOPIC(s, e))
<1> DEFINE l == get_user_p(s, e.u)
           n == send_syspriv_msg(l, e.u)
<1>1. Calms(s, l)
  BY CalmGet
<1>2. on_CHTOPIC(s, e) \in {send_syspriv_msg(n, e.u), tell(l, "CHTOPIC", e.ch)}
  BY DEF on_CHTOPIC
<1> HIDE DEF l
<1>3. Calms(l, n) /\ Calms(l, tell(l, "CHTOPIC", e.ch))
  BY <1>1, CalmNotice, CalmTell DEF Calms
<1> HIDE DEF n
<1>4. Calms(n, send_syspriv_msg(n, e.u))
  BY <1>3, CalmNotice DEF Calms
<1>5. Calms(s, n) /\ Calms(s, tell(l, "CHTOPIC", e.ch))
  BY <1>1, <1>3, CalmsTwice
<1> QED
  BY <1>2, <1>4, <1>5, CalmsTwice

\* Who gives a voice to somebody else is published with that user's state.
LEMMA CalmVoice ==
  ASSUME NEW s, Sound(s), NEW e, e.u \in Uid, e.to \in Uid
  PROVE  Calms(s, on_CHVOICE(s, e))
<1> DEFINE l == get_user_p(s, e.u)
           z == e.to
           voice == IF e.ch \in l.users[z].voice THEN l.users[z].voice \ {e.ch}
                    ELSE l.users[z].voice \cup {e.ch}
           r == [l.users[z] EXCEPT !.voice = voice]
           given == [l EXCEPT !.users[z].voice = voice,
                         !.global[e.u] = [us |-> l.users[z].us, vis |-> l.users[z].vis],
                         !.loose = IF z # e.u THEN @ \cup {e.u} ELSE @]
<1>1. Calms(s, l)
  BY CalmGet
<1>2. on_CHVOICE(s, e) \in {send_syspriv_msg(l, e.u), tell(given, "MODE", e.ch)}
  BY DEF on_CHVOICE
<1> HIDE DEF l, voice
<1>3. Sound(l) /\ Fine(l) /\ Shaped(l) /\ Counted(l)
  BY <1>1 DEF Calms, Sound, Fine
<1>4. /\ DOMAIN r = {"loaded", "us", "vis", "voice"}
      /\ r.loaded = l.users[z].loaded /\ r.us = l.users[z].us /\ r.vis = l.users[z].vis
  BY <1>3 DEF Shaped
<1>5. /\ DOMAIN given = DOMAIN l /\ given.nicks = l.nicks /\ given.screen = l.screen
      /\ given.kicked = l.kicked /\ given.users = [l.users EXCEPT ![z] = r]
      /\ given.history = l.history /\ given.pending = l.pending
      /\ given.said = l.said /\ given.external = l.external
      /\ given.loose = IF z # e.u THEN l.loose \cup {e.u} ELSE l.loose
      /\ given.global = [l.global EXCEPT ![e.u] = StateOf(l, z)]
  BY <1>3 DEF Shaped, StateOf
<1> HIDE DEF given, r
<1>6. Fine(given)
  BY <1>3, <1>4, <1>5, UserKeeps
<1>7. ASSUME NEW w \in Uid
      PROVE  /\ given.users[w].us = l.users[w].us /\ given.users[w].vis = l.users[w].vis
             /\ given.users[w].loaded = l.users[w].loaded
             /\ w \notin given.loose => given.global[w] \in {l.global[w], StateOf(l, w)}
             /\ DOMAIN given.global[w] = {"us", "vis"}
  <2>1. given.users[w] = (IF w = z THEN r ELSE l.users[w])
    BY <1>3, <1>5 DEF Shaped
  <2>2. given.global[w] = (IF w = e.u THEN StateOf(l, z) ELSE l.global[w])
    BY <1>3, <1>5 DEF Counted
  <2> QED
    BY <1>3, <1>4, <1>5, <2>1, <2>2 DEF Counted, StateOf
<1>8. Quiet(l, given)
  <2>1. l.said \in Nat /\ DOMAIN given.global = Uid
    BY <1>3, <1>5 DEF Counted
  <2>2. given.said >= l.said /\ l.loose \subseteq given.loose
    BY <1>5, <2>1
  <2> QED
    BY <1>5, <1>7, <2>1, <2>2 DEF Quiet
<1>9. Calms(s, given)
  BY <1>1, <1>3, <1>6, <1>8, CalmsBy, CalmsTwice
<1>10. Calms(l, send_syspriv_msg(l, e.u)) /\ Calms(given, tell(given, "MODE", e.ch))
  BY <1>3, <1>9, CalmNotice, CalmTell DEF Calms
<1> QED
  BY <1>1, <1>2, <1>9, <1>10, CalmsTwice

LEMMA CalmToChannel ==
  ASSUME NEW s, Sound(s), NEW e, e.u \in Uid
  PROVE  Calms(s, send_message_to_channel(s, e))
<1> DEFINE u == e.u
           kind == KindOf(u, e.kind)
           foul == e.text = "foul" /\ e.ch \in DOMAIN Filtered
           moved == Filtered[e.ch] \in Channel
           c == IF foul /\ moved THEN Filtered[e.ch] ELSE e.ch
           published == [s EXCEPT !.global[u] = [us |-> s.users[u].us, vis |-> s.users[u].vis]]
           there == IF foul /\ moved /\ channel_us_count_usr(s.users[u].us, c, "www")
                    THEN published ELSE s
           mat == Message(s, "MAT", e.ch, "nobody", "nobody")
           msg == Message(there, kind, c, u, "nobody")
<1>1. send_message_to_channel(s, e) \in {s, send_syspriv_msg(s, u), say(s, mat), say(there, msg)}
  BY DEF send_message_to_channel
<1>2. mat.kind = "MAT" /\ msg.kind \in Written /\ mat.id = s.said + 1 /\ msg.id = there.said + 1
  BY DEF Message, KindOf, Written
<1> HIDE DEF kind, foul, moved, c, mat, msg
<1>3. Calms(s, published) /\ Calms(s, s)
  BY CalmPublish, CalmsSelf
<1> HIDE DEF published
<1>4. Calms(s, there)
  BY <1>3
<1> HIDE DEF there
<1>5. Calms(there, say(there, msg)) /\ Calms(s, say(s, mat)) /\ Calms(s, send_syspriv_msg(s, u))
  BY <1>2, <1>4, CalmSaid, CalmNotice DEF Calms
<1> QED
  BY <1>1, <1>3, <1>4, <1>5, CalmsTwice

LEMMA CalmPriv ==
  ASSUME NEW s, Sound(s), NEW u, NEW z, NEW kind \in {"PRIV", "SYSPRIV"}, NEW text
  PROVE  Calms(s, send_message_priv(s, u, z, kind, text))
<1> DEFINE usc == get_channel(s.users[u].us, "www")
           zsc == export_channels(s.users[z].us)
           readers == IF Reads(s, u, z, kind) THEN {z} ELSE {}
           copy(r, c, who) == LET e == Message(r, kind, c, u, z) IN
                              data_push_back_www(save_chat_msg(r, e), who \cap r.sessions, e)
           own == IF usc = {} THEN s ELSE copy(s, First(usc), {u})
<1>1. send_message_priv(s, u, z, kind, text) \in
        {s, copy(s, First(usc), {u} \cup readers), own, copy(own, First(zsc), readers)}
  BY DEF send_message_priv
<1>2. ASSUME NEW r, Sound(r), NEW c, NEW who \in SUBSET ({u} \cup readers)
      PROVE  Calms(r, copy(r, c, who))
  <2>1. \A v \in who \cap r.sessions : v = u \/ (v = z /\ (kind = "PRIV" => <<z, u>> \notin Ignores))
    BY DEF Reads
  <2> HIDE DEF readers
  <2> QED
    BY <1>2, <2>1, CalmCopy
<1> HIDE DEF copy, readers, usc, zsc
<1>3. Calms(s, copy(s, First(usc), {u} \cup readers)) /\ Calms(s, own) /\ Calms(s, s)
  BY <1>2, CalmsSelf
<1> HIDE DEF own
<1>4. Calms(own, copy(own, First(zsc), readers))
  BY <1>2, <1>3 DEF Calms
<1> QED
  BY <1>1, <1>3, <1>4, CalmsTwice

LEMMA CalmSend ==
  ASSUME NEW s, Sound(s), NEW e, e.u \in Uid, e.to \in Uid \cup {"nobody"}
  PROVE  Calms(s, on_SEND_MESSAGE(s, e))
<1> DEFINE l == get_user_p(s, e.u)
           j == get_user_p(l, e.to)
           kind == IF KindOf(e.u, e.kind) = "SYS" THEN "SYSPRIV" ELSE "PRIV"
<1>1. Calms(s, l)
  BY CalmGet
<1>2. \/ on_SEND_MESSAGE(s, e) \in {l, send_syspriv_msg(l, e.u), send_message_to_channel(l, e)}
      \/ e.to # "nobody" /\ on_SEND_MESSAGE(s, e) = send_message_priv(j, e.u, e.to, kind, e.text)
  BY DEF on_SEND_MESSAGE
<1>3. kind \in {"PRIV", "SYSPRIV"}
  OBVIOUS
<1> HIDE DEF l, kind
<1>4. e.to # "nobody" => Calms(l, j)
  BY <1>1, CalmGet DEF Calms
<1> HIDE DEF j
<1>5. Calms(l, send_syspriv_msg(l, e.u)) /\ Calms(l, send_message_to_channel(l, e))
  BY <1>1, CalmNotice, CalmToChannel DEF Calms
<1>6. e.to # "nobody" => Calms(j, send_message_priv(j, e.u, e.to, kind, e.text))
  BY <1>3, <1>4, CalmPriv DEF Calms
<1>7. e.to # "nobody" => Calms(s, j)
  BY <1>1, <1>4, CalmsTwice
<1> QED
  BY <1>1, <1>2, <1>5, <1>6, <1>7, CalmsTwice

LEMMA CalmInvite ==
  ASSUME NEW s, Sound(s), NEW e, e.u \in Uid, e.to \in Uid
  PROVE  Calms(s, on_INVITE(s, e))
<1> DEFINE j == get_user_p(s, e.u)
           l == get_user_p(j, e.to)
           sc == get_channel(l.users[e.u].us, "www")
           msg == Message(l, "INVITE", CHOOSE c \in sc : TRUE, e.u, e.to)
           told == data_push_back_www(save_chat_msg(l, msg), {e.to} \cap l.sessions, msg)
<1>1. Calms(s, j)
  BY CalmGet
<1>2. on_INVITE(s, e) = l \/ (<<e.to, e.u>> \notin Ignores /\ on_INVITE(s, e) = send_syspriv_msg(told, e.u))
  BY DEF on_INVITE
<1>3. msg.kind = "INVITE" /\ msg.from = e.u /\ msg.to = e.to /\ msg.id = l.said + 1
  BY DEF Message
<1> HIDE DEF j
<1>4. Calms(j, l)
  BY <1>1, CalmGet DEF Calms
<1> HIDE DEF l, msg
<1>5. Calms(s, l)
  BY <1>1, <1>4, CalmsTwice
<1>6. ASSUME <<e.to, e.u>> \notin Ignores
      PROVE  Calms(l, told)
  <2>1. \A v \in ({e.to} \cap l.sessions) \cap Uid : ForUser(msg, v)
    BY <1>3, <1>6 DEF ForUser, is_ignored
  <2>2. Fine(told)
    BY <1>5, <2>1, SayKeeps DEF Calms, Sound
  <2>3. msg.kind \notin Announced
    BY <1>3 DEF Announced, Partings
  <2>4. Quiet(l, told)
    BY <1>3, <1>5, <2>3, QuietSaid DEF Calms
  <2> QED
    BY <1>5, <2>2, <2>4, CalmsBy DEF Calms
<1> HIDE DEF told
<1>7. ASSUME <<e.to, e.u>> \notin Ignores
      PROVE  Calms(s, send_syspriv_msg(told, e.u))
  <2>1. Calms(told, send_syspriv_msg(told, e.u))
    BY <1>6, <1>7, CalmNotice DEF Calms
  <2> QED
    BY <1>5, <1>6, <1>7, <2>1, CalmsTwice
<1> QED
  BY <1>2, <1>5, <1>7

\* A part that leaves something out is smaller.
LEMMA SmallerPart ==
  ASSUME NEW T, IsFiniteSet(T), NEW S \in SUBSET T, NEW x \in T, x \notin S
  PROVE  /\ Cardinality(S) \in Nat /\ Cardinality(T) \in Nat /\ Cardinality(S) < Cardinality(T)
<1>1. S # T
  OBVIOUS
<1> QED
  BY <1>1, FS_Subset, FS_CardinalityType

\* The place of c among the channels chans.
RankIn(chans, c) == Cardinality({d \in chans : d <= c})

LEMMA RanksAreUnique ==
  ASSUME NEW chans \in SUBSET Channel, IsFiniteSet(chans)
  PROVE  /\ \A c \in chans : RankIn(chans, c) \in 1..Cardinality(chans)
         /\ \A c, d \in chans : RankIn(chans, c) = RankIn(chans, d) => c = d
<1> DEFINE Below(c) == {d \in chans : d <= c}
<1>0. Channel \subseteq Nat
  BY MessagesAssumption
<1>1. ASSUME NEW c \in chans
      PROVE  IsFiniteSet(Below(c)) /\ Cardinality(Below(c)) \in 1..Cardinality(chans)
  <2>1. Below(c) \subseteq chans /\ c \in Below(c)
    BY <1>0
  <2> HIDE DEF Below
  <2>2. /\ IsFiniteSet(Below(c)) /\ Cardinality(Below(c)) <= Cardinality(chans)
        /\ Cardinality(Below(c)) \in Nat /\ Cardinality(chans) \in Nat
    BY <2>1, FS_Subset, FS_CardinalityType
  <2>3. Cardinality(Below(c)) # 0
    BY <2>1, <2>2, FS_EmptySet
  <2> QED
    BY <2>2, <2>3
<1>2. ASSUME NEW c \in chans, NEW d \in chans, c < d
      PROVE  Cardinality(Below(c)) < Cardinality(Below(d))
  <2>0. c \in Nat /\ d \in Nat
    BY <1>0
  <2>1. Below(c) \subseteq Below(d) /\ d \in Below(d) /\ d \notin Below(c)
    <3>1. \A x \in chans : x \in Nat
      BY <1>0
    <3>2. ASSUME NEW x \in Below(c)
          PROVE  x \in Below(d)
      <4>1. x \in chans /\ x \in Nat /\ x <= c
        BY <3>1
      <4>2. x <= d
        BY <1>2, <2>0, <4>1
      <4> QED
        BY <4>1, <4>2
    <3>3. d <= d /\ ~(d <= c)
      BY <1>2, <2>0
    <3> QED
      BY <3>2, <3>3
  <2> HIDE DEF Below
  <2> QED
    BY <1>1, <2>1, SmallerPart
<1>3. ASSUME NEW c \in chans, NEW d \in chans, Cardinality(Below(c)) = Cardinality(Below(d))
      PROVE  c = d
  <2>1. c \in Nat /\ d \in Nat
    BY <1>0
  <2>2. Cardinality(Below(c)) \in Nat
    BY <1>1
  <2>3. ~(c < d) /\ ~(d < c)
    BY <1>2, <1>3, <2>2
  <2> QED
    BY <2>1, <2>3
<1> QED
  BY <1>1, <1>3 DEF RankIn

\* Every place is some channel's.
LEMMA RanksAreTaken ==
  ASSUME NEW chans \in SUBSET Channel, IsFiniteSet(chans), NEW i \in 1..Cardinality(chans)
  PROVE  \E c \in chans : RankIn(chans, c) = i
<1> DEFINE R == [c \in chans |-> RankIn(chans, c)]
           n == Cardinality(chans)
<1>1. n \in Nat
  BY FS_CardinalityType
<1>2. IsFiniteSet(1..n) /\ Cardinality(1..n) = n
  BY <1>1, FS_Interval
<1>3. R \in [chans -> 1..n] /\ \A c, d \in chans : R[c] = R[d] => c = d
  BY RanksAreUnique
<1>4. R \in Injection(chans, 1..n)
  BY <1>3 DEF Injection, IsInjective
<1> HIDE DEF R
<1>5. R \in Surjection(chans, 1..n)
  BY <1>2, <1>4, FS_Injection DEF Bijection, Surjection, n
<1> QED
  BY <1>5 DEF Surjection, R

LEMMA Concatenated ==
  ASSUME NEW P, NEW a \in Seq(P), NEW b \in Seq(P)
  PROVE  /\ a \o b \in Seq(P) /\ Len(a \o b) = Len(a) + Len(b)
         /\ \A i \in 1..Len(a) : (a \o b)[i] = a[i]
         /\ \A i \in 1..Len(b) : (a \o b)[Len(a) + i] = b[i]
  OBVIOUS

\* t has one announcement of u more to make on each of the channels chans.
OneMore(s, t, kind, u, chans) ==
  \A K, w, c :
    IF kind \in K /\ w = u /\ c \in chans
    THEN Cardinality(ToMake(t, K, w, c)) = Cardinality(ToMake(s, K, w, c)) + 1
    ELSE Cardinality(ToMake(t, K, w, c)) = Cardinality(ToMake(s, K, w, c))

\* announce queues one announcement for each of the channels, and no other.
LEMMA ToMakeGrows ==
  ASSUME NEW s, Shaped(s), NEW kind \in Announced, NEW u \in Uid, NEW chans \in SUBSET Channel, IsFiniteSet(chans),
         s.pending \in Seq([kind : Announced, u : Uid, ch : Channel])
  PROVE  LET t == announce(s, kind, u, chans) IN
         /\ t.pending \in Seq([kind : Announced, u : Uid, ch : Channel])
         /\ OneMore(s, t, kind, u, chans)
<1> SUFFICES ASSUME NEW K, NEW w, NEW c
    PROVE  LET t == announce(s, kind, u, chans) IN
           /\ t.pending \in Seq([kind : Announced, u : Uid, ch : Channel])
           /\ IF kind \in K /\ w = u /\ c \in chans
              THEN Cardinality(ToMake(t, K, w, c)) = Cardinality(ToMake(s, K, w, c)) + 1
              ELSE Cardinality(ToMake(t, K, w, c)) = Cardinality(ToMake(s, K, w, c))
  BY DEF OneMore
<1> DEFINE n == Cardinality(chans)
           P == [kind : Announced, u : Uid, ch : Channel]
           ch(i) == CHOOSE d \in chans : Cardinality({x \in chans : x <= d}) = i
           more == [i \in 1..n |-> [kind |-> kind, u |-> u, ch |-> ch(i)]]
           t == announce(s, kind, u, chans)
           L == Len(s.pending)
           mine == kind \in K /\ w = u /\ c \in chans
<1>1. n \in Nat
  BY FS_CardinalityType
<1>2. ASSUME NEW i \in 1..n
      PROVE  ch(i) \in chans /\ RankIn(chans, ch(i)) = i
  BY RanksAreTaken DEF RankIn
<1>3. t.pending = s.pending \o more
  BY DEF announce, Shaped
<1> HIDE DEF ch, t
<1>4. more \in Seq(P) /\ Len(more) = n
  <2>1. \A i \in 1..n : more[i] = [kind |-> kind, u |-> u, ch |-> ch(i)] /\ ch(i) \in Channel
    BY <1>2
  <2>2. \A i \in 1..n : more[i] \in P
    BY <2>1
  <2>3. DOMAIN more = 1..n
    OBVIOUS
  <2> HIDE DEF more, P, n
  <2>4. more \in [1..n -> P]
    BY <2>2, <2>3, SMT DEF more
  <2> QED
    BY <1>1, <2>4
<1>5. \A i \in 1..n : more[i].kind = kind /\ more[i].u = u /\ more[i].ch = ch(i)
  OBVIOUS
<1> HIDE DEF more, n
<1>6. /\ t.pending \in Seq(P) /\ Len(t.pending) = L + n
      /\ \A i \in 1..L : t.pending[i] = s.pending[i]
      /\ \A i \in 1..n : t.pending[L + i] = more[i]
  <2> HIDE DEF P
  <2>1. s.pending \in Seq(P)
    BY DEF P
  <2>2. more \in Seq(P) /\ Len(more) = n
    BY <1>4 DEF P
  <2> DEFINE a == s.pending
  <2>3. a \in Seq(P)
    BY <2>1
  <2> HIDE DEF a
  <2>4. /\ a \o more \in Seq(P) /\ Len(a \o more) = Len(a) + n
        /\ \A i \in 1..Len(a) : (a \o more)[i] = a[i]
        /\ \A i \in 1..n : (a \o more)[Len(a) + i] = more[i]
    <3> DEFINE b == more
    <3>1. b \in Seq(P) /\ Len(b) = n
      BY <2>2
    <3> HIDE DEF b
    <3>2. a \o b \in Seq(P)
      BY <2>3, <3>1, Concatenated
    <3>3. Len(a \o b) = Len(a) + Len(b)
      BY <2>3, <3>1, Concatenated
    <3>4. \A i \in 1..Len(a) : (a \o b)[i] = a[i]
      BY <2>3, <3>1, Concatenated
    <3>5. \A i \in 1..Len(b) : (a \o b)[Len(a) + i] = b[i]
      BY <2>3, <3>1, Concatenated
    <3> QED
      BY <3>1, <3>2, <3>3, <3>4, <3>5 DEF b
  <2> QED
    BY <1>3, <2>4 DEF a
<1>7. L \in Nat /\ DOMAIN s.pending = 1..L /\ DOMAIN t.pending = 1..(L + n)
  BY <1>1, <1>6
<1>8. IsFiniteSet(ToMake(s, K, w, c)) /\ Cardinality(ToMake(s, K, w, c)) \in Nat
  <2>1. ToMake(s, K, w, c) \subseteq 1..L /\ IsFiniteSet(1..L)
    BY <1>7, FS_Interval DEF ToMake
  <2> QED
    BY <2>1, FS_Subset, FS_CardinalityType
<1> DEFINE Here(i) == t.pending[i].kind \in K /\ t.pending[i].u = w /\ t.pending[i].ch = c
<1>9. ToMake(t, K, w, c) = {i \in 1..(L + n) : Here(i)}
  BY <1>7 DEF ToMake
<1>10. ToMake(s, K, w, c) = {i \in 1..L : Here(i)}
  BY <1>6, <1>7 DEF ToMake
<1>11. \A i \in 1..n : Here(L + i) <=> (mine /\ i = RankIn(chans, c))
  <2> SUFFICES ASSUME NEW i \in 1..n
               PROVE  Here(L + i) <=> (mine /\ i = RankIn(chans, c))
    OBVIOUS
  <2>1. Here(L + i) <=> (kind \in K /\ u = w /\ ch(i) = c)
    BY <1>5, <1>6
  <2>2. ch(i) \in chans /\ RankIn(chans, ch(i)) = i
    BY <1>2
  <2>3. c \in chans => (ch(i) = c <=> i = RankIn(chans, c))
    BY <2>2, RanksAreUnique
  <2> QED
    BY <2>1, <2>2, <2>3
<1> HIDE DEF Here
<1>12. CASE ~mine
  <2>1. ToMake(t, K, w, c) = ToMake(s, K, w, c)
    <3>1. \A i \in 1..(L + n) : i \in 1..L \/ i - L \in 1..n
      BY <1>1, <1>7
    <3>2. \A i \in (L + 1)..(L + n) : ~Here(i)
      <4> SUFFICES ASSUME NEW i \in (L + 1)..(L + n)
                   PROVE  ~Here(i)
        OBVIOUS
      <4>1. i - L \in 1..n /\ L + (i - L) = i
        BY <1>1, <1>7
      <4> QED
        BY <1>11, <1>12, <4>1
    <3> QED
      BY <1>1, <1>7, <1>9, <1>10, <3>2
  <2> QED
    BY <1>6, <1>8, <1>12, <2>1 DEF t
<1>13. CASE mine
  <2> DEFINE k == L + RankIn(chans, c)
  <2>1. RankIn(chans, c) \in 1..n
    BY <1>13, RanksAreUnique DEF n
  <2>2. k \in 1..(L + n) /\ k \notin 1..L
    BY <1>1, <1>7, <2>1
  <2>3. Here(k)
    BY <1>11, <1>13, <2>1
  <2>4. \A i \in (L + 1)..(L + n) : Here(i) => i = k
    <3> SUFFICES ASSUME NEW i \in (L + 1)..(L + n), Here(i)
                 PROVE  i = k
      OBVIOUS
    <3>1. i - L \in 1..n /\ L + (i - L) = i
      BY <1>1, <1>7
    <3>2. i - L = RankIn(chans, c)
      BY <1>11, <3>1
    <3> QED
      BY <3>1, <3>2
  <2> HIDE DEF k
  <2>5. ToMake(t, K, w, c) = ToMake(s, K, w, c) \cup {k} /\ k \notin ToMake(s, K, w, c)
    BY <1>1, <1>7, <1>9, <1>10, <2>2, <2>3, <2>4
  <2>6. Cardinality(ToMake(t, K, w, c)) = Cardinality(ToMake(s, K, w, c)) + 1
    BY <1>8, <2>5, FS_AddElement
  <2> QED
    BY <1>6, <1>8, <1>13, <2>6 DEF t
<1> QED
  BY <1>12, <1>13

LEMMA ToldIsNat ==
  ASSUME NEW s, Counted(s), NEW K \in SUBSET Announced, NEW u \in Uid, NEW c \in Channel
  PROVE  /\ IsFiniteSet(Made(s, K, u, c)) /\ Cardinality(Made(s, K, u, c)) \in Nat
         /\ IsFiniteSet(ToMake(s, K, u, c)) /\ Cardinality(ToMake(s, K, u, c)) \in Nat
         /\ Told(s, K, u, c) \in Nat
<1>1. Made(s, K, u, c) \subseteq Made(s, Announced, u, c) /\ IsFiniteSet(Made(s, Announced, u, c))
  BY DEF Made, Counted
<1>2. ToMake(s, K, u, c) \subseteq 1..Len(s.pending) /\ IsFiniteSet(1..Len(s.pending))
  <2>1. s.pending \in Seq([kind : Announced, u : Uid, ch : Channel])
    BY DEF Counted
  <2>2. Len(s.pending) \in Nat /\ DOMAIN s.pending = 1..Len(s.pending)
    BY <2>1
  <2> QED
    BY <2>2, FS_Interval DEF ToMake
<1>3. /\ IsFiniteSet(Made(s, K, u, c)) /\ Cardinality(Made(s, K, u, c)) \in Nat
      /\ IsFiniteSet(ToMake(s, K, u, c)) /\ Cardinality(ToMake(s, K, u, c)) \in Nat
  BY <1>1, <1>2, FS_Subset, FS_CardinalityType
<1> QED
  BY <1>3 DEF Told

LEMMA PresentIsInt ==
  ASSUME NEW s, Counted(s), NEW u \in Uid, NEW c \in Channel
  PROVE  Present(s, u, c) \in Int
<1>1. Told(s, {"GREETING"}, u, c) \in Nat /\ Told(s, Partings, u, c) \in Nat
  BY ToldIsNat, KindsAre
<1> QED
  BY <1>1 DEF Present

\* An announcement of u on the channels chans makes the difference of one
\* there, and of none elsewhere.
Counts(s, t, kind, u, chans) ==
  \A w \in Uid, c \in Channel :
    Present(t, w, c) = Present(s, w, c)
      + IF w = u /\ c \in chans THEN (IF kind = "GREETING" THEN 1 ELSE 0 - 1) ELSE 0

LEMMA AnnounceCounts ==
  ASSUME NEW s, Sound(s), NEW kind \in Announced, NEW u \in Uid,
         NEW chans \in SUBSET Channel, IsFiniteSet(chans)
  PROVE  LET t == announce(s, kind, u, chans) IN
         /\ Sound(t)
         /\ t.users = s.users /\ t.global = s.global /\ t.loose = s.loose
         /\ Counts(s, t, kind, u, chans)
<1> DEFINE t == announce(s, kind, u, chans)
<1>1. Shaped(s) /\ Counted(s) /\ Fine(s)
  BY DEF Sound, Fine
<1>2. /\ t.users = s.users /\ t.global = s.global /\ t.loose = s.loose
      /\ t.history = s.history /\ t.said = s.said /\ t.external = s.external
  BY <1>1 DEF announce, Shaped
<1>3. s.pending \in Seq([kind : Announced, u : Uid, ch : Channel])
  BY <1>1 DEF Counted
<1>5. /\ t.pending \in Seq([kind : Announced, u : Uid, ch : Channel])
      /\ OneMore(s, t, kind, u, chans)
  BY <1>1, <1>3, ToMakeGrows
<1>4. ASSUME NEW K \in SUBSET Announced, NEW w \in Uid, NEW c \in Channel
      PROVE  /\ Made(t, K, w, c) = Made(s, K, w, c)
             /\ Told(s, K, w, c) \in Nat
             /\ Told(t, K, w, c) = Told(s, K, w, c) + IF kind \in K /\ w = u /\ c \in chans THEN 1 ELSE 0
  <2>1. Made(t, K, w, c) = Made(s, K, w, c)
    BY <1>2 DEF Made
  <2> DEFINE a == Cardinality(ToMake(s, K, w, c))
             b == Cardinality(ToMake(t, K, w, c))
             d == Cardinality(Made(s, K, w, c))
  <2>2. IF kind \in K /\ w = u /\ c \in chans THEN b = a + 1 ELSE b = a
    BY <1>5 DEF OneMore
  <2>3. a \in Nat /\ d \in Nat /\ Told(s, K, w, c) \in Nat
    BY <1>1, ToldIsNat
  <2>4. Told(s, K, w, c) = d + a /\ Told(t, K, w, c) = d + b
    BY <2>1 DEF Told
  <2> HIDE DEF a, b, d
  <2>6. Told(t, K, w, c) = Told(s, K, w, c) + IF kind \in K /\ w = u /\ c \in chans THEN 1 ELSE 0
    <3>1. CASE kind \in K /\ w = u /\ c \in chans
      BY <2>2, <2>3, <2>4, <3>1
    <3>2. CASE ~(kind \in K /\ w = u /\ c \in chans)
      BY <2>2, <2>3, <2>4, <3>2
    <3> QED  BY <3>1, <3>2
  <2> QED
    BY <2>1, <2>3, <2>6
<1> HIDE DEF t
<1>6. Counted(t)
  <2>1. \A w \in Uid, c \in Channel : IsFiniteSet(Made(t, Announced, w, c))
    BY <1>1, <1>4, KindsAre DEF Counted
  <2> QED
    BY <1>1, <1>2, <1>5, <2>1 DEF Counted
<1>7. Fine(t)
  BY <1>1, AnnounceKeeps DEF t
<1>8. ASSUME NEW w \in Uid, NEW c \in Channel
      PROVE  Present(t, w, c) = Present(s, w, c)
                + IF w = u /\ c \in chans THEN (IF kind = "GREETING" THEN 1 ELSE 0 - 1) ELSE 0
  <2>1. /\ Told(s, {"GREETING"}, w, c) \in Nat
        /\ Told(t, {"GREETING"}, w, c) = Told(s, {"GREETING"}, w, c) + IF kind \in {"GREETING"} /\ w = u /\ c \in chans THEN 1 ELSE 0
    BY <1>4, KindsAre
  <2>2. /\ Told(s, Partings, w, c) \in Nat
        /\ Told(t, Partings, w, c) = Told(s, Partings, w, c) + IF kind \in Partings /\ w = u /\ c \in chans THEN 1 ELSE 0
    BY <1>4, KindsAre
  <2>3. kind = "GREETING" <=> kind \notin Partings
    BY DEF Announced, Partings
  <2> QED
    BY <2>1, <2>2, <2>3 DEF Present
<1> QED
  BY <1>2, <1>6, <1>7, <1>8 DEF Sound, Counts, t

\* What handle_room_event_messages puts in the history.
Saying(s) ==
  {[id |-> s.said + Place(s.pending, i), kind |-> s.pending[i].kind,
    ch |-> s.pending[i].ch, from |-> s.pending[i].u, to |-> "nobody"] :
     i \in Announcing(s.pending)}

LEMMA PartOfSeq ==
  ASSUME NEW P, NEW q \in Seq(P)
  PROVE  Len(q) \in Nat /\ DOMAIN q = 1..Len(q) /\ \A i \in 1..Len(q) : q[i] \in P
  OBVIOUS

LEMMA KindsPending ==
  ASSUME NEW p \in Seq([kind : Announced, u : Uid, ch : Channel])
  PROVE  \A i \in 1..Len(p) : p[i].kind \in Announced
<1>1. \A i \in 1..Len(p) : p[i] \in [kind : Announced, u : Uid, ch : Channel]
  BY PartOfSeq
<1> QED
  BY <1>1

\* The announcements pending have each a place of their own.
LEMMA PlacesAreUnique ==
  ASSUME NEW p \in Seq([kind : Announced, u : Uid, ch : Channel])
  PROVE  /\ Len(p) \in Nat /\ DOMAIN p = 1..Len(p) /\ Announcing(p) = 1..Len(p)
         /\ \A i \in 1..Len(p) : Place(p, i) \in 1..Len(p)
         /\ \A i, j \in 1..Len(p) : Place(p, i) = Place(p, j) => i = j
<1> DEFINE L == Len(p)
           k(i) == p[i].kind
           B(i) == {j \in 1..L : Turn[k(j)] < Turn[k(i)] \/ (k(j) = k(i) /\ j <= i)}
<1>1. L \in Nat /\ DOMAIN p = 1..L
  OBVIOUS
<1>2. \A i \in 1..L : k(i) \in Announced
  BY KindsPending
<1>3. Announcing(p) = 1..L
  BY <1>1, <1>2 DEF Announcing
<1>4. \A i : Place(p, i) = Cardinality(B(i))
  BY <1>3 DEF Place
<1>5. /\ \A x \in Announced : Turn[x] \in Nat
      /\ \A x, y \in Announced : Turn[x] = Turn[y] => x = y
  BY DEF Announced, Partings, Turn
<1>6. IsFiniteSet(1..L) /\ Cardinality(1..L) = L
  BY <1>1, FS_Interval
<1> HIDE DEF k, L
<1>7. ASSUME NEW i \in 1..L
      PROVE  IsFiniteSet(B(i)) /\ i \in B(i) /\ Cardinality(B(i)) \in 1..L
  <2>1. B(i) \subseteq 1..L /\ i \in B(i)
    BY <1>1
  <2> HIDE DEF B
  <2>2. /\ IsFiniteSet(B(i)) /\ Cardinality(B(i)) <= L /\ Cardinality(B(i)) \in Nat
    BY <1>6, <2>1, FS_Subset, FS_CardinalityType
  <2>3. Cardinality(B(i)) # 0
    BY <2>1, <2>2, FS_EmptySet
  <2> QED
    BY <1>1, <2>1, <2>2, <2>3
<1>8. ASSUME NEW i \in 1..L, NEW j \in 1..L, (k(i) = k(j) /\ i < j) \/ Turn[k(i)] < Turn[k(j)]
      PROVE  Cardinality(B(i)) < Cardinality(B(j))
  <2>1. B(i) \subseteq B(j)
    <3> SUFFICES ASSUME NEW x \in B(i)
                 PROVE  x \in B(j)
      OBVIOUS
    <3>1. x \in 1..L /\ (Turn[k(x)] < Turn[k(i)] \/ (k(x) = k(i) /\ x <= i))
      OBVIOUS
    <3>2. Turn[k(x)] \in Nat /\ Turn[k(i)] \in Nat /\ Turn[k(j)] \in Nat /\ i \in Nat /\ j \in Nat /\ x \in Nat
      BY <1>1, <1>2, <1>5, <3>1
    <3>3. Turn[k(x)] < Turn[k(j)] \/ (k(x) = k(j) /\ x <= j)
      BY <1>8, <3>1, <3>2
    <3> QED
      BY <3>1, <3>3
  <2>2. j \notin B(i)
    <3>1. Turn[k(i)] \in Nat /\ Turn[k(j)] \in Nat /\ i \in Nat /\ j \in Nat
      BY <1>1, <1>2, <1>5
    <3> QED
      BY <1>8, <3>1
  <2> HIDE DEF B
  <2> QED
    BY <1>7, <2>1, <2>2, SmallerPart
<1>9. ASSUME NEW i \in 1..L, NEW j \in 1..L, Cardinality(B(i)) = Cardinality(B(j))
      PROVE  i = j
  <2> HIDE DEF B
  <2>1. Cardinality(B(i)) \in Nat /\ Cardinality(B(j)) \in Nat
    BY <1>1, <1>7
  <2>2. /\ ~(k(i) = k(j) /\ i < j) /\ ~(Turn[k(i)] < Turn[k(j)])
        /\ ~(k(j) = k(i) /\ j < i) /\ ~(Turn[k(j)] < Turn[k(i)])
    BY <1>8, <1>9, <2>1
  <2>3. Turn[k(i)] \in Nat /\ Turn[k(j)] \in Nat /\ i \in Nat /\ j \in Nat
    BY <1>1, <1>2, <1>5
  <2>4. k(i) = k(j)
    BY <1>2, <1>5, <2>2, <2>3
  <2> QED
    BY <2>2, <2>3, <2>4
<1> HIDE DEF B
<1> QED
  BY <1>1, <1>3, <1>4, <1>7, <1>9 DEF L

\* Said in the room, an announcement counts as it did while it was pending.
LEMMA RoomCounts ==
  ASSUME NEW s, NEW t, Counted(s),
         t.history = s.history \cup Saying(s), t.said = s.said + Cardinality(Saying(s)),
         t.pending = << >>, t.external = s.external,
         t.users = s.users, t.global = s.global
  PROVE  Counted(t) /\ \A u \in Uid, c \in Channel : Present(t, u, c) = Present(s, u, c)
<1> DEFINE p == s.pending
           D == 1..Len(p)
           Msg(i) == [id |-> s.said + Place(p, i), kind |-> p[i].kind, ch |-> p[i].ch, from |-> p[i].u, to |-> "nobody"]
<1>1. s.said \in Nat /\ p \in Seq([kind : Announced, u : Uid, ch : Channel])
  BY DEF Counted
<1>2. /\ Len(p) \in Nat /\ DOMAIN p = D /\ Announcing(p) = D
      /\ \A i \in D : Place(p, i) \in D
      /\ \A i, j \in D : Place(p, i) = Place(p, j) => i = j
  BY <1>1, PlacesAreUnique
<1>3. Saying(s) = {Msg(i) : i \in D}
  BY <1>2 DEF Saying
<1>4. \A i \in D : /\ Msg(i).id = s.said + Place(p, i) /\ Msg(i).kind = p[i].kind /\ p[i].kind \in Announced
                   /\ Msg(i).ch = p[i].ch /\ Msg(i).from = p[i].u
  BY <1>1, KindsPending
<1> HIDE DEF Msg, p
<1>5. \A i, j \in D : Msg(i) = Msg(j) => i = j
  <2> SUFFICES ASSUME NEW i \in D, NEW j \in D, Msg(i) = Msg(j)
               PROVE  i = j
    OBVIOUS
  <2>1. s.said + Place(p, i) = s.said + Place(p, j) /\ Place(p, i) \in D /\ Place(p, j) \in D
    BY <1>2, <1>4
  <2>2. Place(p, i) = Place(p, j)
    BY <1>1, <1>2, <2>1
  <2> QED
    BY <1>2, <2>2
<1>6. ASSUME NEW S \in SUBSET D
      PROVE  LET new == {Msg(i) : i \in S} IN
             IsFiniteSet(new) /\ Cardinality(new) = Cardinality(S) /\ IsFiniteSet(S)
  <2> DEFINE new == {Msg(i) : i \in S}
             f == [i \in S |-> Msg(i)]
  <2>0. IsFiniteSet(D)
    BY <1>2, FS_Interval
  <2>1. IsFiniteSet(S)
    <3> HIDE DEF D
    <3> QED  BY <2>0, FS_Subset
  <2>2. f \in [S -> new] /\ \A i, j \in S : f[i] = f[j] => i = j
    BY <1>5
  <2>3. \A e \in new : \E i \in S : f[i] = e
    OBVIOUS
  <2> HIDE DEF new, f
  <2>4. f \in Bijection(S, new)
    BY <2>2, <2>3 DEF Bijection, Injection, IsInjective, Surjection
  <2>5. ExistsBijection(S, new)
    BY <2>4 DEF ExistsBijection
  <2>6. IsFiniteSet(new) /\ Cardinality(new) = Cardinality(S)
    BY <2>1, <2>5, FS_Bijection
  <2> QED
    BY <2>1, <2>6 DEF new
<1>7. Cardinality(Saying(s)) = Len(p) /\ t.said = s.said + Len(p)
  <2>1. Cardinality(D) = Len(p)
    BY <1>2, FS_Interval
  <2> QED
    BY <1>3, <1>6, <2>1
<1>8. \A e \in Saying(s) : e.kind \in Announced /\ e.id > s.said /\ e.id \in 0..t.said
  <2> SUFFICES ASSUME NEW i \in D
               PROVE  Msg(i).kind \in Announced /\ Msg(i).id > s.said /\ Msg(i).id \in 0..t.said
    BY <1>3
  <2>1. Place(p, i) \in D /\ Msg(i).id = s.said + Place(p, i) /\ Msg(i).kind \in Announced
    BY <1>2, <1>4
  <2>2. Place(p, i) \in 1..Len(p) /\ Len(p) \in Nat /\ s.said \in Nat
    BY <1>1, <1>2, <2>1
  <2>3. s.said + Place(p, i) > s.said /\ s.said + Place(p, i) \in 0..(s.said + Len(p))
    BY <2>2
  <2> QED
    BY <1>7, <2>1, <2>3
<1>9. ASSUME NEW K \in SUBSET Announced, NEW u \in Uid, NEW c \in Channel
      PROVE  /\ IsFiniteSet(Made(t, K, u, c))
             /\ Told(t, K, u, c) = Told(s, K, u, c)
  <2> DEFINE S == ToMake(s, K, u, c)
             new == {Msg(i) : i \in S}
             old == Made(s, K, u, c)
  <2>1. S \subseteq D /\ \A i \in D : i \in S <=> (p[i].kind \in K /\ p[i].u = u /\ p[i].ch = c)
    BY <1>2 DEF ToMake, p
  <2> HIDE DEF S
  <2>2. IsFiniteSet(new) /\ Cardinality(new) = Cardinality(S)
    BY <1>6, <2>1
  <2>3. Made(t, K, u, c) = old \cup new
    <3>1. \A i \in D : Msg(i).kind \in K /\ Msg(i).from = u /\ Msg(i).ch = c <=> i \in S
      BY <1>4, <2>1
    <3>2. {e \in Saying(s) : e.kind \in K /\ e.from = u /\ e.ch = c} = new
      BY <1>3, <2>1, <3>1
    <3> HIDE DEF new
    <3> QED
      BY <3>2 DEF Made
  <2>4. new \subseteq Saying(s)
    BY <1>3, <2>1
  <2> HIDE DEF new
  <2>5. old \cap new = {}
    <3> SUFFICES ASSUME NEW e \in old, e \in new
                 PROVE  FALSE
      OBVIOUS
    <3>1. e.id \in 0..s.said
      BY DEF Counted, Made
    <3>2. e.id > s.said
      BY <1>8, <2>4
    <3> QED
      BY <1>1, <3>1, <3>2
  <2>6. IsFiniteSet(old) /\ Cardinality(old) \in Nat /\ Cardinality(S) \in Nat
    BY ToldIsNat DEF S
  <2> HIDE DEF old
  <2>7. IsFiniteSet(old \cup new) /\ Cardinality(old \cup new) = Cardinality(old) + Cardinality(S)
    <3>1. Cardinality(old \cap new) = 0
      BY <2>5, FS_EmptySet
    <3>2. /\ IsFiniteSet(old \cup new)
          /\ Cardinality(old \cup new) = Cardinality(old) + Cardinality(new) - Cardinality(old \cap new)
      BY <2>2, <2>6, FS_Union
    <3> QED
      BY <2>2, <2>6, <3>1, <3>2
  <2>8. ToMake(t, K, u, c) = {}
    BY DEF ToMake
  <2>9. Cardinality(ToMake(t, K, u, c)) = 0
    BY <2>8, FS_EmptySet
  <2> QED
    BY <2>3, <2>6, <2>7, <2>9 DEF Told, S, old
<1>10. Counted(t)
  <2>1. t.said \in Nat /\ t.said >= s.said
    BY <1>1, <1>2, <1>7
  <2>2. \A e \in t.history : e.kind \in Announced => e.id \in 0..t.said
    <3>1. \A e \in s.history : e.kind \in Announced => e.id \in 0..s.said
      BY DEF Counted
    <3>2. 0..s.said \subseteq 0..t.said
      BY <1>1, <2>1
    <3> QED
      BY <1>8, <3>1, <3>2
  <2>3. t.pending \in Seq([kind : Announced, u : Uid, ch : Channel])
    OBVIOUS
  <2>4. \A u \in Uid, c \in Channel : IsFiniteSet(Made(t, Announced, u, c))
    BY <1>9, KindsAre
  <2> QED
    BY <2>1, <2>2, <2>3, <2>4 DEF Counted
<1>11. \A u \in Uid, c \in Channel : Present(t, u, c) = Present(s, u, c)
  BY <1>9, KindsAre DEF Present
<1> QED
  BY <1>10, <1>11

\* t has of w what s has, but that it may be published again.
Spares(s, t, w) ==
  /\ \A c \in Channel : Present(t, w, c) = Present(s, w, c)
  /\ t.users[w].us = s.users[w].us /\ t.users[w].vis = s.users[w].vis
  /\ w \notin t.loose => w \notin s.loose /\ t.global[w] \in {s.global[w], StateOf(s, w)}

LEMMA QuietSpares ==
  ASSUME NEW s, NEW t, Quiet(s, t), NEW w \in Uid
  PROVE  Spares(s, t, w)
<1>1. \A c \in Channel : Present(t, w, c) = Present(s, w, c)
  BY QuietTold
<1> QED
  BY <1>1 DEF Spares, Quiet

LEMMA SparesTwice ==
  ASSUME NEW s, NEW t, NEW r, NEW w, Spares(s, t, w), Spares(t, r, w)
  PROVE  Spares(s, r, w)
<1>1. StateOf(t, w) = StateOf(s, w)
  BY DEF Spares, StateOf
<1> QED
  BY <1>1 DEF Spares

SparesOthers(s, t, u) == \A w \in Uid \ {u} : Spares(s, t, w)

LEMMA OthersTwice ==
  ASSUME NEW s, NEW t, NEW r, NEW u, SparesOthers(s, t, u), SparesOthers(t, r, u)
  PROVE  SparesOthers(s, r, u)
  BY SparesTwice DEF SparesOthers

LEMMA QuietOthers ==
  ASSUME NEW s, NEW t, Quiet(s, t), NEW u
  PROVE  SparesOthers(s, t, u)
  BY QuietSpares DEF SparesOthers

\* The record of one user is replaced, and published anew.
Replaces(s, t, u, r, g) ==
  /\ t.history = s.history /\ t.pending = s.pending /\ t.said = s.said /\ t.external = s.external
  /\ t.users = [s.users EXCEPT ![u] = r] /\ t.global = [s.global EXCEPT ![u] = g]
  /\ s.loose \subseteq t.loose /\ t.loose \subseteq s.loose \cup {u}
  /\ r.us \in ChannelUs /\ IsFiniteSet(export_channels(r.us)) /\ r.vis \in BOOLEAN
  /\ r.loaded = FALSE => r.us = NoChannels /\ r.vis = TRUE
  /\ DOMAIN g = {"us", "vis"}

LEMMA OneUser ==
  ASSUME NEW s, Sound(s), NEW t, NEW u \in Uid, NEW r, NEW g, Replaces(s, t, u, r, g)
  PROVE  /\ Counted(t) /\ SparesOthers(s, t, u)
         /\ \A c \in Channel : Present(t, u, c) = Present(s, u, c)
         /\ t.users[u] = r /\ t.global[u] = g
<1> USE DEF Replaces
<1>1. Shaped(s) /\ Counted(s)
  BY DEF Sound, Fine
<1>2. ASSUME NEW K \in SUBSET Announced, NEW w, NEW c
      PROVE  Made(t, K, w, c) = Made(s, K, w, c) /\ Told(t, K, w, c) = Told(s, K, w, c)
  BY SameTold
<1>3. \A w \in Uid, c \in Channel : Present(t, w, c) = Present(s, w, c)
  BY <1>2, KindsAre DEF Present
<1>4. t.users[u] = r /\ t.global[u] = g
  BY <1>1 DEF Shaped, Counted
<1>5. \A w \in Uid \ {u} : t.users[w] = s.users[w] /\ t.global[w] = s.global[w]
  BY <1>1 DEF Shaped, Counted
<1>6. \A w \in Uid \ {u} : Spares(s, t, w)
  BY <1>3, <1>5 DEF Spares
<1>7. Counted(t)
  <2>1. \A w \in Uid, c \in Channel : IsFiniteSet(Made(t, Announced, w, c))
    BY <1>1, <1>2, KindsAre DEF Counted
  <2>2. ASSUME NEW w \in Uid
        PROVE  /\ t.users[w].us \in ChannelUs /\ t.users[w].vis \in BOOLEAN
               /\ t.users[w].loaded = FALSE => t.users[w].us = NoChannels /\ t.users[w].vis = TRUE
               /\ IsFiniteSet(export_channels(t.users[w].us))
               /\ DOMAIN t.global[w] = {"us", "vis"}
    <3>1. CASE w = u
      BY <1>4, <3>1
    <3>2. CASE w # u
      BY <1>1, <1>5, <3>2 DEF Counted
    <3> QED  BY <3>1, <3>2
  <2>3. DOMAIN t.global = Uid
    BY <1>1 DEF Counted
  <2> QED
    BY <1>1, <2>1, <2>2, <2>3 DEF Counted
<1> QED
  BY <1>3, <1>4, <1>6, <1>7 DEF SparesOthers

\* An announcement spares the others.
LEMMA AnnounceSpares ==
  ASSUME NEW s, Sound(s), NEW kind \in Announced, NEW u \in Uid,
         NEW chans \in SUBSET Channel, IsFiniteSet(chans)
  PROVE  SparesOthers(s, announce(s, kind, u, chans), u)
<1> DEFINE t == announce(s, kind, u, chans)
<1>1. /\ t.users = s.users /\ t.global = s.global /\ t.loose = s.loose
      /\ Counts(s, t, kind, u, chans)
  BY AnnounceCounts
<1>2. \A v \in Uid, c \in Channel : Present(s, v, c) \in Int
  BY PresentIsInt DEF Sound
<1> HIDE DEF t
<1>3. \A w \in Uid \ {u}, c \in Channel : Present(t, w, c) = Present(s, w, c)
  BY <1>1, <1>2 DEF Counts
<1> QED
  BY <1>1, <1>3 DEF SparesOthers, Spares, t

LEMMA KindsAnnounced == "GREETING" \in Announced /\ "QUIT" \in Announced /\ "CHROOM" \in Announced /\ "KICK" \in Announced
  BY DEF Announced, Partings

\* One channel.
LEMMA OneChannel ==
  ASSUME NEW c \in Channel
  PROVE  {c} \in SUBSET Channel /\ IsFiniteSet({c})
  BY FS_Singleton

\* The channels after a JOIN.
Joined(us, e) ==
  IF e.ct = "irc" THEN channel_add(us, "irc", e.ch) ELSE www_channel_replace(us, e.ch)

LEMMA JoinedIs ==
  ASSUME NEW us \in ChannelUs, NEW e, e.ct \in CT, e.ch \in Channel, IsFiniteSet(export_channels(us))
  PROVE  /\ Joined(us, e) \in ChannelUs /\ IsFiniteSet(export_channels(Joined(us, e)))
         /\ \A c \in Channel : Joined(us, e)[c] =
              IF e.ct = "irc" THEN (IF c = e.ch THEN us[c] \cup {"irc"} ELSE us[c])
              ELSE IF c = e.ch THEN us[c] \cup {"www"} ELSE us[c] \ {"www"}
<1>1. Joined(us, e) \in ChannelUs
  BY DEF Joined, ChannelUs, CT, channel_add, www_channel_replace
<1>2. \A c \in Channel : Joined(us, e)[c] =
              IF e.ct = "irc" THEN (IF c = e.ch THEN us[c] \cup {"irc"} ELSE us[c])
              ELSE IF c = e.ch THEN us[c] \cup {"www"} ELSE us[c] \ {"www"}
  BY DEF Joined, ChannelUs, channel_add, www_channel_replace
<1>3. export_channels(Joined(us, e)) \subseteq export_channels(us) \cup {e.ch}
  BY <1>2 DEF export_channels
<1>4. IsFiniteSet(export_channels(us) \cup {e.ch})
  BY FS_AddElement
<1> QED
  BY <1>1, <1>2, <1>3, <1>4, FS_Subset

\* When a JOIN makes the user come and go on its channel.
Comes(old, e) == e.vis = TRUE /\ (old.us[e.ch] = {} \/ old.vis = FALSE)
Vanishes(old, e) == old.us[e.ch] # {} /\ old.vis = TRUE /\ e.vis = FALSE

\* on_JOIN_fix_lists announces the user on the channel joined alone.
JoinEffect(s, t, e) ==
  LET old == s.users[e.u]
      us == Joined(old.us, e) IN
  /\ t.users[e.u].us = us /\ t.users[e.u].vis = e.vis
  /\ t.global[e.u] = [us |-> us, vis |-> e.vis]
  /\ e.u \notin t.loose => e.u \notin s.loose /\ (old.vis = e.vis \/ export_channels(us) = {e.ch})
  /\ \A c \in Channel : c # e.ch => Present(t, e.u, c) = Present(s, e.u, c)
  /\ Present(t, e.u, e.ch) = Present(s, e.u, e.ch)
       + IF Comes(old, e) THEN 1 ELSE IF Vanishes(old, e) THEN 0 - 1 ELSE 0

LEMMA JoinDoes ==
  ASSUME NEW s, Sound(s), NEW e, e.u \in Uid, e.ct \in CT, e.ch \in Channel, e.vis \in BOOLEAN,
         s.users[e.u].loaded = TRUE
  PROVE  LET t == on_JOIN_fix_lists(s, e) IN
         Sound(t) /\ SparesOthers(s, t, e.u) /\ JoinEffect(s, t, e)
<1> DEFINE u == e.u
           old == s.users[u]
           us == Joined(old.us, e)
           r == [old EXCEPT !.us = us, !.vis = e.vis]
           g == [us |-> us, vis |-> e.vis]
           loose == IF old.vis # e.vis /\ export_channels(us) # {e.ch}
                    THEN s.loose \cup {u} ELSE s.loose
           joined == [s EXCEPT !.users[u] = r, !.global[u] = g, !.loose = loose]
           greeted == IF Comes(old, e) THEN announce(joined, "GREETING", u, {e.ch}) ELSE joined
           t == on_JOIN_fix_lists(s, e)
<1>1. Shaped(s) /\ Counted(s) /\ Fine(s)
  BY DEF Sound, Fine
<1>4. /\ old.us \in ChannelUs /\ old.vis \in BOOLEAN /\ IsFiniteSet(export_channels(old.us))
      /\ DOMAIN old = {"loaded", "us", "vis", "voice"}
  BY <1>1 DEF Counted, Shaped
<1>2. t = IF Vanishes(old, e) THEN announce(greeted, "QUIT", u, {e.ch}) ELSE greeted
  BY <1>4 DEF on_JOIN_fix_lists, Joined, Greeted, Comes, Vanishes
<1>5. us \in ChannelUs /\ IsFiniteSet(export_channels(us))
  BY <1>4, JoinedIs
<1>6. r.us = us /\ r.vis = e.vis /\ r.loaded = TRUE /\ DOMAIN r = {"loaded", "us", "vis", "voice"}
  BY <1>4
<1>7. DOMAIN g = {"us", "vis"}
  OBVIOUS
<1>8. /\ joined.history = s.history /\ joined.pending = s.pending /\ joined.said = s.said
      /\ joined.external = s.external /\ joined.loose = loose
      /\ joined.users = [s.users EXCEPT ![u] = r] /\ joined.global = [s.global EXCEPT ![u] = g]
      /\ DOMAIN joined = DOMAIN s /\ joined.nicks = s.nicks /\ joined.screen = s.screen
      /\ joined.kicked = s.kicked
  BY <1>1 DEF Shaped
<1>9. /\ s.loose \subseteq loose /\ loose \subseteq s.loose \cup {u}
      /\ u \notin loose => u \notin s.loose /\ (old.vis = e.vis \/ export_channels(us) = {e.ch})
  OBVIOUS
<1> HIDE DEF joined, loose, g, r, us
<1>10. Replaces(s, joined, u, r, g)
  BY <1>5, <1>6, <1>7, <1>8, <1>9 DEF Replaces
<1>11. /\ Counted(joined) /\ SparesOthers(s, joined, u)
       /\ \A c \in Channel : Present(joined, u, c) = Present(s, u, c)
       /\ joined.users[u] = r /\ joined.global[u] = g
  BY <1>10, OneUser
<1>12. Fine(joined)
  BY <1>1, <1>6, <1>8, UserKeeps
<1>13. Sound(joined) /\ {e.ch} \in SUBSET Channel /\ IsFiniteSet({e.ch})
  BY <1>11, <1>12, OneChannel DEF Sound
<1>14. ASSUME NEW x, Sound(x), SparesOthers(s, x, u),
              x.users = joined.users, x.global = joined.global, x.loose = joined.loose,
              \A c \in Channel : c # e.ch => Present(x, u, c) = Present(s, u, c),
              Present(x, u, e.ch) = Present(s, u, e.ch)
                + IF Comes(old, e) THEN 1 ELSE IF Vanishes(old, e) THEN 0 - 1 ELSE 0
       PROVE  Sound(x) /\ SparesOthers(s, x, u) /\ JoinEffect(s, x, e)
  BY <1>6, <1>8, <1>9, <1>11, <1>14 DEF JoinEffect, us, g
<1>15. ASSUME NEW kind \in Announced, NEW x, x = announce(joined, kind, u, {e.ch})
       PROVE  /\ Sound(x) /\ SparesOthers(s, x, u)
              /\ x.users = joined.users /\ x.global = joined.global /\ x.loose = joined.loose
              /\ \A c \in Channel : c # e.ch => Present(x, u, c) = Present(s, u, c)
              /\ Present(x, u, e.ch) = Present(s, u, e.ch) + IF kind = "GREETING" THEN 1 ELSE 0 - 1
  <2>1. /\ Sound(x) /\ x.users = joined.users /\ x.global = joined.global /\ x.loose = joined.loose
        /\ Counts(joined, x, kind, u, {e.ch})
    BY <1>13, <1>15, AnnounceCounts
  <2>2. SparesOthers(s, x, u)
    BY <1>11, <1>13, <1>15, AnnounceSpares, OthersTwice
  <2>3. \A c \in Channel : Present(s, u, c) \in Int
    BY <1>1, PresentIsInt
  <2> QED
    BY <1>11, <2>1, <2>2, <2>3 DEF Counts
<1>16. ~(Comes(old, e) /\ Vanishes(old, e))
  BY DEF Comes, Vanishes
<1>17. CASE Comes(old, e)
  <2>1. t = announce(joined, "GREETING", u, {e.ch})
    BY <1>2, <1>16, <1>17
  <2> HIDE DEF t, old
  <2> QED
    BY <1>14, <1>15, <1>17, <2>1, KindsAnnounced DEF t
<1>18. CASE Vanishes(old, e)
  <2>1. t = announce(joined, "QUIT", u, {e.ch})
    BY <1>2, <1>16, <1>18
  <2> HIDE DEF t, old
  <2> QED
    BY <1>14, <1>15, <1>16, <1>18, <2>1, KindsAnnounced DEF t
<1>19. CASE ~Comes(old, e) /\ ~Vanishes(old, e)
  <2>1. t = joined
    BY <1>2, <1>19
  <2>2. Present(joined, u, e.ch) = Present(s, u, e.ch) + 0
    <3>1. Present(s, u, e.ch) \in Int /\ Present(joined, u, e.ch) = Present(s, u, e.ch)
      BY <1>1, <1>11, PresentIsInt
    <3> QED  BY <3>1
  <2> HIDE DEF t, old
  <2> QED
    BY <1>11, <1>13, <1>14, <1>19, <2>1, <2>2 DEF t
<1> QED
  BY <1>17, <1>18, <1>19

\* What the announcements say of u is so.
Even(s, u) == \A c \in Channel : Present(s, u, c) = IF Seen(s, u, c) THEN 1 ELSE 0

\* What global_state has of u is what the chat thread has; whether a user who
\* is nowhere is seen does not matter.
Agrees(s, u) ==
  /\ s.global[u].us = s.users[u].us
  /\ InSomeChannel(s.users[u].us) => s.global[u].vis = s.users[u].vis

\* The change of a user's state by do_set_user_state and its announcement.
LEMMA StatusDoes ==
  ASSUME NEW s, Sound(s), NEW e, e.u \in Uid, e.vis \in BOOLEAN, s.users[e.u].loaded = TRUE
  PROVE  LET t == on_SET_STATUS(s, e)
             u == e.u IN
         /\ Sound(t) /\ SparesOthers(s, t, u) /\ t.loose = s.loose
         /\ Even(s, u) => Even(t, u)
         /\ t.users[u].us = s.users[u].us
         /\ IF InSomeChannel(s.users[u].us)
            THEN t.users[u].vis = e.vis /\ t.global[u] = [us |-> s.users[u].us, vis |-> e.vis]
            ELSE t = s
<1> DEFINE u == e.u
           old == s.users[u]
           chans == export_channels(old.us)
           r == [old EXCEPT !.vis = e.vis]
           g == [us |-> old.us, vis |-> e.vis]
           set == [s EXCEPT !.users[u].vis = e.vis, !.global[u] = g]
           kind == IF e.vis THEN "GREETING" ELSE "QUIT"
           t == on_SET_STATUS(s, e)
<1>1. Shaped(s) /\ Counted(s) /\ Fine(s)
  BY DEF Sound, Fine
<1>2. /\ old.us \in ChannelUs /\ old.vis \in BOOLEAN /\ IsFiniteSet(chans) /\ chans \in SUBSET Channel
      /\ DOMAIN old = {"loaded", "us", "vis", "voice"}
  BY <1>1 DEF Counted, Shaped, export_channels
<1>3. CASE chans = {}
  <2>1. t = s
    BY <1>3 DEF on_SET_STATUS
  <2>2. SparesOthers(s, s, u)
    BY <1>1, QuietSelf, QuietOthers
  <2> QED
    BY <1>3, <2>1, <2>2 DEF InSomeChannel
<1>4. CASE chans # {}
  <2>1. t = IF e.vis = old.vis THEN set ELSE announce(set, kind, u, chans)
    BY <1>4 DEF on_SET_STATUS
  <2>2. r.us = old.us /\ r.vis = e.vis /\ r.loaded = TRUE /\ DOMAIN r = {"loaded", "us", "vis", "voice"}
    BY <1>2
  <2>3. /\ set.history = s.history /\ set.pending = s.pending /\ set.said = s.said
        /\ set.external = s.external /\ set.loose = s.loose
        /\ set.users = [s.users EXCEPT ![u] = r] /\ set.global = [s.global EXCEPT ![u] = g]
        /\ DOMAIN set = DOMAIN s /\ set.nicks = s.nicks /\ set.screen = s.screen
        /\ set.kicked = s.kicked
    BY <1>1 DEF Shaped
  <2>4. DOMAIN g = {"us", "vis"}
    OBVIOUS
  <2>5. kind \in Announced /\ (kind = "GREETING" <=> e.vis)
    BY KindsAnnounced
  <2> HIDE DEF set, r, g, kind
  <2>6. Replaces(s, set, u, r, g)
    BY <1>2, <2>2, <2>3, <2>4 DEF Replaces
  <2>7. /\ Counted(set) /\ SparesOthers(s, set, u)
        /\ \A c \in Channel : Present(set, u, c) = Present(s, u, c)
        /\ set.users[u] = r /\ set.global[u] = g
    BY <2>6, OneUser
  <2>8. Fine(set)
    BY <1>1, <2>2, <2>3, UserKeeps
  <2>9. Sound(set)
    BY <2>7, <2>8 DEF Sound
  <2>10. \A c \in Channel : Seen(s, u, c) <=> (c \in chans /\ old.vis = TRUE)
    BY <1>2 DEF Seen, export_channels
  <2>11. ASSUME NEW x, x.users = set.users
         PROVE  \A c \in Channel : Seen(x, u, c) <=> (c \in chans /\ e.vis = TRUE)
    BY <2>2, <2>7, <2>11 DEF Seen, export_channels
  <2>12. CASE e.vis = old.vis
    <3>1. t = set
      BY <2>1, <2>12
    <3>2. Even(s, u) => Even(set, u)
      BY <2>7, <2>10, <2>11, <2>12 DEF Even
    <3> HIDE DEF t, old, chans
    <3> QED
      BY <1>4, <2>2, <2>3, <2>7, <2>9, <3>1, <3>2 DEF InSomeChannel, old, chans, g, t
  <2>13. CASE e.vis # old.vis
    <3>1. t = announce(set, kind, u, chans)
      BY <2>1, <2>13
    <3> HIDE DEF t, old
    <3>2. /\ Sound(t) /\ t.users = set.users /\ t.global = set.global /\ t.loose = set.loose
          /\ Counts(set, t, kind, u, chans)
      BY <1>2, <2>5, <2>9, <3>1, AnnounceCounts
    <3>3. SparesOthers(s, t, u)
      BY <1>2, <2>5, <2>7, <2>9, <3>1, AnnounceSpares, OthersTwice
    <3>4. ASSUME Even(s, u), NEW c \in Channel
          PROVE  Present(t, u, c) = IF Seen(t, u, c) THEN 1 ELSE 0
      <4>1. Present(s, u, c) = IF c \in chans /\ old.vis = TRUE THEN 1 ELSE 0
        BY <2>10, <3>4 DEF Even
      <4>2. Present(t, u, c) = Present(s, u, c) + IF c \in chans THEN (IF kind = "GREETING" THEN 1 ELSE 0 - 1) ELSE 0
        BY <2>7, <3>2 DEF Counts
      <4>3. Seen(t, u, c) <=> (c \in chans /\ e.vis = TRUE)
        BY <2>11, <3>2
      <4> QED
        BY <1>2, <2>5, <2>13, <4>1, <4>2, <4>3
    <3> QED
      BY <1>4, <2>2, <2>3, <2>7, <3>2, <3>3, <3>4 DEF Even, InSomeChannel, old, g, t
  <2> QED
    BY <2>12, <2>13
<1> QED
  BY <1>3, <1>4

LEMMA PartedIs ==
  ASSUME NEW us \in ChannelUs, NEW chans \in SUBSET Channel, NEW ct \in CT, IsFiniteSet(export_channels(us))
  PROVE  /\ part_channels(us, chans, ct) \in ChannelUs
         /\ \A c \in Channel : part_channels(us, chans, ct)[c] =
              IF chans = {} \/ c \in chans THEN us[c] \ {ct} ELSE us[c]
         /\ IsFiniteSet(export_channels(part_channels(us, chans, ct)))
         /\ Leaves(us, chans, ct) \in SUBSET Channel /\ IsFiniteSet(Leaves(us, chans, ct))
<1>1. part_channels(us, chans, ct) \in ChannelUs
  BY DEF part_channels, ChannelUs
<1>2. \A c \in Channel : part_channels(us, chans, ct)[c] =
              IF chans = {} \/ c \in chans THEN us[c] \ {ct} ELSE us[c]
  BY DEF part_channels
<1>3. export_channels(part_channels(us, chans, ct)) \subseteq export_channels(us)
  BY <1>2 DEF export_channels
<1>4. Leaves(us, chans, ct) \subseteq export_channels(us) /\ export_channels(us) \subseteq Channel
  BY DEF Leaves, parted_channels, export_channels
<1> QED
  BY <1>1, <1>2, <1>3, <1>4, FS_Subset

LEMMA PartDoes ==
  ASSUME NEW s, Sound(s), NEW e, e.u \in Uid, e.ct \in CT, e.chans \in SUBSET Channel,
         s.users[e.u].loaded = TRUE
  PROVE  LET t == on_PART_CHANNEL(s, e)
             u == e.u
             us == part_channels(s.users[u].us, e.chans, e.ct) IN
         /\ Sound(t) /\ SparesOthers(s, t, u) /\ t.loose = s.loose
         /\ Even(s, u) => Even(t, u)
         /\ t.users[u].us = us /\ t.users[u].vis = s.users[u].vis
         /\ t.global[u] = [us |-> us, vis |-> s.users[u].vis]
<1> DEFINE u == e.u
           old == s.users[u]
           us == part_channels(old.us, e.chans, e.ct)
           chans == Leaves(old.us, e.chans, e.ct)
           r == [old EXCEPT !.us = us]
           g == [us |-> us, vis |-> old.vis]
           set == [s EXCEPT !.users[u].us = us, !.global[u] = g]
           t == on_PART_CHANNEL(s, e)
<1>1. Shaped(s) /\ Counted(s) /\ Fine(s)
  BY DEF Sound, Fine
<1>2. /\ old.us \in ChannelUs /\ old.vis \in BOOLEAN /\ IsFiniteSet(export_channels(old.us))
      /\ DOMAIN old = {"loaded", "us", "vis", "voice"}
  BY <1>1 DEF Counted, Shaped
<1>3. /\ us \in ChannelUs /\ IsFiniteSet(export_channels(us)) /\ IsFiniteSet(chans) /\ chans \in SUBSET Channel
      /\ \A c \in Channel : us[c] = IF e.chans = {} \/ c \in e.chans THEN old.us[c] \ {e.ct} ELSE old.us[c]
  <2> HIDE DEF old
  <2>1. /\ us \in ChannelUs /\ IsFiniteSet(export_channels(us)) /\ IsFiniteSet(chans) /\ chans \in SUBSET Channel
    <3> DEFINE K == e.chans
               w == old.us
               ct == e.ct
    <3>1. K \in SUBSET Channel /\ w \in ChannelUs /\ ct \in CT /\ IsFiniteSet(export_channels(w))
      BY <1>2
    <3>2. us = part_channels(w, K, ct) /\ chans = Leaves(w, K, ct)
      OBVIOUS
    <3> HIDE DEF K, w, ct, us, chans
    <3>3. /\ part_channels(w, K, ct) \in ChannelUs /\ IsFiniteSet(export_channels(part_channels(w, K, ct)))
          /\ Leaves(w, K, ct) \in SUBSET Channel /\ IsFiniteSet(Leaves(w, K, ct))
      BY <3>1, PartedIs
    <3> QED
      BY <3>2, <3>3
  <2>2. \A c \in Channel : us[c] = IF e.chans = {} \/ c \in e.chans THEN old.us[c] \ {e.ct} ELSE old.us[c]
    BY DEF part_channels
  <2> QED
    BY <2>1, <2>2
<1>4. \A c \in Channel : c \in chans <=> (old.us[c] # {} /\ us[c] = {})
  BY DEF Leaves, parted_channels, export_channels
<1>5. t = IF old.vis THEN announce(set, "QUIT", u, chans) ELSE set
  BY DEF on_PART_CHANNEL
<1>6. r.us = us /\ r.vis = old.vis /\ r.loaded = TRUE /\ DOMAIN r = {"loaded", "us", "vis", "voice"}
  BY <1>2
<1> HIDE DEF us
<1>7. /\ set.history = s.history /\ set.pending = s.pending /\ set.said = s.said
      /\ set.external = s.external /\ set.loose = s.loose
      /\ set.users = [s.users EXCEPT ![u] = r] /\ set.global = [s.global EXCEPT ![u] = g]
      /\ DOMAIN set = DOMAIN s /\ set.nicks = s.nicks /\ set.screen = s.screen
      /\ set.kicked = s.kicked
  BY <1>1 DEF Shaped
<1>8. DOMAIN g = {"us", "vis"}
  OBVIOUS
<1> HIDE DEF set, r, g, chans
<1>9. Replaces(s, set, u, r, g)
  BY <1>2, <1>3, <1>6, <1>7, <1>8 DEF Replaces
<1>10. /\ Counted(set) /\ SparesOthers(s, set, u)
       /\ \A c \in Channel : Present(set, u, c) = Present(s, u, c)
       /\ set.users[u] = r /\ set.global[u] = g
  BY <1>9, OneUser
<1>11. Fine(set)
  BY <1>1, <1>6, <1>7, UserKeeps
<1>12. Sound(set)
  BY <1>10, <1>11 DEF Sound
<1>13. ASSUME NEW x, x.users = set.users
       PROVE  \A c \in Channel : Seen(x, u, c) <=> (us[c] # {} /\ old.vis = TRUE)
  BY <1>2, <1>6, <1>10, <1>13 DEF Seen
<1>14. CASE old.vis = FALSE
  <2>1. t = set
    BY <1>5, <1>14
  <2>2. Even(s, u) => Even(set, u)
    BY <1>10, <1>13, <1>14 DEF Even, Seen
  <2> HIDE DEF t, old
  <2> QED
    BY <1>6, <1>7, <1>10, <1>12, <2>1, <2>2 DEF us, g, old, t
<1>15. CASE old.vis = TRUE
  <2>1. t = announce(set, "QUIT", u, chans)
    BY <1>5, <1>15
  <2> HIDE DEF t, old
  <2>2. /\ Sound(t) /\ t.users = set.users /\ t.global = set.global /\ t.loose = set.loose
        /\ Counts(set, t, "QUIT", u, chans)
    BY <1>3, <1>12, <2>1, KindsAnnounced, AnnounceCounts
  <2>3. SparesOthers(s, t, u)
    BY <1>3, <1>10, <1>12, <2>1, KindsAnnounced, AnnounceSpares, OthersTwice
  <2>4. ASSUME Even(s, u), NEW c \in Channel
        PROVE  Present(t, u, c) = IF Seen(t, u, c) THEN 1 ELSE 0
    <3>1. Present(s, u, c) = IF old.us[c] # {} THEN 1 ELSE 0
      BY <1>15, <2>4 DEF Even, Seen, old
    <3>2. Present(t, u, c) = Present(s, u, c) + IF c \in chans THEN 0 - 1 ELSE 0
      BY <1>10, <2>2 DEF Counts
    <3>3. Seen(t, u, c) <=> us[c] # {}
      BY <1>13, <1>15, <2>2
    <3>4. old.us[c] = {} => us[c] = {}
      BY <1>3
    <3> QED
      BY <1>4, <3>1, <3>2, <3>3, <3>4
  <2> QED
    BY <1>6, <1>7, <1>10, <2>2, <2>3, <2>4 DEF Even, us, g, old, t
<1> QED
  BY <1>2, <1>14, <1>15

LEMMA StrangerIs ==
  /\ Stranger.us = NoChannels /\ Stranger.vis = TRUE /\ Stranger.loaded = FALSE
  /\ NoChannels \in ChannelUs /\ IsFiniteSet(export_channels(NoChannels))
  /\ \A c \in Channel : NoChannels[c] = {}
  /\ NoState.us = NoChannels /\ NoState.vis = TRUE /\ DOMAIN NoState = {"us", "vis"}
  /\ ~InSomeChannel(NoChannels)
<1>1. NoChannels \in ChannelUs /\ \A c \in Channel : NoChannels[c] = {}
  BY DEF NoChannels, ChannelUs
<1>2. export_channels(NoChannels) = {}
  BY <1>1 DEF export_channels
<1> QED
  BY <1>1, <1>2, FS_EmptySet DEF Stranger, NoState, InSomeChannel

LEMMA KickDoes ==
  ASSUME NEW s, Sound(s), NEW e, e.u \in Uid
  PROVE  LET t == on_KICK_USER(s, e)
             u == e.u IN
         /\ Sound(t) /\ SparesOthers(s, t, u) /\ t.loose = s.loose
         /\ Even(s, u) => Even(t, u)
         /\ t.users[u] = Stranger /\ t.global[u] = NoState
<1> DEFINE u == e.u
           old == s.users[u]
           chans == export_channels(old.us)
           said == IF old.vis THEN announce(s, "KICK", u, chans) ELSE s
           t == on_KICK_USER(s, e)
<1>1. Shaped(s) /\ Counted(s) /\ Fine(s)
  BY DEF Sound, Fine
<1>2. old.us \in ChannelUs /\ old.vis \in BOOLEAN /\ IsFiniteSet(chans) /\ chans \in SUBSET Channel
  BY <1>1 DEF Counted, export_channels
<1>3. /\ Sound(said) /\ SparesOthers(s, said, u) /\ said.users = s.users /\ said.global = s.global /\ said.loose = s.loose
      /\ Even(s, u) => \A c \in Channel : Present(said, u, c) = 0
  <2>1. CASE old.vis = FALSE
    <3>1. said = s
      BY <2>1
    <3>2. Even(s, u) => \A c \in Channel : Present(s, u, c) = 0
      BY <2>1 DEF Even, Seen
    <3> QED
      BY <1>1, <3>1, <3>2, QuietSelf, QuietOthers
  <2>2. CASE old.vis = TRUE
    <3>1. said = announce(s, "KICK", u, chans)
      BY <2>2
    <3> HIDE DEF said
    <3>2. /\ Sound(said) /\ said.users = s.users /\ said.global = s.global /\ said.loose = s.loose
          /\ Counts(s, said, "KICK", u, chans)
      BY <1>2, <3>1, KindsAnnounced, AnnounceCounts
    <3>3. SparesOthers(s, said, u)
      BY <1>2, <3>1, KindsAnnounced, AnnounceSpares
    <3>4. ASSUME Even(s, u), NEW c \in Channel
          PROVE  Present(said, u, c) = 0
      <4>1. Present(s, u, c) = IF c \in chans THEN 1 ELSE 0
        BY <2>2, <3>4 DEF Even, Seen, export_channels
      <4>2. Present(said, u, c) = Present(s, u, c) + IF c \in chans THEN 0 - 1 ELSE 0
        BY <3>2 DEF Counts
      <4> QED
        BY <4>1, <4>2
    <3> QED
      BY <3>2, <3>3, <3>4
  <2> QED
    BY <1>2, <2>1, <2>2
<1>4. t = [said EXCEPT !.users[u] = Stranger,
               !.nicks[u] = IF @.entry = "object" THEN [entry |-> "orphan", vis |-> old.vis] ELSE @,
               !.global[u] = NoState,
               !.clients = @ \ {u},
               !.sessions = @ \ {u},
               !.screen[u] = NewPage,
               !.kicked = @ \cup {u}]
  BY DEF on_KICK_USER
<1>5. Fine(t)
  BY <1>1, KickedKeeps
<1> HIDE DEF t, said
<1>6. /\ t.history = said.history /\ t.pending = said.pending /\ t.said = said.said
      /\ t.external = said.external /\ t.loose = said.loose
      /\ t.users = [said.users EXCEPT ![u] = Stranger] /\ t.global = [said.global EXCEPT ![u] = NoState]
  BY <1>3, <1>4 DEF Sound, Fine, Shaped
<1>7. Replaces(said, t, u, Stranger, NoState)
  BY <1>6, StrangerIs DEF Replaces
<1>8. /\ Counted(t) /\ SparesOthers(said, t, u)
      /\ \A c \in Channel : Present(t, u, c) = Present(said, u, c)
      /\ t.users[u] = Stranger /\ t.global[u] = NoState
  BY <1>3, <1>7, OneUser
<1>9. \A c \in Channel : ~Seen(t, u, c)
  BY <1>8, StrangerIs DEF Seen
<1>10. Even(s, u) => Even(t, u)
  BY <1>3, <1>8, <1>9 DEF Even
<1> QED
  BY <1>3, <1>5, <1>6, <1>8, <1>10, OthersTwice DEF Sound, t

LEMMA UnloadDoes ==
  ASSUME NEW s, Sound(s), NEW e, e.u \in Uid
  PROVE  LET t == unload_user(s, e)
             u == e.u IN
         /\ Sound(t) /\ SparesOthers(s, t, u)
         /\ \/ t = s
            \/ /\ u \notin t.loose => u \notin s.loose /\ ~InSomeChannel(s.users[u].us)
               /\ \A c \in Channel : Present(t, u, c) = Present(s, u, c)
               /\ t.users[u] = Stranger /\ t.global[u] = NoState
<1> DEFINE u == e.u
           loose == IF InSomeChannel(s.users[u].us) THEN s.loose \cup {u} ELSE s.loose
           x == [s EXCEPT !.users[u] = Stranger, !.nicks[u] = NicksAfter(s, u),
                          !.global[u] = NoState, !.loose = loose]
           t == unload_user(s, e)
<1>1. Shaped(s) /\ Counted(s) /\ Fine(s)
  BY DEF Sound, Fine
<1>2. t = s \/ t = x
  BY DEF unload_user
<1>3. CASE t = s
  BY <1>1, <1>3, QuietSelf, QuietOthers
<1>4. CASE t = x
  <2>1. Fine(t)
    BY <1>1, UnloadKeeps
  <2> HIDE DEF t
  <2>2. /\ s.loose \subseteq loose /\ loose \subseteq s.loose \cup {u}
        /\ u \notin loose => u \notin s.loose /\ ~InSomeChannel(s.users[u].us)
    OBVIOUS
  <2> HIDE DEF loose
  <2>3. /\ t.history = s.history /\ t.pending = s.pending /\ t.said = s.said
        /\ t.external = s.external /\ t.loose = loose
        /\ t.users = [s.users EXCEPT ![u] = Stranger] /\ t.global = [s.global EXCEPT ![u] = NoState]
    BY <1>1, <1>4 DEF Shaped
  <2> HIDE DEF x
  <2>4. Replaces(s, t, u, Stranger, NoState)
    BY <2>2, <2>3, StrangerIs DEF Replaces
  <2>5. /\ Counted(t) /\ SparesOthers(s, t, u)
        /\ \A c \in Channel : Present(t, u, c) = Present(s, u, c)
        /\ t.users[u] = Stranger /\ t.global[u] = NoState
    BY <2>4, OneUser
  <2> QED
    BY <2>1, <2>2, <2>3, <2>5 DEF Sound, t
<1> QED
  BY <1>2, <1>3, <1>4

\* A user has one page, and no page beside an IRC client.
NoMix(us) == OneWwwChannel(us) /\ (get_channel(us, "www") = {} \/ get_channel(us, "irc") = {})

\* The events that change what is announced of a user.
Moves == {"JOIN", "JOIN_CHANNEL", "PART_CHANNEL", "SET_STATUS", "KICK_USER", "FLUSH_USER_DATA"}
Moving == Moves \cup {"CHROOM"}

EventOK(e) ==
  /\ e.u \in Uid
  /\ e.type \in {"JOIN", "JOIN_CHANNEL"} =>
       /\ {"type", "u", "ct", "ch", "vis"} \subseteq DOMAIN e
       /\ e.ct \in CT /\ e.ch \in Channel /\ e.vis \in BOOLEAN
  /\ e.type = "CHROOM" => e.ch \in Channel
  /\ e.type = "PART_CHANNEL" => e.ct \in CT /\ e.chans \in SUBSET Channel
  /\ e.type = "SET_STATUS" => e.vis \in BOOLEAN
  /\ e.type \in {"INVITE", "CHVOICE"} => e.to \in Uid
  /\ e.type = "SEND_MESSAGE" => e.to \in Uid \cup {"nobody"}

\* What holds while a JOIN is under way: a page comes to a user without an IRC
\* client who was taken leave of on any other channel, and an IRC client to one
\* without a page.
JoinDue(s, u, e) ==
  LET us == s.users[u].us IN
  /\ e.ct = "www" => get_channel(us, "irc") = {}
  /\ e.ct = "irc" => e.vis = TRUE /\ get_channel(us, "www") = {}
  /\ \A c \in Channel : Present(s, u, c) = IF Seen(s, u, c) /\ (e.ct = "www" => c = e.ch) THEN 1 ELSE 0

\* What holds while the event e is the one move of u under way.
Due(s, u, e) ==
  \/ e.type = "JOIN" /\ JoinDue(s, u, e)
  \/ e.type = "JOIN_CHANNEL" /\ Even(s, u) /\ e.ct \in s.users[u].us[e.ch] /\ e.vis = s.users[u].vis
  \/ e.type = "PART_CHANNEL" /\ Even(s, u)
  \/ e.type = "SET_STATUS" /\ Even(s, u) /\ s.global[u].us = s.users[u].us
  \/ e.type \in {"KICK_USER", "FLUSH_USER_DATA"} /\ Even(s, u) /\ Agrees(s, u)

\* What holds while f is to announce that u leaves a channel, for e to bring u
\* to another one.
GoesOver(s, u, f, e) ==
  /\ f.type = "CHROOM" /\ e.type = "JOIN" /\ e.ct = "www" /\ f.ch # e.ch
  /\ Even(s, u) /\ s.users[u].vis = TRUE /\ s.users[u].us[f.ch] # {}
  /\ get_channel(s.users[u].us, "irc") = {}

\* What holds of u while the moves w are under way.
Right(s, u, w) ==
  /\ NoMix(s.users[u].us)
  /\ \/ w = << >> /\ Even(s, u) /\ Agrees(s, u)
     \/ \E e : w = <<e>> /\ Due(s, u, e)
     \/ \E f, e : w = <<f, e>> /\ GoesOver(s, u, f, e)

LEMMA RightIs ==
  ASSUME NEW s, NEW u
  PROVE  /\ Right(s, u, << >>) <=> NoMix(s.users[u].us) /\ Even(s, u) /\ Agrees(s, u)
         /\ \A e : Right(s, u, <<e>>) <=> NoMix(s.users[u].us) /\ Due(s, u, e)
         /\ \A f, e : Right(s, u, <<f, e>>) <=> NoMix(s.users[u].us) /\ GoesOver(s, u, f, e)
<1>1. Right(s, u, << >>) <=> NoMix(s.users[u].us) /\ Even(s, u) /\ Agrees(s, u)
  <2>1. \A e : <<e>> # << >> /\ \A f : <<f, e>> # << >>
    OBVIOUS
  <2> QED
    BY <2>1 DEF Right
<1>2. ASSUME NEW e
      PROVE  Right(s, u, <<e>>) <=> NoMix(s.users[u].us) /\ Due(s, u, e)
  <2>1. \A x : (<<e>> = <<x>> => x = e) /\ \A f : <<f, x>> # <<e>>
    OBVIOUS
  <2>2. <<e>> # << >>
    OBVIOUS
  <2> QED
    BY <2>1, <2>2 DEF Right
<1>3. ASSUME NEW f, NEW e
      PROVE  Right(s, u, <<f, e>>) <=> NoMix(s.users[u].us) /\ GoesOver(s, u, f, e)
  <2>1. \A x : <<f, e>> # <<x>> /\ \A y : <<f, e>> = <<y, x>> => y = f /\ x = e
    OBVIOUS
  <2>2. <<f, e>> # << >>
    OBVIOUS
  <2> QED
    BY <2>1, <2>2 DEF Right
<1> QED
  BY <1>1, <1>2, <1>3

LEMMA RightLength ==
  ASSUME NEW s, NEW u, NEW w, Right(s, u, w)
  PROVE  w = << >> \/ (\E e : w = <<e>>) \/ (\E f, e : w = <<f, e>>)
  BY DEF Right

\* What is spared is as right as it was.
LEMMA SparesRight ==
  ASSUME NEW s, NEW t, NEW u, Spares(s, t, u), u \notin t.loose, NEW w, Right(s, u, w)
  PROVE  Right(t, u, w)
<1>1. /\ t.users[u].us = s.users[u].us /\ t.users[u].vis = s.users[u].vis
      /\ \A c \in Channel : Present(t, u, c) = Present(s, u, c) /\ (Seen(t, u, c) <=> Seen(s, u, c))
  BY DEF Spares, Seen
<1>2. t.global[u] = s.global[u] \/ t.global[u] = StateOf(s, u)
  BY DEF Spares
<1>3. Even(t, u) <=> Even(s, u)
  BY <1>1 DEF Even
<1>4. Agrees(s, u) => Agrees(t, u)
  BY <1>1, <1>2 DEF Agrees, StateOf
<1>5. s.global[u].us = s.users[u].us => t.global[u].us = t.users[u].us
  BY <1>1, <1>2 DEF StateOf
<1>6. \A e : JoinDue(s, u, e) => JoinDue(t, u, e)
  BY <1>1 DEF JoinDue
<1>7. \A e : Due(s, u, e) => Due(t, u, e)
  BY <1>1, <1>3, <1>4, <1>5, <1>6 DEF Due
<1>8. \A f, e : GoesOver(s, u, f, e) => GoesOver(t, u, f, e)
  BY <1>1, <1>3 DEF GoesOver
<1> QED
  BY <1>1, <1>3, <1>4, <1>7, <1>8 DEF Right

\* get_user_p and the web client spare everybody, and load the user.
LEMMA LoadsUser ==
  ASSUME NEW s, Sound(s), NEW u \in Uid
  PROVE  LET l == get_user_p(s, u) IN
         /\ Sound(l) /\ SparesOthers(s, l, u) /\ Spares(s, l, u) /\ l.users[u].loaded = TRUE
<1> DEFINE l == get_user_p(s, u)
<1>1. Calms(s, l)
  BY CalmGet
<1>2. l.users[u].loaded = TRUE
  <2>1. Shaped(s)
    BY DEF Sound, Fine
  <2>2. CASE s.users[u].loaded
    BY <2>1, <2>2 DEF get_user_p, Shaped
  <2>3. CASE ~s.users[u].loaded
    BY <2>1, <2>3 DEF get_user_p, Shaped, Stranger
  <2> QED  BY <2>2, <2>3
<1> HIDE DEF l
<1>3. Spares(s, l, u) /\ SparesOthers(s, l, u) /\ Sound(l)
  BY <1>1, QuietSpares, QuietOthers DEF Calms
<1> QED
  BY <1>2, <1>3 DEF l

\* What the handler of a move e from s does right.
MovesRight(s, t, e) ==
  /\ Sound(t) /\ SparesOthers(s, t, e.u)
  /\ e.u \notin t.loose =>
       /\ e.u \notin s.loose
       /\ Right(s, e.u, <<e>>) => Right(t, e.u, Echo(e))

\* So it does if it does after the user has been loaded.
LEMMA RightLoaded ==
  ASSUME NEW s, NEW l, NEW t, NEW e, Spares(s, l, e.u), SparesOthers(s, l, e.u), MovesRight(l, t, e)
  PROVE  MovesRight(s, t, e)
<1>1. SparesOthers(s, t, e.u)
  BY OthersTwice DEF MovesRight
<1>2. ASSUME e.u \notin t.loose
      PROVE  e.u \notin s.loose /\ (Right(s, e.u, <<e>>) => Right(t, e.u, Echo(e)))
  <2>1. e.u \notin l.loose
    BY <1>2 DEF MovesRight
  <2>2. Right(s, e.u, <<e>>) => Right(l, e.u, <<e>>)
    BY <2>1, SparesRight
  <2> QED
    BY <1>2, <2>1, <2>2 DEF MovesRight, Spares
<1> QED
  BY <1>1, <1>2 DEF MovesRight

\* The user who joins is announced where it is seen then.
LEMMA JoinIsDone ==
  ASSUME NEW s, NEW t, NEW e, Sound(s), e.u \in Uid, e.ct \in CT, e.ch \in Channel, e.vis \in BOOLEAN,
         JoinEffect(s, t, e), e.u \notin t.loose, JoinDue(s, e.u, e), NoMix(s.users[e.u].us)
  PROVE  /\ Even(t, e.u) /\ NoMix(t.users[e.u].us)
         /\ e.ct \in t.users[e.u].us[e.ch] /\ e.vis = t.users[e.u].vis
<1> DEFINE u == e.u
           us == s.users[u].us
           vis == s.users[u].vis
           new == t.users[u].us
<1>1. us \in ChannelUs /\ IsFiniteSet(export_channels(us)) /\ vis \in BOOLEAN
  BY DEF Sound, Counted
<1>2. new = Joined(us, e) /\ t.users[u].vis = e.vis
  BY DEF JoinEffect
<1>3. /\ e.ct = "irc" => \A c \in Channel : new[c] = IF c = e.ch THEN us[c] \cup {"irc"} ELSE us[c]
      /\ e.ct = "www" => \A c \in Channel : new[c] = IF c = e.ch THEN us[c] \cup {"www"} ELSE us[c] \ {"www"}
  <2>1. \A c \in Channel : Joined(us, e)[c] =
              IF e.ct = "irc" THEN (IF c = e.ch THEN us[c] \cup {"irc"} ELSE us[c])
              ELSE IF c = e.ch THEN us[c] \cup {"www"} ELSE us[c] \ {"www"}
    BY <1>1, JoinedIs
  <2> HIDE DEF us, new
  <2> QED
    BY <1>2, <2>1
<1>4. \A c \in Channel : us[c] \subseteq {"www", "irc"}
  BY <1>1 DEF ChannelUs, CT
<1>5. vis = e.vis \/ \A c \in Channel : c # e.ch => new[c] = {}
  BY <1>2 DEF JoinEffect, export_channels
<1>6. /\ \A c \in Channel : c # e.ch => Present(t, u, c) = Present(s, u, c)
      /\ Present(t, u, e.ch) = Present(s, u, e.ch)
           + IF Comes(s.users[u], e) THEN 1 ELSE IF Vanishes(s.users[u], e) THEN 0 - 1 ELSE 0
  BY DEF JoinEffect
<1>7. e.ct = "www" \/ e.ct = "irc"
  BY DEF CT
<1>8. \A c \in Channel : /\ Seen(s, u, c) <=> us[c] # {} /\ vis = TRUE
                         /\ Seen(t, u, c) <=> new[c] # {} /\ e.vis = TRUE
  BY <1>1, <1>2 DEF Seen
<1>9. \A c \in Channel : Present(s, u, c) = IF Seen(s, u, c) /\ (e.ct = "www" => c = e.ch) THEN 1 ELSE 0
  BY DEF JoinDue
<1>10. /\ e.ct = "www" => \A c \in Channel : "irc" \notin us[c]
       /\ e.ct = "irc" => e.vis = TRUE /\ \A c \in Channel : "www" \notin us[c]
  BY DEF JoinDue, get_channel
<1> HIDE DEF us, new
<1>11. ASSUME NEW c \in Channel, c # e.ch
       PROVE  Present(t, u, c) = IF Seen(t, u, c) THEN 1 ELSE 0
  <2>1. CASE e.ct = "www"
    <3>1. us[c] \subseteq {"www", "irc"} /\ "irc" \notin us[c] /\ new[c] = us[c] \ {"www"}
      BY <1>3, <1>4, <1>10, <1>11, <2>1
    <3>2. new[c] = {}
      BY <3>1
    <3> QED
      BY <1>6, <1>8, <1>9, <1>11, <2>1, <3>2
  <2>2. CASE e.ct = "irc"
    <3>1. new[c] = us[c]
      BY <1>3, <1>11, <2>2
    <3>2. Seen(t, u, c) <=> Seen(s, u, c)
      BY <1>5, <1>8, <1>10, <1>11, <2>2, <3>1
    <3> QED
      BY <1>6, <1>9, <1>11, <2>2, <3>2
  <2> QED
    BY <1>7, <2>1, <2>2
<1>12. Present(t, u, e.ch) = IF Seen(t, u, e.ch) THEN 1 ELSE 0
  <2>1. e.ct \in new[e.ch]
    BY <1>3, <1>7
  <2>2. Present(s, u, e.ch) = IF us[e.ch] # {} /\ vis = TRUE THEN 1 ELSE 0
    BY <1>8, <1>9
  <2>3. Seen(t, u, e.ch) <=> e.vis = TRUE
    BY <1>8, <2>1
  <2>4. Comes(s.users[u], e) <=> e.vis = TRUE /\ (us[e.ch] = {} \/ vis = FALSE)
    BY DEF Comes, us
  <2>5. Vanishes(s.users[u], e) <=> us[e.ch] # {} /\ vis = TRUE /\ e.vis = FALSE
    BY DEF Vanishes, us
  <2> HIDE DEF vis
  <2> QED
    BY <1>1, <1>6, <2>2, <2>3, <2>4, <2>5
<1>13. Even(t, u)
  BY <1>11, <1>12 DEF Even
<1>14. OneWwwChannel(new)
  <2> SUFFICES ASSUME NEW c \in Channel, NEW d \in Channel, "www" \in new[c] \cap new[d]
               PROVE  c = d
    BY DEF OneWwwChannel
  <2>1. CASE e.ct = "www"
    <3>1. \A x \in Channel : x # e.ch => new[x] = us[x] \ {"www"}
      BY <1>3, <2>1
    <3>2. \A x \in Channel : "www" \in new[x] => x = e.ch
      BY <3>1
    <3> QED
      BY <3>2
  <2>2. CASE e.ct = "irc"
    <3>1. new[c] \subseteq us[c] \cup {"irc"}
      BY <1>3, <2>2
    <3>2. "www" \in us[c]
      BY <3>1
    <3> QED
      BY <1>10, <2>2, <3>2
  <2> QED
    BY <1>7, <2>1, <2>2
<1>15. get_channel(new, "www") = {} \/ get_channel(new, "irc") = {}
  <2>1. CASE e.ct = "www"
    <3>0. \A c \in Channel : new[c] \subseteq us[c] \cup {"www"}
      BY <1>3, <2>1
    <3>1. \A c \in Channel : "irc" \notin new[c]
      BY <1>10, <2>1, <3>0
    <3> QED
      BY <3>1 DEF get_channel
  <2>2. CASE e.ct = "irc"
    <3>0. \A c \in Channel : new[c] \subseteq us[c] \cup {"irc"}
      BY <1>3, <2>2
    <3>1. \A c \in Channel : "www" \notin new[c]
      BY <1>10, <2>2, <3>0
    <3> QED
      BY <3>1 DEF get_channel
  <2> QED
    BY <1>7, <2>1, <2>2
<1>16. e.ct \in new[e.ch]
  BY <1>3, <1>7
<1> QED
  BY <1>2, <1>13, <1>14, <1>15, <1>16 DEF NoMix, new

\* A JOIN that comes back as JOIN_CHANNEL changes nothing but to publish the
\* user's state.
LEMMA EchoIsDone ==
  ASSUME NEW s, NEW t, NEW e, Sound(s), e.u \in Uid, e.ct \in CT, e.ch \in Channel, e.vis \in BOOLEAN,
         JoinEffect(s, t, e), NoMix(s.users[e.u].us), Even(s, e.u),
         e.ct \in s.users[e.u].us[e.ch], e.vis = s.users[e.u].vis
  PROVE  Even(t, e.u) /\ NoMix(t.users[e.u].us) /\ Agrees(t, e.u)
<1> DEFINE u == e.u
           us == s.users[u].us
           new == t.users[u].us
<1>1. us \in ChannelUs /\ IsFiniteSet(export_channels(us))
  BY DEF Sound, Counted
<1>2. new = Joined(us, e) /\ t.users[u].vis = e.vis /\ t.global[u] = [us |-> new, vis |-> e.vis]
  BY DEF JoinEffect
<1>3. /\ Joined(us, e) \in ChannelUs
      /\ \A c \in Channel : Joined(us, e)[c] =
              IF e.ct = "irc" THEN (IF c = e.ch THEN us[c] \cup {"irc"} ELSE us[c])
              ELSE IF c = e.ch THEN us[c] \cup {"www"} ELSE us[c] \ {"www"}
  BY <1>1, JoinedIs
<1>4. e.ct = "www" \/ e.ct = "irc"
  BY DEF CT
<1>5. OneWwwChannel(us)
  BY DEF NoMix
<1>6. \A c \in Channel : Joined(us, e)[c] = us[c]
  <2> HIDE DEF us
  <2> SUFFICES ASSUME NEW c \in Channel
               PROVE  Joined(us, e)[c] = us[c]
    OBVIOUS
  <2>0. e.ct \in us[e.ch]
    BY DEF us
  <2>1. CASE e.ct = "irc"
    <3>1. c = e.ch => us[c] \cup {"irc"} = us[c]
      BY <2>0, <2>1
    <3> QED
      BY <1>3, <2>1, <3>1
  <2>2. CASE e.ct = "www"
    <3>1. c = e.ch => us[c] \cup {"www"} = us[c]
      BY <2>0, <2>2
    <3>2. c # e.ch => us[c] \ {"www"} = us[c]
      BY <1>5, <2>0, <2>2 DEF OneWwwChannel
    <3> QED
      BY <1>3, <2>2, <3>1, <3>2
  <2> QED
    BY <1>4, <2>1, <2>2
<1>7. new = us
  <2> HIDE DEF us
  <2>1. Joined(us, e) = us
    BY <1>1, <1>3, <1>6 DEF ChannelUs
  <2> QED
    BY <1>2, <2>1
<1>8. ~Comes(s.users[u], e) /\ ~Vanishes(s.users[u], e)
  BY DEF Comes, Vanishes
<1>9. \A c \in Channel : Present(t, u, c) = Present(s, u, c)
  <2>1. Present(s, u, e.ch) \in Int
    BY PresentIsInt DEF Sound
  <2>2. Present(t, u, e.ch) = Present(s, u, e.ch) + 0
    BY <1>8 DEF JoinEffect
  <2> QED
    BY <2>1, <2>2 DEF JoinEffect
<1>10. Even(t, u)
  BY <1>2, <1>7, <1>9 DEF Even, Seen
<1> QED
  BY <1>2, <1>7, <1>10 DEF Agrees

LEMMA JoinRight ==
  ASSUME NEW s, Sound(s), NEW e, EventOK(e), e.type = "JOIN"
  PROVE  MovesRight(s, on_event(s, e), e)
<1> DEFINE u == e.u
           l == get_user_p(s, u)
           j == [l EXCEPT !.clients = IF e.ct = "www" THEN @ \cup {u} ELSE @]
           t == on_JOIN_fix_lists(j, e)
           f == [e EXCEPT !.type = "JOIN_CHANNEL"]
<1>1. on_event(s, e) = t
  BY DEF on_event, on_common_JOIN
<1>2. u \in Uid /\ e.ct \in CT /\ e.ch \in Channel /\ e.vis \in BOOLEAN
  BY DEF EventOK
<1>3. Sound(l) /\ SparesOthers(s, l, u) /\ Spares(s, l, u) /\ l.users[u].loaded = TRUE
  BY <1>2, LoadsUser
<1> HIDE DEF l
<1>4. Fine(l) /\ Shaped(l)
  BY <1>3 DEF Sound, Fine
<1>5. /\ j.users = l.users /\ j.global = l.global /\ j.history = l.history /\ j.pending = l.pending
      /\ j.said = l.said /\ j.external = l.external /\ j.loose = l.loose
  BY <1>4 DEF Shaped
<1>6. Fine(j)
  BY <1>4 DEF Fine, Shaped, Found, Shown
<1> HIDE DEF j
<1>7. Calms(l, j)
  BY <1>3, <1>5, <1>6, CalmElsewhere
<1>8. Sound(j) /\ SparesOthers(l, j, u) /\ Spares(l, j, u) /\ j.users[u].loaded = TRUE
  BY <1>2, <1>3, <1>5, <1>7, QuietSpares, QuietOthers DEF Calms
<1>9. Sound(t) /\ SparesOthers(j, t, u) /\ JoinEffect(j, t, e)
  BY <1>2, <1>8, JoinDoes
<1> HIDE DEF t
<1>10. Echo(e) = <<f>> /\ f.type = "JOIN_CHANNEL" /\ f.ct = e.ct /\ f.ch = e.ch /\ f.vis = e.vis
  BY DEF Echo, EventOK
<1> HIDE DEF f
<1>11. ASSUME u \notin t.loose, Right(j, u, <<e>>)
       PROVE  Right(t, u, Echo(e))
  <2>1. NoMix(j.users[u].us) /\ JoinDue(j, u, e)
    BY <1>11, RightIs DEF Due
  <2>2. /\ Even(t, u) /\ NoMix(t.users[u].us)
        /\ e.ct \in t.users[u].us[e.ch] /\ e.vis = t.users[u].vis
    BY <1>2, <1>8, <1>9, <1>11, <2>1, JoinIsDone
  <2>3. Due(t, u, f)
    BY <1>10, <2>2 DEF Due
  <2> QED
    BY <1>10, <2>2, <2>3, RightIs
<1>12. MovesRight(j, t, e)
  BY <1>9, <1>11 DEF MovesRight, JoinEffect
<1> QED
  BY <1>1, <1>3, <1>8, <1>12, RightLoaded

\* What the chat thread does with a move on the channels.
LEMMA SetIs ==
  ASSUME NEW s, NEW e
  PROVE  LET l == get_user_p(s, e.u) IN
         /\ e.type = "JOIN_CHANNEL" => on_event(s, e) = on_JOIN_fix_lists(l, e)
         /\ e.type = "PART_CHANNEL" => on_event(s, e) = on_PART_CHANNEL(l, e)
         /\ e.type = "SET_STATUS" => on_event(s, e) = on_SET_STATUS(l, e)
         /\ e.type = "KICK_USER" => on_event(s, e) = on_KICK_USER(l, e)
         /\ e.type = "FLUSH_USER_DATA" => on_event(s, e) = unload_user(s, e)
         /\ e.type \in Moves => (Echo(e) = << >> <=> e.type # "JOIN")
<1>1. CASE e.type = "JOIN_CHANNEL"
  BY <1>1 DEF on_event, on_SET_user_state, Echo, Moves
<1>2. CASE e.type = "PART_CHANNEL"
  BY <1>2 DEF on_event, on_SET_user_state, Echo, Moves
<1>3. CASE e.type = "SET_STATUS"
  BY <1>3 DEF on_event, on_SET_user_state, Echo, Moves
<1>4. CASE e.type = "KICK_USER"
  BY <1>4 DEF on_event, on_SET_user_state, Echo, Moves
<1>5. CASE e.type = "FLUSH_USER_DATA"
  BY <1>5 DEF on_event, Echo, Moves
<1>6. CASE e.type = "JOIN"
  <2>1. Echo(e) # << >>
    BY <1>6 DEF Echo
  <2> QED
    BY <1>6, <2>1
<1> QED
  BY <1>1, <1>2, <1>3, <1>4, <1>5, <1>6 DEF Moves

LEMMA ChannelRight ==
  ASSUME NEW s, Sound(s), NEW e, EventOK(e), e.type = "JOIN_CHANNEL"
  PROVE  MovesRight(s, on_event(s, e), e)
<1> DEFINE u == e.u
           l == get_user_p(s, u)
           t == on_JOIN_fix_lists(l, e)
<1>1. on_event(s, e) = t /\ Echo(e) = << >>
  BY SetIs DEF Moves
<1>2. u \in Uid /\ e.ct \in CT /\ e.ch \in Channel /\ e.vis \in BOOLEAN
  BY DEF EventOK
<1>3. Sound(l) /\ SparesOthers(s, l, u) /\ Spares(s, l, u) /\ l.users[u].loaded = TRUE
  BY <1>2, LoadsUser
<1> HIDE DEF l
<1>4. Sound(t) /\ SparesOthers(l, t, u) /\ JoinEffect(l, t, e)
  BY <1>2, <1>3, JoinDoes
<1> HIDE DEF t
<1>5. ASSUME u \notin t.loose, Right(l, u, <<e>>)
      PROVE  Right(t, u, << >>)
  <2>1. NoMix(l.users[u].us) /\ Even(l, u) /\ e.ct \in l.users[u].us[e.ch] /\ e.vis = l.users[u].vis
    BY <1>5, RightIs DEF Due
  <2>2. Even(t, u) /\ NoMix(t.users[u].us) /\ Agrees(t, u)
    BY <1>2, <1>3, <1>4, <2>1, EchoIsDone
  <2> QED
    BY <2>2, RightIs
<1>6. MovesRight(l, t, e)
  BY <1>1, <1>4, <1>5 DEF MovesRight, JoinEffect
<1> QED
  BY <1>1, <1>3, <1>6, RightLoaded

LEMMA LessMix ==
  ASSUME NEW us, NEW new, \A c \in Channel : new[c] \subseteq us[c], NoMix(us)
  PROVE  NoMix(new)
<1>1. OneWwwChannel(new)
  BY DEF NoMix, OneWwwChannel
<1>2. \A ct : get_channel(new, ct) \subseteq get_channel(us, ct)
  BY DEF get_channel
<1>3. get_channel(new, "www") = {} \/ get_channel(new, "irc") = {}
  BY <1>2 DEF NoMix
<1> QED
  BY <1>1, <1>3 DEF NoMix

\* What a farewell does is known to the request that asked for it.
LEMMA PartRight ==
  ASSUME NEW s, Sound(s), NEW e, EventOK(e), e.type = "PART_CHANNEL"
  PROVE  LET t == on_event(s, e) IN
         /\ MovesRight(s, t, e)
         /\ t.users[e.u].us = part_channels(s.users[e.u].us, e.chans, e.ct)
<1> DEFINE u == e.u
           l == get_user_p(s, u)
           t == on_PART_CHANNEL(l, e)
           us == part_channels(l.users[u].us, e.chans, e.ct)
<1>1. on_event(s, e) = t /\ Echo(e) = << >>
  BY SetIs DEF Moves
<1>2. u \in Uid /\ e.ct \in CT /\ e.chans \in SUBSET Channel
  BY DEF EventOK
<1>3. Sound(l) /\ SparesOthers(s, l, u) /\ Spares(s, l, u) /\ l.users[u].loaded = TRUE
  BY <1>2, LoadsUser
<1> HIDE DEF l
<1>4. /\ Sound(t) /\ SparesOthers(l, t, u) /\ t.loose = l.loose /\ (Even(l, u) => Even(t, u))
      /\ t.users[u].us = us /\ t.users[u].vis = l.users[u].vis
      /\ t.global[u] = [us |-> us, vis |-> l.users[u].vis]
  BY <1>2, <1>3, PartDoes
<1> HIDE DEF t
<1>5. ASSUME Right(l, u, <<e>>)
      PROVE  Right(t, u, << >>)
  <2>1. NoMix(l.users[u].us) /\ Even(l, u)
    BY <1>5, RightIs DEF Due
  <2>2. \A c \in Channel : us[c] \subseteq l.users[u].us[c]
    BY DEF part_channels
  <2>3. NoMix(us)
    BY <2>1, <2>2, LessMix
  <2>4. Agrees(t, u)
    BY <1>4 DEF Agrees
  <2> QED
    BY <1>4, <2>1, <2>3, <2>4, RightIs
<1>6. MovesRight(l, t, e)
  BY <1>1, <1>4, <1>5 DEF MovesRight
<1>7. t.users[u].us = part_channels(s.users[u].us, e.chans, e.ct)
  BY <1>3, <1>4 DEF Spares
<1> QED
  BY <1>1, <1>3, <1>6, <1>7, RightLoaded

LEMMA StatusRight ==
  ASSUME NEW s, Sound(s), NEW e, EventOK(e), e.type = "SET_STATUS"
  PROVE  LET t == on_event(s, e) IN
         /\ MovesRight(s, t, e)
         /\ t.users[e.u].us = s.users[e.u].us
         /\ InSomeChannel(s.users[e.u].us) => t.users[e.u].vis = e.vis
<1> DEFINE u == e.u
           l == get_user_p(s, u)
           t == on_SET_STATUS(l, e)
           us == l.users[u].us
<1>1. on_event(s, e) = t /\ Echo(e) = << >>
  BY SetIs DEF Moves
<1>2. u \in Uid /\ e.vis \in BOOLEAN
  BY DEF EventOK
<1>3. Sound(l) /\ SparesOthers(s, l, u) /\ Spares(s, l, u) /\ l.users[u].loaded = TRUE
  BY <1>2, LoadsUser
<1> HIDE DEF l
<1>4. /\ Sound(t) /\ SparesOthers(l, t, u) /\ t.loose = l.loose /\ (Even(l, u) => Even(t, u))
      /\ t.users[u].us = us
      /\ IF InSomeChannel(us)
         THEN t.users[u].vis = e.vis /\ t.global[u] = [us |-> us, vis |-> e.vis]
         ELSE t = l
  BY <1>2, <1>3, StatusDoes
<1> HIDE DEF t
<1>5. ASSUME Right(l, u, <<e>>)
      PROVE  Right(t, u, << >>)
  <2>1. NoMix(us) /\ Even(l, u) /\ l.global[u].us = us
    BY <1>5, RightIs DEF Due
  <2>2. Agrees(t, u)
    BY <1>4, <2>1 DEF Agrees
  <2> QED
    BY <1>4, <2>1, <2>2, RightIs
<1>6. MovesRight(l, t, e)
  BY <1>1, <1>4, <1>5 DEF MovesRight
<1>7. t.users[u].us = s.users[u].us /\ (InSomeChannel(s.users[u].us) => t.users[u].vis = e.vis)
  BY <1>3, <1>4 DEF Spares
<1> QED
  BY <1>1, <1>3, <1>6, <1>7, RightLoaded

LEMMA KickRight ==
  ASSUME NEW s, Sound(s), NEW e, EventOK(e), e.type = "KICK_USER"
  PROVE  MovesRight(s, on_event(s, e), e)
<1> DEFINE u == e.u
           l == get_user_p(s, u)
           t == on_KICK_USER(l, e)
<1>1. on_event(s, e) = t /\ Echo(e) = << >>
  BY SetIs DEF Moves
<1>2. u \in Uid
  BY DEF EventOK
<1>3. Sound(l) /\ SparesOthers(s, l, u) /\ Spares(s, l, u) /\ l.users[u].loaded = TRUE
  BY <1>2, LoadsUser
<1> HIDE DEF l
<1>4. /\ Sound(t) /\ SparesOthers(l, t, u) /\ t.loose = l.loose /\ (Even(l, u) => Even(t, u))
      /\ t.users[u] = Stranger /\ t.global[u] = NoState
  BY <1>2, <1>3, KickDoes
<1> HIDE DEF t
<1>5. ASSUME Right(l, u, <<e>>)
      PROVE  Right(t, u, << >>)
  <2>1. NoMix(l.users[u].us) /\ Even(l, u)
    BY <1>5, RightIs DEF Due
  <2>2. NoMix(NoChannels)
    BY StrangerIs DEF NoMix, OneWwwChannel, get_channel
  <2>3. Agrees(t, u)
    BY <1>4, StrangerIs DEF Agrees
  <2> QED
    BY <1>4, <2>1, <2>2, <2>3, RightIs, StrangerIs
<1>6. MovesRight(l, t, e)
  BY <1>1, <1>4, <1>5 DEF MovesRight
<1> QED
  BY <1>1, <1>3, <1>6, RightLoaded

LEMMA FlushRight ==
  ASSUME NEW s, Sound(s), NEW e, EventOK(e), e.type = "FLUSH_USER_DATA"
  PROVE  MovesRight(s, on_event(s, e), e)
<1> DEFINE u == e.u
           t == unload_user(s, e)
<1>1. on_event(s, e) = t /\ Echo(e) = << >>
  BY SetIs DEF Moves
<1>2. u \in Uid
  BY DEF EventOK
<1>3. /\ Sound(t) /\ SparesOthers(s, t, u)
      /\ \/ t = s
         \/ /\ u \notin t.loose => u \notin s.loose /\ ~InSomeChannel(s.users[u].us)
            /\ \A c \in Channel : Present(t, u, c) = Present(s, u, c)
            /\ t.users[u] = Stranger /\ t.global[u] = NoState
  BY <1>2, UnloadDoes
<1> HIDE DEF t
<1>4. ASSUME u \notin t.loose
      PROVE  u \notin s.loose /\ (Right(s, u, <<e>>) => Right(t, u, << >>))
  <2>1. CASE t = s
    BY <1>4, <2>1, RightIs DEF Due
  <2>2. CASE t # s
    <3>1. /\ u \notin s.loose /\ ~InSomeChannel(s.users[u].us)
          /\ \A c \in Channel : Present(t, u, c) = Present(s, u, c)
          /\ t.users[u] = Stranger /\ t.global[u] = NoState
      BY <1>3, <1>4, <2>2
    <3>2. \A c \in Channel : s.users[u].us[c] = {}
      BY <3>1 DEF InSomeChannel, export_channels
    <3>3. \A c \in Channel : ~Seen(s, u, c) /\ ~Seen(t, u, c)
      BY <3>1, <3>2, StrangerIs DEF Seen
    <3>4. Even(s, u) => Even(t, u)
      BY <3>1, <3>3 DEF Even
    <3>5. NoMix(NoChannels)
      BY StrangerIs DEF NoMix, OneWwwChannel, get_channel
    <3>6. Agrees(t, u)
      BY <3>1, StrangerIs DEF Agrees
    <3>7. Right(s, u, <<e>>) => Even(s, u)
      BY RightIs DEF Due
    <3> QED
      BY <3>1, <3>4, <3>5, <3>6, <3>7, RightIs, StrangerIs
  <2> QED
    BY <2>1, <2>2
<1> QED
  BY <1>1, <1>3, <1>4 DEF MovesRight

\* The user who goes to another channel is taken leave of on the former one.
LEMMA ChroomRight ==
  ASSUME NEW s, Sound(s), NEW e, EventOK(e), e.type = "CHROOM"
  PROVE  LET t == on_event(s, e) IN
         /\ Sound(t) /\ SparesOthers(s, t, e.u)
         /\ e.u \notin t.loose => e.u \notin s.loose
         /\ \A f : e.u \notin t.loose /\ Right(s, e.u, <<e, f>>) => Right(t, e.u, <<f>>)
<1> DEFINE u == e.u
           l == get_user_p(s, u)
           t == announce(l, "CHROOM", u, {e.ch})
<1>1. on_event(s, e) = t
  BY DEF on_event, on_CHROOM
<1>2. u \in Uid /\ e.ch \in Channel
  BY DEF EventOK
<1>3. Sound(l) /\ SparesOthers(s, l, u) /\ Spares(s, l, u)
  BY <1>2, LoadsUser
<1> HIDE DEF l
<1>4. {e.ch} \in SUBSET Channel /\ IsFiniteSet({e.ch})
  BY <1>2, OneChannel
<1>5. /\ Sound(t) /\ t.users = l.users /\ t.global = l.global /\ t.loose = l.loose
      /\ Counts(l, t, "CHROOM", u, {e.ch})
  BY <1>2, <1>3, <1>4, KindsAnnounced, AnnounceCounts
<1>6. SparesOthers(l, t, u)
  BY <1>2, <1>3, <1>4, KindsAnnounced, AnnounceSpares
<1> HIDE DEF t
<1>7. ASSUME NEW f, u \notin t.loose, Right(s, u, <<e, f>>)
      PROVE  Right(t, u, <<f>>)
  <2> DEFINE us == l.users[u].us
  <2>1. Right(l, u, <<e, f>>)
    BY <1>3, <1>5, <1>7, SparesRight
  <2>2. /\ NoMix(us) /\ f.type = "JOIN" /\ f.ct = "www" /\ e.ch # f.ch /\ Even(l, u)
        /\ l.users[u].vis = TRUE /\ us[e.ch] # {} /\ get_channel(us, "irc") = {}
    <3>1. NoMix(l.users[u].us) /\ GoesOver(l, u, e, f)
      BY <2>1, RightIs
    <3> QED
      BY <3>1 DEF GoesOver
  <2>3. us \in ChannelUs
    BY <1>2, <1>3 DEF Sound, Counted
  <2>4. \A c \in Channel : us[c] \subseteq {"www"}
    <3>1. \A c \in Channel : us[c] \subseteq {"www", "irc"}
      BY <2>3 DEF ChannelUs, CT
    <3>2. \A c \in Channel : "irc" \notin us[c]
      BY <2>2 DEF get_channel
    <3> QED
      BY <3>1, <3>2
  <2>5. \A c \in Channel : us[c] # {} => c = e.ch
    <3>1. \A c \in Channel : us[c] # {} => "www" \in us[c]
      BY <2>4
    <3> QED
      BY <1>2, <2>2, <3>1 DEF NoMix, OneWwwChannel
  <2>6. \A c \in Channel : Seen(l, u, c) <=> c = e.ch
    BY <2>2, <2>5 DEF Seen
  <2>7. \A c \in Channel : Seen(t, u, c) <=> c = e.ch
    BY <1>5, <2>6 DEF Seen
  <2>8. \A c \in Channel : Present(t, u, c) = 0
    <3> SUFFICES ASSUME NEW c \in Channel
                 PROVE  Present(t, u, c) = 0
      OBVIOUS
    <3>1. Present(l, u, c) = IF c = e.ch THEN 1 ELSE 0
      BY <2>2, <2>6 DEF Even
    <3>2. Present(t, u, c) = Present(l, u, c) + IF c \in {e.ch} THEN 0 - 1 ELSE 0
      BY <1>2, <1>5 DEF Counts
    <3> QED
      BY <3>1, <3>2
  <2>9. JoinDue(t, u, f)
    <3>1. \A c \in Channel : ~(Seen(t, u, c) /\ (f.ct = "www" => c = f.ch))
      BY <2>2, <2>7
    <3>2. t.users[u].us = us
      BY <1>5
    <3> HIDE DEF us
    <3> QED
      BY <2>2, <2>8, <3>1, <3>2 DEF JoinDue
  <2>10. NoMix(t.users[u].us)
    BY <1>5, <2>2
  <2> QED
    BY <2>2, <2>9, <2>10, RightIs DEF Due
<1>8. u \notin t.loose => u \notin s.loose
  BY <1>3, <1>5 DEF Spares
<1>9. SparesOthers(s, t, u)
  BY <1>3, <1>6, OthersTwice
<1> QED
  BY <1>1, <1>5, <1>7, <1>8, <1>9

\* The other events are quiet.
LEMMA StillEvents ==
  ASSUME NEW s, Sound(s), NEW e, EventOK(e), e.type \notin Moving
  PROVE  Calms(s, on_event(s, e))
<1>1. e.u \in Uid
  BY DEF EventOK
<1>2. CASE e.type = "CHAT_MESSAGES2"
  BY <1>1, <1>2, CalmMessages DEF on_event
<1>3. CASE e.type = "SEND_MESSAGE"
  BY <1>1, <1>3, CalmSend DEF on_event, EventOK
<1>4. CASE e.type = "INVITE"
  BY <1>1, <1>4, CalmInvite DEF on_event, EventOK
<1>5. CASE e.type = "CHMODE"
  BY <1>1, <1>5, CalmMode DEF on_event
<1>6. CASE e.type = "CHVOICE"
  BY <1>1, <1>6, CalmVoice DEF on_event, EventOK
<1>7. CASE e.type = "CHTOPIC"
  BY <1>1, <1>7, CalmTopic DEF on_event
<1>8. CASE e.type \notin Moving \cup {"CHAT_MESSAGES2", "SEND_MESSAGE", "INVITE", "CHMODE", "CHVOICE", "CHTOPIC"}
  <2>1. on_event(s, e) = get_user_p(s, e.u)
    BY <1>8 DEF on_event, on_SET_user_state, Moving, Moves
  <2> QED
    BY <1>1, <2>1, CalmGet
<1> QED
  BY <1>2, <1>3, <1>4, <1>5, <1>6, <1>7, <1>8

\* What an event does for whom it is about, and that it leaves the others alone.
EventDoes(s, t, e) ==
  /\ Sound(t) /\ SparesOthers(s, t, e.u)
  /\ e.u \notin t.loose =>
       /\ e.u \notin s.loose
       /\ e.type \notin Moving => Spares(s, t, e.u)
       /\ e.type \in Moves /\ Right(s, e.u, <<e>>) => Right(t, e.u, Echo(e))
       /\ e.type = "CHROOM" => \A f : Right(s, e.u, <<e, f>>) => Right(t, e.u, <<f>>)
       /\ e.type = "PART_CHANNEL" => t.users[e.u].us = part_channels(s.users[e.u].us, e.chans, e.ct)
       /\ e.type = "SET_STATUS" => /\ t.users[e.u].us = s.users[e.u].us
                                   /\ InSomeChannel(s.users[e.u].us) => t.users[e.u].vis = e.vis

LEMMA EventIsRight ==
  ASSUME NEW s, Sound(s), NEW e, EventOK(e)
  PROVE  EventDoes(s, on_event(s, e), e)
<1> DEFINE t == on_event(s, e)
<1>1. CASE e.type \in Moves
  <2>1. e.type \in Moving /\ e.type # "CHROOM"
    BY <1>1 DEF Moves, Moving
  <2>2. MovesRight(s, t, e)
    BY <1>1, JoinRight, ChannelRight, PartRight, StatusRight, KickRight, FlushRight DEF Moves
  <2>3. e.type = "PART_CHANNEL" => t.users[e.u].us = part_channels(s.users[e.u].us, e.chans, e.ct)
    BY PartRight
  <2>4. e.type = "SET_STATUS" => /\ t.users[e.u].us = s.users[e.u].us
                                 /\ InSomeChannel(s.users[e.u].us) => t.users[e.u].vis = e.vis
    BY StatusRight
  <2> HIDE DEF t
  <2>5. EventDoes(s, t, e)
    BY <1>1, <2>1, <2>2, <2>3, <2>4 DEF EventDoes, MovesRight
  <2> QED
    BY <2>5 DEF t
<1>2. CASE e.type = "CHROOM"
  <2>1. /\ Sound(t) /\ SparesOthers(s, t, e.u)
        /\ e.u \notin t.loose => e.u \notin s.loose
        /\ \A f : e.u \notin t.loose /\ Right(s, e.u, <<e, f>>) => Right(t, e.u, <<f>>)
    BY <1>2, ChroomRight
  <2>2. e.type \in Moving /\ e.type \notin Moves /\ e.type # "PART_CHANNEL" /\ e.type # "SET_STATUS"
    BY <1>2 DEF Moves, Moving
  <2> HIDE DEF t
  <2>3. EventDoes(s, t, e)
    BY <2>1, <2>2 DEF EventDoes
  <2> QED
    BY <2>3 DEF t
<1>3. CASE e.type \notin Moving
  <2>1. Calms(s, t)
    BY <1>3, StillEvents
  <2>2. e.type \notin Moves /\ e.type # "CHROOM" /\ e.type # "PART_CHANNEL" /\ e.type # "SET_STATUS"
    BY <1>3 DEF Moves, Moving
  <2> HIDE DEF t
  <2>3. e.u \in Uid
    BY DEF EventOK
  <2>4. SparesOthers(s, t, e.u) /\ Spares(s, t, e.u) /\ Sound(t)
    BY <2>1, <2>3, QuietOthers, QuietSpares DEF Calms
  <2>5. EventDoes(s, t, e)
    BY <2>2, <2>4 DEF EventDoes, Spares
  <2> QED
    BY <2>5 DEF t
<1> QED
  BY <1>1, <1>2, <1>3 DEF Moving

IsSeq(q) == \E S : q \in Seq(S)

LEMMA SeqGoesOn ==
  ASSUME NEW q, IsSeq(q)
  PROVE  /\ Len(q) \in Nat /\ DOMAIN q = 1..Len(q)
         /\ q # << >> => /\ Len(q) >= 1 /\ Head(q) = q[1] /\ IsSeq(Tail(q)) /\ Len(Tail(q)) = Len(q) - 1
                         /\ \A i \in 1..(Len(q) - 1) : Tail(q)[i] = q[i + 1]
<1>1. PICK S : q \in Seq(S)
  BY DEF IsSeq
<1>2. Len(q) \in Nat /\ DOMAIN q = 1..Len(q)
  BY <1>1
<1>3. ASSUME q # << >>
      PROVE  /\ Len(q) >= 1 /\ Head(q) = q[1] /\ Tail(q) \in Seq(S) /\ Len(Tail(q)) = Len(q) - 1
             /\ \A i \in 1..(Len(q) - 1) : Tail(q)[i] = q[i + 1]
  BY <1>1, <1>3
<1> QED
  BY <1>2, <1>3 DEF IsSeq

LEMMA SeqGrows ==
  ASSUME NEW q, IsSeq(q), NEW e
  PROVE  /\ IsSeq(Append(q, e)) /\ Len(Append(q, e)) = Len(q) + 1
         /\ \A i \in 1..Len(q) : Append(q, e)[i] = q[i]
         /\ Append(q, e)[Len(q) + 1] = e
         /\ q \o << e >> = Append(q, e) /\ q \o << >> = q
<1>1. PICK S : q \in Seq(S)
  BY DEF IsSeq
<1> DEFINE T == S \cup {e}
<1>2. q \in Seq(T) /\ e \in T
  BY <1>1
<1> HIDE DEF T
<1>3. /\ Append(q, e) \in Seq(T) /\ Len(Append(q, e)) = Len(q) + 1
      /\ \A i \in 1..Len(q) : Append(q, e)[i] = q[i]
      /\ Append(q, e)[Len(q) + 1] = e
  BY <1>2
<1>4. q \o << e >> = Append(q, e)
  BY <1>2
<1>5. q \o << >> = q
  BY <1>2
<1> QED
  BY <1>3, <1>4, <1>5 DEF IsSeq

\* The places of the moves of u in a queue of events, and what they are.
Places(q, u) == {i \in DOMAIN q : q[i].u = u /\ q[i].type \in Moving}

Lists(q, u, a) ==
  \/ a = << >> /\ Places(q, u) = {}
  \/ \E i \in Nat : \E e : a = <<e>> /\ Places(q, u) = {i} /\ q[i] = e
  \/ \E i, j \in Nat : \E f, e : a = <<f, e>> /\ i < j /\ Places(q, u) = {i, j} /\ q[i] = f /\ q[j] = e

\* A move of u, or another event.
Moves1(e, u) == e.u = u /\ e.type \in Moving

LEMMA PlacesGrow ==
  ASSUME NEW q, IsSeq(q), NEW e, NEW u
  PROVE  /\ Moves1(e, u) => Places(Append(q, e), u) = Places(q, u) \cup {Len(q) + 1}
         /\ ~ Moves1(e, u) => Places(Append(q, e), u) = Places(q, u)
         /\ Places(q, u) \subseteq 1..Len(q)
<1> DEFINE p == Append(q, e)
           n == Len(q)
<1>1. n \in Nat /\ DOMAIN q = 1..n
  BY SeqGoesOn
<1>2. IsSeq(p) /\ Len(p) = n + 1 /\ (\A i \in 1..n : p[i] = q[i]) /\ p[n + 1] = e
  BY SeqGrows
<1>3. DOMAIN p = 1..(n + 1)
  BY <1>2, SeqGoesOn
<1> HIDE DEF p, n
<1>4. DOMAIN p = DOMAIN q \cup {n + 1} /\ n + 1 \notin DOMAIN q
  BY <1>1, <1>3
<1>5. \A i \in DOMAIN p : i \in Places(p, u) <=> Moves1(p[i], u)
  BY DEF Places, Moves1
<1>6. \A i \in DOMAIN q : i \in Places(q, u) <=> Moves1(p[i], u)
  BY <1>1, <1>2 DEF Places, Moves1
<1>7. Places(p, u) \subseteq DOMAIN p /\ Places(q, u) \subseteq DOMAIN q
  BY DEF Places
<1>8. Moves1(e, u) => Places(p, u) = Places(q, u) \cup {n + 1}
  BY <1>2, <1>4, <1>5, <1>6, <1>7
<1>9. ~ Moves1(e, u) => Places(p, u) = Places(q, u)
  BY <1>2, <1>4, <1>5, <1>6, <1>7
<1> QED
  BY <1>1, <1>7, <1>8, <1>9 DEF p, n

LEMMA ListsGrow ==
  ASSUME NEW q, IsSeq(q), NEW e, NEW u, NEW a, Lists(q, u, a)
  PROVE  /\ ~ Moves1(e, u) => Lists(Append(q, e), u, a)
         /\ Moves1(e, u) /\ a = << >> => Lists(Append(q, e), u, << e >>)
         /\ \A f : Moves1(e, u) /\ a = << f >> => Lists(Append(q, e), u, << f, e >>)
<1> DEFINE p == Append(q, e)
           n == Len(q)
<1>1. n \in Nat /\ DOMAIN q = 1..n
  BY SeqGoesOn
<1>2. (\A i \in 1..n : p[i] = q[i]) /\ p[n + 1] = e
  BY SeqGrows
<1>3. /\ Moves1(e, u) => Places(p, u) = Places(q, u) \cup {n + 1}
      /\ ~ Moves1(e, u) => Places(p, u) = Places(q, u)
      /\ Places(q, u) \subseteq 1..n
  BY PlacesGrow
<1> HIDE DEF p, n
<1>4. ASSUME ~ Moves1(e, u)
      PROVE  Lists(p, u, a)
  <2>1. CASE a = << >> /\ Places(q, u) = {}
    BY <1>3, <1>4, <2>1 DEF Lists
  <2>2. CASE \E i \in Nat : \E x : a = <<x>> /\ Places(q, u) = {i} /\ q[i] = x
    <3>0. PICK i \in Nat : \E x : a = <<x>> /\ Places(q, u) = {i} /\ q[i] = x
      BY <2>2
    <3>1. PICK x : a = <<x>> /\ Places(q, u) = {i} /\ q[i] = x
      BY <3>0
    <3>2. Places(p, u) = {i} /\ p[i] = x
      BY <1>2, <1>3, <1>4, <3>1
    <3> QED
      BY <3>1, <3>2 DEF Lists
  <2>3. CASE \E i, j \in Nat : \E f, x : a = <<f, x>> /\ i < j /\ Places(q, u) = {i, j} /\ q[i] = f /\ q[j] = x
    <3>0. PICK i, j \in Nat : \E f, x : a = <<f, x>> /\ i < j /\ Places(q, u) = {i, j} /\ q[i] = f /\ q[j] = x
      BY <2>3
    <3>1. PICK f, x : a = <<f, x>> /\ i < j /\ Places(q, u) = {i, j} /\ q[i] = f /\ q[j] = x
      BY <3>0
    <3>2. Places(p, u) = {i, j} /\ p[i] = f /\ p[j] = x
      BY <1>2, <1>3, <1>4, <3>1
    <3> QED
      BY <3>1, <3>2 DEF Lists
  <2> QED
    BY <2>1, <2>2, <2>3 DEF Lists
<1>5. ASSUME Moves1(e, u), a = << >>
      PROVE  Lists(p, u, << e >>)
  <2>1. Places(q, u) = {}
    <3>1. \A x : << >> # << x >> /\ \A y : << >> # << x, y >>
      OBVIOUS
    <3> QED
      BY <1>5, <3>1 DEF Lists
  <2>2. Places(p, u) = {n + 1} /\ n + 1 \in Nat
    BY <1>1, <1>3, <1>5, <2>1
  <2> QED
    BY <1>2, <2>2 DEF Lists
<1>6. ASSUME NEW f, Moves1(e, u), a = << f >>
      PROVE  Lists(p, u, << f, e >>)
  <2>1. PICK i \in Nat : Places(q, u) = {i} /\ q[i] = f
    <3>1. \A x : << f >> # << >> /\ (<< f >> = << x >> => x = f) /\ \A y : << f >> # << x, y >>
      OBVIOUS
    <3> QED
      BY <1>6, <3>1 DEF Lists
  <2>2. i \in 1..n
    BY <1>3, <2>1
  <2>3. Places(p, u) = {i, n + 1} /\ n + 1 \in Nat /\ i < n + 1
    BY <1>1, <1>3, <1>6, <2>1, <2>2
  <2>4. p[i] = f
    BY <1>2, <2>1, <2>2
  <2> QED
    BY <1>2, <2>3, <2>4 DEF Lists
<1> QED
  BY <1>4, <1>5, <1>6 DEF p

\* The first event of the queue is taken.
LEMMA PlacesShrink ==
  ASSUME NEW q, IsSeq(q), q # << >>, NEW u
  PROVE  /\ \A i \in Nat : i \in Places(Tail(q), u) <=> i >= 1 /\ i + 1 \in Places(q, u)
         /\ Places(Tail(q), u) \subseteq Nat \ {0}
         /\ 1 \in Places(q, u) <=> Moves1(Head(q), u)
         /\ Places(q, u) \subseteq Nat \ {0}
<1> DEFINE p == Tail(q)
           n == Len(q)
<1>1. /\ n \in Nat /\ DOMAIN q = 1..n /\ n >= 1 /\ Head(q) = q[1] /\ IsSeq(p) /\ Len(p) = n - 1
      /\ \A i \in 1..(n - 1) : p[i] = q[i + 1]
  BY SeqGoesOn
<1>2. DOMAIN p = 1..(n - 1)
  BY <1>1, SeqGoesOn
<1> HIDE DEF p, n
<1>3. \A i \in Nat : i \in DOMAIN p <=> i >= 1 /\ i + 1 \in DOMAIN q
  BY <1>1, <1>2
<1>4. \A i \in DOMAIN p : p[i] = q[i + 1]
  BY <1>1, <1>2
<1>5. \A i \in Nat : i \in Places(p, u) <=> i >= 1 /\ i + 1 \in Places(q, u)
  BY <1>3, <1>4 DEF Places
<1>6. Places(p, u) \subseteq DOMAIN p /\ Places(q, u) \subseteq DOMAIN q
  BY DEF Places
<1>7. 1 \in DOMAIN q /\ DOMAIN p \subseteq Nat \ {0} /\ DOMAIN q \subseteq Nat \ {0}
  BY <1>1, <1>2
<1>8. 1 \in Places(q, u) <=> Moves1(Head(q), u)
  BY <1>1, <1>7 DEF Places, Moves1
<1> QED
  BY <1>5, <1>6, <1>7, <1>8 DEF p

LEMMA ListsShrink ==
  ASSUME NEW q, IsSeq(q), q # << >>, NEW u, NEW a, Lists(q, u, a)
  PROVE  /\ ~ Moves1(Head(q), u) => Lists(Tail(q), u, a)
         /\ Moves1(Head(q), u) =>
              \/ a = << Head(q) >> /\ Lists(Tail(q), u, << >>)
              \/ \E e : a = << Head(q), e >> /\ Lists(Tail(q), u, << e >>)
<1> DEFINE p == Tail(q)
<1>1. /\ \A i \in Nat : i \in Places(p, u) <=> i >= 1 /\ i + 1 \in Places(q, u)
      /\ Places(p, u) \subseteq Nat \ {0}
      /\ 1 \in Places(q, u) <=> Moves1(Head(q), u)
      /\ Places(q, u) \subseteq Nat \ {0}
  BY PlacesShrink
<1>2. Head(q) = q[1] /\ \A i \in Nat : i \in Places(p, u) => p[i] = q[i + 1]
  <2>1. /\ Len(q) \in Nat /\ Head(q) = q[1] /\ IsSeq(p) /\ Len(p) = Len(q) - 1
        /\ \A i \in 1..(Len(q) - 1) : p[i] = q[i + 1]
    BY SeqGoesOn
  <2>2. DOMAIN p = 1..(Len(q) - 1)
    BY <2>1, SeqGoesOn
  <2>3. Places(p, u) \subseteq DOMAIN p
    BY DEF Places
  <2> QED
    BY <2>1, <2>2, <2>3
<1> HIDE DEF p
<1>3. ASSUME NEW i \in Nat, i \in Places(q, u), i # 1
      PROVE  i - 1 \in Nat /\ i - 1 \in Places(p, u) /\ p[i - 1] = q[i]
  <2>1. i - 1 \in Nat /\ i - 1 >= 1 /\ (i - 1) + 1 = i
    BY <1>1, <1>3
  <2> QED
    BY <1>1, <1>2, <1>3, <2>1
<1>4. \A k \in Places(p, u) : k \in Nat /\ k + 1 \in Places(q, u)
  BY <1>1
<1>5. CASE a = << >> /\ Places(q, u) = {}
  <2>1. Places(p, u) = {}
    BY <1>4, <1>5
  <2> QED
    BY <1>1, <1>5, <2>1 DEF Lists, p
<1>6. CASE \E i \in Nat : \E e : a = <<e>> /\ Places(q, u) = {i} /\ q[i] = e
  <2>0. PICK i \in Nat : \E e : a = <<e>> /\ Places(q, u) = {i} /\ q[i] = e
    BY <1>6
  <2>1. PICK e : a = <<e>> /\ Places(q, u) = {i} /\ q[i] = e
    BY <2>0
  <2>2. CASE i = 1
    <3>1. Places(p, u) = {}
      <4> SUFFICES ASSUME NEW k \in Places(p, u) PROVE FALSE
        OBVIOUS
      <4>1. k \in Nat /\ k >= 1 /\ k + 1 = 1
        BY <1>1, <1>4, <2>1, <2>2
      <4> QED  BY <4>1
    <3> QED
      BY <1>1, <1>2, <2>1, <2>2, <3>1 DEF Lists, p
  <2>3. CASE i # 1
    <3>1. i - 1 \in Nat /\ i - 1 \in Places(p, u) /\ p[i - 1] = e
      BY <1>3, <2>1, <2>3
    <3>2. Places(p, u) = {i - 1}
      <4>1. \A k \in Places(p, u) : k = i - 1
        BY <1>4, <2>1
      <4> QED  BY <3>1, <4>1
    <3>3. ~ Moves1(Head(q), u)
      BY <1>1, <2>1, <2>3
    <3>4. Lists(p, u, a)
      BY <2>1, <3>1, <3>2 DEF Lists
    <3> QED
      BY <3>3, <3>4 DEF p
  <2> QED
    BY <2>2, <2>3
<1>7. CASE \E i, j \in Nat : \E f, e : a = <<f, e>> /\ i < j /\ Places(q, u) = {i, j} /\ q[i] = f /\ q[j] = e
  <2>0. PICK i, j \in Nat : \E f, e : a = <<f, e>> /\ i < j /\ Places(q, u) = {i, j} /\ q[i] = f /\ q[j] = e
    BY <1>7
  <2>1. PICK f, e : a = <<f, e>> /\ i < j /\ Places(q, u) = {i, j} /\ q[i] = f /\ q[j] = e
    BY <2>0
  <2>2. i >= 1 /\ j # 1
    BY <1>1, <2>1
  <2>3. j - 1 \in Nat /\ j - 1 \in Places(p, u) /\ p[j - 1] = e
    BY <1>3, <2>1, <2>2
  <2>4. CASE i = 1
    <3>1. Places(p, u) = {j - 1}
      <4>1. \A k \in Places(p, u) : k = j - 1
        <5> SUFFICES ASSUME NEW k \in Places(p, u) PROVE k = j - 1
          OBVIOUS
        <5>1. k \in Nat /\ k >= 1 /\ k + 1 \in {1, j}
          BY <1>1, <1>4, <2>1, <2>4
        <5> QED  BY <5>1
      <4> QED  BY <2>3, <4>1
    <3>2. Lists(p, u, <<e>>)
      BY <2>3, <3>1 DEF Lists
    <3>3. a = << Head(q), e >> /\ Moves1(Head(q), u)
      BY <1>1, <1>2, <2>1, <2>4
    <3> QED
      BY <3>2, <3>3 DEF p
  <2>5. CASE i # 1
    <3>1. i - 1 \in Nat /\ i - 1 \in Places(p, u) /\ p[i - 1] = f
      BY <1>3, <2>1, <2>5
    <3>2. Places(p, u) = {i - 1, j - 1}
      <4>1. \A k \in Places(p, u) : k = i - 1 \/ k = j - 1
        BY <1>4, <2>1
      <4> QED  BY <2>3, <3>1, <4>1
    <3>3. ~ Moves1(Head(q), u)
      BY <1>1, <2>1, <2>2, <2>5
    <3>4. i - 1 < j - 1
      BY <2>1
    <3>5. Lists(p, u, a)
      BY <2>1, <2>3, <3>1, <3>2, <3>4 DEF Lists
    <3> QED
      BY <3>3, <3>5 DEF p
  <2> QED
    BY <2>4, <2>5
<1> QED
  BY <1>5, <1>6, <1>7 DEF Lists

\* What a request has left to do: calls that move nobody; one event that does,
\* with the call that goes with it; the page of a user, announced or not.
Still(d) ==
  \A k \in DOMAIN d :
    /\ d[k].op \notin {"set_user_state", "part_channels", "set_status"}
    /\ d[k].op = "push" => d[k].event.type \notin Moving

Parts1(d, e) == Len(d) = 1 /\ d[1].op = "part_channels" /\ d[1].chans = e.chans /\ d[1].ct = e.ct
Sets1(d, e) == Len(d) = 1 /\ d[1].op = "set_status" /\ d[1].vis = e.vis

Pushing(d, e) == d # << >> /\ d[1].op = "push" /\ d[1].event = e

Asking(d, e) ==
  /\ Pushing(d, e) /\ e.type \in Moves
  /\ IF e.type = "PART_CHANNEL" THEN Parts1(Tail(d), e)
     ELSE IF e.type = "SET_STATUS" THEN Sets1(Tail(d), e)
     ELSE Still(Tail(d))

Paging(d, e) == d # << >> /\ d[1].op = "set_user_state" /\ e.type = "JOIN" /\ Asking(Tail(d), e)

Chrooming(d, f, e) == Pushing(d, f) /\ f.type = "CHROOM" /\ Paging(Tail(d), e)

\* One that asks for no move more: at most its own change of global_state.
Settles(d) == Still(d) \/ (Len(d) = 1 /\ d[1].op \in {"part_channels", "set_status"})

\* The moves b are what the request has left to ask for.
Asks(d, b) ==
  \/ b = << >> /\ Settles(d)
  \/ \E e : b = <<e>> /\ (Asking(d, e) \/ Paging(d, e))
  \/ \E f, e : b = <<f, e>> /\ Chrooming(d, f, e)

\* When the moves w are under way and the request has only its own change of
\* global_state left: it is what the chat thread has done or is about to do.
Closing(s, u, d, w) ==
  /\ d # << >> /\ d[1].op = "part_channels" =>
       \/ w = << >> /\ part_channels(s.users[u].us, d[1].chans, d[1].ct) = s.users[u].us
       \/ \E e : w = <<e>> /\ e.type = "PART_CHANNEL" /\ d[1].chans = e.chans /\ d[1].ct = e.ct
  /\ d # << >> /\ d[1].op = "set_status" =>
       \/ w = << >> /\ (InSomeChannel(s.users[u].us) => d[1].vis = s.users[u].vis)
       \/ \E e : w = <<e>> /\ e.type = "SET_STATUS" /\ d[1].vis = e.vis
  /\ (\E k \in DOMAIN d : d[k].op = "cleanup") => w = << >>

\* The moves of u that are under way, in the queue q or left to a request d,
\* go right.
Coming(s, q, d, u) ==
  \E a, b : Lists(q, u, a) /\ Asks(d, b) /\ Right(s, u, a \o b) /\ Closing(s, u, d, a \o b)

LEMMA OneAndOne ==
  ASSUME NEW x, NEW y
  PROVE  << x >> \o << y >> = << x, y >>
<1> DEFINE T == {x, y}
           p == Append(<< x >>, y)
<1>1. << x >> \in Seq(T)
  OBVIOUS
<1>2. << x >> \o << y >> = p
  BY <1>1, SeqGrows DEF IsSeq
<1>3. p \in Seq(T) /\ Len(p) = 2 /\ p[1] = x /\ p[2] = y
  BY <1>1
<1> HIDE DEF p, T
<1>4. p = << x, y >>
  BY <1>3
<1> QED
  BY <1>2, <1>4

LEMMA Pairs ==
  ASSUME NEW q, NEW u, NEW a, Lists(q, u, a), NEW d, NEW b, Asks(d, b), NEW s, Right(s, u, a \o b)
  PROVE  \/ a = << >> /\ a \o b = b
         \/ b = << >> /\ a \o b = a
         \/ \E x, y : a = <<x>> /\ b = <<y>> /\ a \o b = <<x, y>>
<1>1. a = << >> \/ (\E e : a = <<e>>) \/ (\E f, e : a = <<f, e>>)
  BY DEF Lists
<1>2. b = << >> \/ (\E e : b = <<e>>) \/ (\E f, e : b = <<f, e>>)
  BY DEF Asks
<1>3. CASE a = << >>
  <2>1. \A x, y : << >> \o << x >> = << x >> /\ << >> \o << x, y >> = << x, y >>
    OBVIOUS
  <2>2. << >> \o << >> = << >>
    OBVIOUS
  <2> QED
    BY <1>2, <1>3, <2>1, <2>2
<1>4. CASE b = << >>
  <2>1. \A x, y : << x >> \o << >> = << x >> /\ << x, y >> \o << >> = << x, y >>
    OBVIOUS
  <2>2. << >> \o << >> = << >>
    OBVIOUS
  <2> QED
    BY <1>1, <1>4, <2>1, <2>2
<1>5. CASE (\E e : a = <<e>>) /\ (\E e : b = <<e>>)
  <2>1. PICK x, y : a = <<x>> /\ b = <<y>>
    BY <1>5
  <2>2. << x >> \o << y >> = << x, y >>
    BY OneAndOne
  <2> QED
    BY <2>1, <2>2
<1>6. CASE ((\E e : a = <<e>>) /\ (\E f, e : b = <<f, e>>)) \/ ((\E f, e : a = <<f, e>>) /\ (\E e : b = <<e>>))
           \/ ((\E f, e : a = <<f, e>>) /\ (\E f, e : b = <<f, e>>))
  <2>1. Len(a \o b) \in {3, 4}
    <3>1. CASE (\E e : a = <<e>>) /\ (\E f, e : b = <<f, e>>)
      <4>1. PICK x, y, z : a = <<x>> /\ b = <<y, z>>
        BY <3>1
      <4>2. Len(<<x>> \o <<y, z>>) = 3
        OBVIOUS
      <4> QED  BY <4>1, <4>2
    <3>2. CASE (\E f, e : a = <<f, e>>) /\ (\E e : b = <<e>>)
      <4>1. PICK x, y, z : a = <<x, y>> /\ b = <<z>>
        BY <3>2
      <4>2. Len(<<x, y>> \o <<z>>) = 3
        OBVIOUS
      <4> QED  BY <4>1, <4>2
    <3>3. CASE (\E f, e : a = <<f, e>>) /\ (\E f, e : b = <<f, e>>)
      <4>1. PICK x, y, z, v : a = <<x, y>> /\ b = <<z, v>>
        BY <3>3
      <4>2. Len(<<x, y>> \o <<z, v>>) = 4
        OBVIOUS
      <4> QED  BY <4>1, <4>2
    <3> QED
      BY <1>6, <3>1, <3>2, <3>3
  <2>2. Len(a \o b) \in {0, 1, 2}
    <3> DEFINE w == a \o b
    <3>1. w = << >> \/ (\E e : w = <<e>>) \/ (\E f, e : w = <<f, e>>)
      BY RightLength
    <3> HIDE DEF w
    <3>2. ASSUME NEW x, w = <<x>> PROVE Len(w) = 1
      BY <3>2
    <3>3. ASSUME NEW x, NEW y, w = <<x, y>> PROVE Len(w) = 2
      BY <3>3
    <3>4. w = << >> => Len(w) = 0
      OBVIOUS
    <3>5. Len(w) \in {0, 1, 2}
      BY <3>1, <3>2, <3>3, <3>4
    <3> QED
      BY <3>5 DEF w
  <2> QED
    BY <2>1, <2>2
<1> QED
  BY <1>1, <1>2, <1>3, <1>4, <1>5, <1>6

\* The moves of one who is spared stay right.
LEMMA ComingSpared ==
  ASSUME NEW s, NEW t, NEW q, NEW d, NEW u, Spares(s, t, u), u \notin t.loose, Coming(s, q, d, u)
  PROVE  Coming(t, q, d, u)
<1>1. PICK a, b : Lists(q, u, a) /\ Asks(d, b) /\ Right(s, u, a \o b) /\ Closing(s, u, d, a \o b)
  BY DEF Coming
<1>2. Right(t, u, a \o b)
  BY <1>1, SparesRight
<1>3. t.users[u].us = s.users[u].us /\ t.users[u].vis = s.users[u].vis
  BY DEF Spares
<1>4. Closing(t, u, d, a \o b)
  <2> DEFINE w == a \o b
  <2>1. Closing(s, u, d, w)
    BY <1>1
  <2> HIDE DEF w
  <2>2. Closing(t, u, d, w)
    BY <1>3, <2>1 DEF Closing
  <2> QED
    BY <2>2 DEF w
<1> QED
  BY <1>1, <1>2, <1>4 DEF Coming

\* Other events come into the queue and leave it.
LEMMA ComingBeside ==
  ASSUME NEW s, NEW q, IsSeq(q), NEW d, NEW u, Coming(s, q, d, u)
  PROVE  /\ \A e : ~ Moves1(e, u) => Coming(s, Append(q, e), d, u)
         /\ q # << >> /\ ~ Moves1(Head(q), u) => Coming(s, Tail(q), d, u)
<1>1. PICK a, b : Lists(q, u, a) /\ Asks(d, b) /\ Right(s, u, a \o b) /\ Closing(s, u, d, a \o b)
  BY DEF Coming
<1>2. \A e : ~ Moves1(e, u) => Lists(Append(q, e), u, a)
  BY <1>1, ListsGrow
<1>3. q # << >> /\ ~ Moves1(Head(q), u) => Lists(Tail(q), u, a)
  BY <1>1, ListsShrink
<1> QED
  BY <1>1, <1>2, <1>3 DEF Coming

\* Of the moves w, the first is handled: there is its echo then, or the other.
LEMMA ClosingGoes ==
  ASSUME NEW s, NEW t, NEW e, EventDoes(s, t, e), NEW u, u = e.u, u \notin t.loose, e.type \in Moves,
         NEW d, NEW w, w = <<e>>, Closing(s, u, d, w), NEW r, r = Echo(e)
  PROVE  Closing(t, u, d, r)
<1>0. e.type \in {"PART_CHANNEL", "SET_STATUS"} => r = << >>
  BY SetIs
<1>1. d # << >> /\ d[1].op = "part_channels" =>
        r = << >> /\ part_channels(t.users[u].us, d[1].chans, d[1].ct) = t.users[u].us
  <2> SUFFICES ASSUME d # << >>, d[1].op = "part_channels"
               PROVE  r = << >> /\ part_channels(t.users[u].us, d[1].chans, d[1].ct) = t.users[u].us
    OBVIOUS
  <2>1. e.type = "PART_CHANNEL" /\ d[1].chans = e.chans /\ d[1].ct = e.ct
    <3>1. w # << >> /\ \A x : w = <<x>> => x = e
      OBVIOUS
    <3> HIDE DEF Closing
    <3>2. \E x : w = <<x>> /\ x.type = "PART_CHANNEL" /\ d[1].chans = x.chans /\ d[1].ct = x.ct
      BY <3>1 DEF Closing
    <3> QED
      BY <3>1, <3>2
  <2>2. t.users[u].us = part_channels(s.users[u].us, e.chans, e.ct)
    BY <2>1 DEF EventDoes
  <2>3. part_channels(t.users[u].us, e.chans, e.ct) = t.users[u].us
    BY <2>2 DEF part_channels
  <2> QED
    BY <1>0, <2>1, <2>3
<1>2. d # << >> /\ d[1].op = "set_status" =>
        r = << >> /\ (InSomeChannel(t.users[u].us) => d[1].vis = t.users[u].vis)
  <2> SUFFICES ASSUME d # << >>, d[1].op = "set_status"
               PROVE  r = << >> /\ (InSomeChannel(t.users[u].us) => d[1].vis = t.users[u].vis)
    OBVIOUS
  <2>1. e.type = "SET_STATUS" /\ d[1].vis = e.vis
    <3>1. w # << >> /\ \A x : w = <<x>> => x = e
      OBVIOUS
    <3>2. \E x : w = <<x>> /\ x.type = "SET_STATUS" /\ d[1].vis = x.vis
      BY <3>1 DEF Closing
    <3> QED
      BY <3>1, <3>2
  <2>2. t.users[u].us = s.users[u].us /\ (InSomeChannel(s.users[u].us) => t.users[u].vis = e.vis)
    BY <2>1 DEF EventDoes
  <2> QED
    BY <1>0, <2>1, <2>2
<1>3. ~ \E k \in DOMAIN d : d[k].op = "cleanup"
  <2>1. w # << >>
    OBVIOUS
  <2> QED
    BY <2>1 DEF Closing
<1> QED
  BY <1>1, <1>2, <1>3 DEF Closing

LEMMA RightFirst ==
  ASSUME NEW s, NEW u
  PROVE  /\ \A e : Right(s, u, <<e>>) => e.type \in Moves
         /\ \A f, e : Right(s, u, <<f, e>>) => f.type = "CHROOM" /\ e.type = "JOIN" /\ f.type \notin Moves
<1>1. ASSUME NEW e, Right(s, u, <<e>>)
      PROVE  e.type \in Moves
  <2>1. Due(s, u, e)
    BY <1>1, RightIs
  <2> QED
    BY <2>1 DEF Due, Moves
<1>2. ASSUME NEW f, NEW e, Right(s, u, <<f, e>>)
      PROVE  f.type = "CHROOM" /\ e.type = "JOIN" /\ f.type \notin Moves
  <2>1. GoesOver(s, u, f, e)
    BY <1>2, RightIs
  <2> QED
    BY <2>1 DEF GoesOver, Moves
<1> QED
  BY <1>1, <1>2

\* Two moves are under way only while neither global_state nor the sessions
\* are about to be told something else.
LEMMA ClosingTwo ==
  ASSUME NEW s, NEW t, NEW u, NEW d, NEW f, NEW e, Closing(s, u, d, <<f, e>>), NEW w
  PROVE  Closing(t, u, d, w)
<1> DEFINE v == <<f, e>>
<1>1. v # << >> /\ \A x : v # <<x>>
  OBVIOUS
<1>2. Closing(s, u, d, v)
  OBVIOUS
<1> HIDE DEF v
<1>3. /\ ~ (d # << >> /\ d[1].op = "part_channels") /\ ~ (d # << >> /\ d[1].op = "set_status")
      /\ ~ \E k \in DOMAIN d : d[k].op = "cleanup"
  BY <1>1, <1>2 DEF Closing
<1> QED
  BY <1>3 DEF Closing

LEMMA NoneFirst ==
  ASSUME NEW w
  PROVE  << >> \o << >> = << >> /\ \A e : << >> \o <<e>> = <<e>> /\ <<e>> \o << >> = <<e>>
<1>1. << >> \o << >> = << >>
  OBVIOUS
<1>2. ASSUME NEW e PROVE << >> \o <<e>> = <<e>> /\ <<e>> \o << >> = <<e>>
  OBVIOUS
<1> QED
  BY <1>1, <1>2

LEMMA ComingEvent ==
  ASSUME NEW s, NEW t, NEW q, IsSeq(q), q # << >>, NEW e, e = Head(q), EventOK(e), EventDoes(s, t, e),
         NEW u, u = e.u, u \notin t.loose, NEW d, Coming(s, q, d, u)
  PROVE  Coming(t, Tail(q) \o Echo(e), d, u)
<1> DEFINE p == Tail(q)
<1>1. IsSeq(p)
  BY SeqGoesOn
<1>2. p \o << >> = p /\ \A x : p \o << x >> = Append(p, x)
  BY <1>1, SeqGrows
<1>3. CASE e.type \notin Moving
  <2>1. Echo(e) = << >>
    BY <1>3 DEF Echo, Moving, Moves
  <2>2. ~ Moves1(Head(q), u)
    BY <1>3 DEF Moves1
  <2>3. Coming(s, p, d, u)
    BY <2>2, ComingBeside
  <2>4. Spares(s, t, u)
    BY <1>3 DEF EventDoes
  <2>5. Coming(t, p, d, u)
    BY <2>3, <2>4, ComingSpared
  <2> QED
    BY <1>2, <2>1, <2>5
<1>4. CASE e.type \in Moving
  <2>1. PICK a, b : Lists(q, u, a) /\ Asks(d, b) /\ Right(s, u, a \o b) /\ Closing(s, u, d, a \o b)
    BY DEF Coming
  <2>2. Moves1(Head(q), u)
    BY <1>4 DEF Moves1
  <2>3. \/ a = << e >> /\ Lists(p, u, << >>)
        \/ \E x : a = << e, x >> /\ Lists(p, u, << x >>)
    BY <2>1, <2>2, ListsShrink
  <2>4. \/ a = << >> /\ a \o b = b
        \/ b = << >> /\ a \o b = a
        \/ \E x, y : a = <<x>> /\ b = <<y>> /\ a \o b = <<x, y>>
    BY <2>1, Pairs
  <2> HIDE DEF p
  <2>5. CASE a = << e >> /\ b = << >>
    <3>1. Lists(p, u, << >>)
      <4>1. \A x : << e >> # << e, x >>
        OBVIOUS
      <4> QED
        BY <2>3, <2>5, <4>1
    <3>2. a \o b = << e >>
      BY <2>5, NoneFirst
    <3>3. e.type \in Moves
      BY <2>1, <3>2, RightFirst
    <3>4. Right(t, u, Echo(e))
      BY <2>1, <3>2, <3>3 DEF EventDoes
    <3>5. Closing(t, u, d, Echo(e))
      BY <2>1, <3>2, <3>3, ClosingGoes
    <3>6. CASE e.type = "JOIN"
      <4> DEFINE f == [e EXCEPT !.type = "JOIN_CHANNEL"]
      <4>1. Echo(e) = << f >>
        BY <3>6 DEF Echo
      <4>2. Moves1(f, u)
        BY <3>6 DEF EventOK, Moves1, Moving, Moves
      <4> HIDE DEF f
      <4>3. Lists(Append(p, f), u, << f >>)
        BY <1>1, <3>1, <4>2, ListsGrow
      <4>4. Right(t, u, << f >> \o b) /\ Closing(t, u, d, << f >> \o b)
        BY <2>5, <3>4, <3>5, <4>1, NoneFirst
      <4>5. Coming(t, Append(p, f), d, u)
        BY <2>1, <4>3, <4>4 DEF Coming
      <4> QED
        BY <1>2, <4>1, <4>5 DEF p
    <3>7. CASE e.type # "JOIN"
      <4>1. Echo(e) = << >>
        BY <3>7 DEF Echo
      <4>2. Right(t, u, << >> \o b) /\ Closing(t, u, d, << >> \o b)
        BY <2>5, <3>4, <3>5, <4>1, NoneFirst
      <4>3. Coming(t, p, d, u)
        BY <2>1, <3>1, <4>2 DEF Coming
      <4> QED
        BY <1>2, <4>1, <4>3 DEF p
    <3> QED
      BY <3>6, <3>7
  <2>6. ASSUME NEW x, a \o b = << e, x >>,
               \E c : Lists(p, u, c) /\ c \o b = << x >>
        PROVE  Coming(t, p \o Echo(e), d, u)
    <3>1. Right(s, u, << e, x >>) /\ Closing(s, u, d, << e, x >>)
      BY <2>1, <2>6
    <3>2. e.type = "CHROOM" /\ Echo(e) = << >>
      BY <3>1, RightFirst DEF Echo
    <3>3. Right(t, u, << x >>)
      BY <3>1, <3>2 DEF EventDoes
    <3>4. Closing(t, u, d, << x >>)
      BY <3>1, ClosingTwo
    <3>5. PICK c : Lists(p, u, c) /\ c \o b = << x >>
      BY <2>6
    <3>6. Coming(t, p, d, u)
      BY <2>1, <3>3, <3>4, <3>5 DEF Coming
    <3> QED
      BY <1>2, <3>2, <3>6
  <2>7. CASE a = << e >> /\ b # << >>
    <3>1. Lists(p, u, << >>)
      <4>1. \A x : << e >> # << e, x >>
        OBVIOUS
      <4> QED
        BY <2>3, <2>7, <4>1
    <3>2. PICK y : b = << y >> /\ a \o b = << e, y >>
      <4>1. a # << >> /\ \A x : << e >> = << x >> => x = e
        BY <2>7
      <4> QED
        BY <2>4, <2>7, <4>1
    <3>3. << >> \o b = << y >>
      BY <3>2, NoneFirst
    <3> QED
      BY <2>6, <3>1, <3>2, <3>3 DEF p
  <2>8. CASE \E x : a = << e, x >> /\ Lists(p, u, << x >>)
    <3>1. PICK x : a = << e, x >> /\ Lists(p, u, << x >>)
      BY <2>8
    <3>2. b = << >> /\ a \o b = << e, x >>
      <4>1. a # << >> /\ \A y : a # << y >>
        BY <3>1
      <4> QED
        BY <2>4, <3>1, <4>1
    <3>3. << x >> \o b = << x >>
      BY <3>2, NoneFirst
    <3> QED
      BY <2>6, <3>1, <3>2, <3>3 DEF p
  <2> QED
    BY <2>3, <2>5, <2>7, <2>8
<1> QED
  BY <1>3, <1>4

\* What a request has left when its first call is made.
LEMMA ClosingTail ==
  ASSUME NEW s, NEW u, NEW d, IsSeq(d), d # << >>, NEW w, Closing(s, u, d, w),
         Still(Tail(d)) \/ (Tail(d) # << >> /\ Tail(d)[1].op \in {"set_user_state", "push"})
  PROVE  Closing(s, u, Tail(d), w)
<1> DEFINE r == Tail(d)
<1>1. /\ Len(d) \in Nat /\ DOMAIN d = 1..Len(d) /\ IsSeq(r) /\ Len(r) = Len(d) - 1
      /\ \A i \in 1..(Len(d) - 1) : r[i] = d[i + 1]
  BY SeqGoesOn
<1>2. DOMAIN r = 1..(Len(d) - 1) /\ (r # << >> => 1 \in DOMAIN r)
  BY <1>1, SeqGoesOn
<1>3. Still(r) \/ (r # << >> /\ r[1].op \in {"set_user_state", "push"})
  OBVIOUS
<1> HIDE DEF r
<1>4. \A k \in DOMAIN r : k + 1 \in DOMAIN d /\ r[k] = d[k + 1]
  BY <1>1, <1>2
<1>5. ~ (r # << >> /\ r[1].op = "part_channels") /\ ~ (r # << >> /\ r[1].op = "set_status")
  <2>1. CASE Still(r)
    BY <1>2, <2>1 DEF Still
  <2> QED
    BY <1>3, <2>1
<1>6. (\E k \in DOMAIN r : r[k].op = "cleanup") => w = << >>
  BY <1>4 DEF Closing
<1>7. Closing(s, u, r, w)
  BY <1>5, <1>6 DEF Closing
<1> QED
  BY <1>7 DEF r

LEMMA StillTail ==
  ASSUME NEW d, IsSeq(d), d # << >>, Still(d)
  PROVE  Still(Tail(d))
<1>1. /\ Len(d) \in Nat /\ DOMAIN d = 1..Len(d) /\ IsSeq(Tail(d)) /\ Len(Tail(d)) = Len(d) - 1
      /\ \A i \in 1..(Len(d) - 1) : Tail(d)[i] = d[i + 1]
  BY SeqGoesOn
<1>2. DOMAIN Tail(d) = 1..(Len(d) - 1)
  BY <1>1, SeqGoesOn
<1>3. \A k \in DOMAIN Tail(d) : k + 1 \in DOMAIN d /\ Tail(d)[k] = d[k + 1]
  BY <1>1, <1>2
<1> QED
  BY <1>3 DEF Still

LEMMA StillAsks ==
  ASSUME NEW d, Still(d), NEW b, b = << >>
  PROVE  Asks(d, b)
<1>1. Settles(d)
  BY DEF Settles
<1> QED
  BY <1>1 DEF Asks

\* The shapes of a request, by its first call.
LEMMA AskingNow ==
  ASSUME NEW d, IsSeq(d), d # << >>, NEW b, Asks(d, b)
  PROVE  /\ d[1].op = "push" =>
              \/ b = << >> /\ Still(d)
              \/ b = <<d[1].event>> /\ Asking(d, d[1].event)
              \/ \E e : b = <<d[1].event, e>> /\ Chrooming(d, d[1].event, e)
         /\ d[1].op = "set_user_state" => \E e : b = <<e>> /\ Paging(d, e)
         /\ d[1].op \in {"set_status", "part_channels"} => b = << >> /\ Len(d) = 1
         /\ d[1].op \notin {"push", "set_user_state", "set_status", "part_channels"} => b = << >> /\ Still(d)
<1>1. 1 \in DOMAIN d
  BY SeqGoesOn
<1>2. Still(d) => d[1].op \notin {"set_user_state", "part_channels", "set_status"}
  BY <1>1 DEF Still
<1>3. \A e : (Asking(d, e) => d[1].op = "push" /\ d[1].event = e) /\ (Paging(d, e) => d[1].op = "set_user_state")
  BY DEF Asking, Paging, Pushing
<1>4. \A f, e : Chrooming(d, f, e) => d[1].op = "push" /\ d[1].event = f
  BY DEF Chrooming, Pushing
<1> QED
  BY <1>2, <1>3, <1>4 DEF Asks, Settles

LEMMA ComingPush ==
  ASSUME NEW s, NEW q, IsSeq(q), NEW d, IsSeq(d), d # << >>, d[1].op = "push",
         NEW u, d[1].event.u = u, Coming(s, q, d, u)
  PROVE  Coming(s, Append(q, d[1].event), Tail(d), u)
<1> DEFINE e == d[1].event
           r == Tail(d)
           p == Append(q, e)
<1>1. PICK a, b : Lists(q, u, a) /\ Asks(d, b) /\ Right(s, u, a \o b) /\ Closing(s, u, d, a \o b)
  BY DEF Coming
<1>2. \/ b = << >> /\ Still(d)
      \/ b = <<e>> /\ Asking(d, e)
      \/ \E x : b = <<e, x>> /\ Chrooming(d, e, x)
  BY <1>1, AskingNow
<1>3. \/ a = << >> /\ a \o b = b
      \/ b = << >> /\ a \o b = a
      \/ \E x, y : a = <<x>> /\ b = <<y>> /\ a \o b = <<x, y>>
  BY <1>1, Pairs
<1>4. /\ ~ Moves1(e, u) => Lists(p, u, a)
      /\ Moves1(e, u) /\ a = << >> => Lists(p, u, << e >>)
      /\ \A f : Moves1(e, u) /\ a = << f >> => Lists(p, u, << f, e >>)
  BY <1>1, ListsGrow
<1>5. 1 \in DOMAIN d
  BY SeqGoesOn
<1>6. e.u = u
  OBVIOUS
<1> HIDE DEF p
<1>7. CASE b = << >> /\ Still(d)
  <2>1. ~ Moves1(e, u)
    BY <1>5, <1>7 DEF Still, Moves1
  <2>2. Still(r)
    BY <1>7, StillTail
  <2>3. Closing(s, u, r, a \o b)
    BY <1>1, <2>2, ClosingTail
  <2>4. Asks(r, b)
    BY <1>7, <2>2, StillAsks
  <2> QED
    BY <1>1, <1>4, <2>1, <2>3, <2>4 DEF Coming, p
<1>8. CASE b = <<e>> /\ Asking(d, e)
  <2>1. Moves1(e, u) /\ e.type \in Moves
    BY <1>6, <1>8 DEF Moves1, Asking, Moving
  <2>2. b # << >> /\ \A x : b = <<x>> => x = e
    BY <1>8
  <2> DEFINE w == a \o b
  <2>3. \/ a = << >> /\ w = <<e>>
        \/ \E x : a = <<x>> /\ w = <<x, e>>
    BY <1>3, <1>8, <2>2
  <2>4. Right(s, u, w) /\ Closing(s, u, d, w)
    BY <1>1
  <2> HIDE DEF w, e, r
  <2>5. Lists(p, u, w) /\ w \o << >> = w
    <3>1. CASE a = << >> /\ w = <<e>>
      BY <1>4, <2>1, <3>1, NoneFirst
    <3>2. CASE \E x : a = <<x>> /\ w = <<x, e>>
      <4>1. PICK x : a = <<x>> /\ w = <<x, e>>
        BY <3>2
      <4>2. <<x, e>> \o << >> = <<x, e>>
        OBVIOUS
      <4> QED
        BY <1>4, <2>1, <4>1, <4>2
    <3> QED
      BY <2>3, <3>1, <3>2
  <2>6. e.type # "JOIN" => w = <<e>>
    <3>1. \A x : Right(s, u, <<x, e>>) => e.type = "JOIN"
      BY RightFirst
    <3> QED
      BY <2>3, <2>4, <3>1
  <2>7. CASE e.type = "PART_CHANNEL"
    <3>1. Parts1(r, e)
      BY <1>8, <2>7 DEF Asking, r
    <3>2. w = <<e>> /\ Asks(r, << >>)
      BY <2>6, <2>7, <3>1 DEF Asks, Settles, Parts1
    <3>3. Closing(s, u, r, w)
      <4>1. r[1].op = "part_channels" /\ r[1].chans = e.chans /\ r[1].ct = e.ct /\ Len(r) = 1 /\ IsSeq(r)
        BY <3>1, SeqGoesOn DEF Parts1, r
      <4>2. DOMAIN r = {1}
        <5>1. DOMAIN r = 1..1
          BY <4>1, SeqGoesOn
        <5> QED  BY <5>1
      <4>3. ~ \E k \in DOMAIN r : r[k].op = "cleanup"
        BY <4>1, <4>2
      <4> QED
        BY <2>7, <3>2, <4>1, <4>3 DEF Closing
    <3> QED
      BY <2>4, <2>5, <3>2, <3>3 DEF Coming, p, r, e
  <2>8. CASE e.type = "SET_STATUS"
    <3>1. Sets1(r, e)
      BY <1>8, <2>8 DEF Asking, r
    <3>2. w = <<e>> /\ Asks(r, << >>)
      BY <2>6, <2>8, <3>1 DEF Asks, Settles, Sets1
    <3>3. Closing(s, u, r, w)
      <4>1. r[1].op = "set_status" /\ r[1].vis = e.vis /\ Len(r) = 1 /\ IsSeq(r)
        BY <3>1, SeqGoesOn DEF Sets1, r
      <4>2. DOMAIN r = {1}
        <5>1. DOMAIN r = 1..1
          BY <4>1, SeqGoesOn
        <5> QED  BY <5>1
      <4>3. ~ \E k \in DOMAIN r : r[k].op = "cleanup"
        BY <4>1, <4>2
      <4> QED
        BY <2>8, <3>2, <4>1, <4>3 DEF Closing
    <3> QED
      BY <2>4, <2>5, <3>2, <3>3 DEF Coming, p, r, e
  <2>9. CASE e.type \notin {"PART_CHANNEL", "SET_STATUS"}
    <3>1. Still(r)
      BY <1>8, <2>9 DEF Asking, r
    <3>2. Asks(r, << >>)
      BY <3>1, StillAsks
    <3>3. Closing(s, u, r, w)
      BY <2>4, <3>1, ClosingTail DEF r
    <3> QED
      BY <2>4, <2>5, <3>2, <3>3 DEF Coming, p, r, e
  <2> QED
    BY <2>7, <2>8, <2>9
<1>9. CASE \E x : b = <<e, x>> /\ Chrooming(d, e, x)
  <2>1. PICK x : b = <<e, x>> /\ Chrooming(d, e, x)
    BY <1>9
  <2>2. b # << >> /\ \A y : b # <<y>>
    BY <2>1
  <2>3. a = << >> /\ a \o b = <<e, x>>
    BY <1>3, <2>1, <2>2
  <2>4. Moves1(e, u)
    BY <1>6, <2>1 DEF Moves1, Chrooming, Moving
  <2>5. Paging(r, x)
    BY <2>1 DEF Chrooming
  <2>6. Asks(r, <<x>>) /\ r # << >> /\ r[1].op = "set_user_state"
    BY <2>5 DEF Asks, Paging
  <2>7. Closing(s, u, r, <<e, x>>)
    BY <1>1, <2>3, <2>6, ClosingTail
  <2>8. Lists(p, u, <<e>>)
    BY <1>4, <2>3, <2>4
  <2>9. <<e>> \o <<x>> = <<e, x>>
    BY OneAndOne
  <2>10. Right(s, u, <<e>> \o <<x>>) /\ Closing(s, u, r, <<e>> \o <<x>>)
    BY <1>1, <2>3, <2>7, <2>9
  <2> HIDE DEF e, r
  <2> QED
    BY <2>6, <2>8, <2>10 DEF Coming, p, r, e
<1> QED
  BY <1>2, <1>7, <1>8, <1>9

\* A call that moves nobody is followed by such calls.
LEMMA ComingOn ==
  ASSUME NEW s, NEW q, NEW d, IsSeq(d), d # << >>,
         d[1].op \notin {"push", "set_user_state", "set_status", "part_channels"},
         NEW u, Coming(s, q, d, u),
         NEW r, Still(r), (\E k \in DOMAIN r : r[k].op = "cleanup") => \E k \in DOMAIN d : d[k].op = "cleanup",
         r # << >> => 1 \in DOMAIN r
  PROVE  Coming(s, q, r, u)
<1>1. PICK a, b : Lists(q, u, a) /\ Asks(d, b) /\ Right(s, u, a \o b) /\ Closing(s, u, d, a \o b)
  BY DEF Coming
<1>2. b = << >>
  BY <1>1, AskingNow
<1>3. Asks(r, b)
  BY <1>2, StillAsks
<1>4. Closing(s, u, r, a \o b)
  <2> DEFINE w == a \o b
  <2>1. Closing(s, u, d, w)
    BY <1>1
  <2> HIDE DEF w
  <2>2. r # << >> => r[1].op # "part_channels" /\ r[1].op # "set_status"
    BY DEF Still
  <2>3. Closing(s, u, r, w)
    BY <2>1, <2>2 DEF Closing
  <2> QED
    BY <2>3 DEF w
<1> QED
  BY <1>1, <1>3, <1>4 DEF Coming

LEMMA ComingTail ==
  ASSUME NEW s, NEW q, NEW d, IsSeq(d), d # << >>,
         d[1].op \notin {"push", "set_user_state", "set_status", "part_channels"},
         NEW u, Coming(s, q, d, u)
  PROVE  Coming(s, q, Tail(d), u)
<1>1. PICK a, b : Asks(d, b)
  BY DEF Coming
<1>2. Still(Tail(d))
  BY <1>1, AskingNow, StillTail
<1>3. /\ Len(d) \in Nat /\ DOMAIN d = 1..Len(d) /\ IsSeq(Tail(d)) /\ Len(Tail(d)) = Len(d) - 1
      /\ \A i \in 1..(Len(d) - 1) : Tail(d)[i] = d[i + 1]
  BY SeqGoesOn
<1>4. DOMAIN Tail(d) = 1..(Len(d) - 1) /\ (Tail(d) # << >> => 1 \in DOMAIN Tail(d))
  BY <1>3, SeqGoesOn
<1>5. \A k \in DOMAIN Tail(d) : k + 1 \in DOMAIN d /\ Tail(d)[k] = d[k + 1]
  BY <1>3, <1>4
<1> QED
  BY <1>2, <1>4, <1>5, ComingOn

\* A request that has nothing left to do and no event in the queue.
LEMMA Settled ==
  ASSUME NEW s, NEW q, NEW u, Coming(s, q, << >>, u), \A i \in DOMAIN q : q[i].u # u
  PROVE  Lists(q, u, << >>) /\ Right(s, u, << >>)
<1>1. PICK a, b : Lists(q, u, a) /\ Asks(<< >>, b) /\ Right(s, u, a \o b)
  BY DEF Coming
<1>2. b = << >>
  BY <1>1 DEF Asks, Asking, Paging, Chrooming, Pushing
<1>3. Places(q, u) = {}
  BY DEF Places
<1>4. a = << >>
  BY <1>1, <1>3 DEF Lists
<1> QED
  BY <1>1, <1>2, <1>4, NoneFirst

LEMMA ClosingNone ==
  ASSUME NEW r, r # << >> => r[1].op \notin {"part_channels", "set_status"},
         \A k \in DOMAIN r : r[k].op # "cleanup", NEW s, NEW u, NEW w
  PROVE  Closing(s, u, r, w)
  BY DEF Closing

\* A request is begun.
LEMMA ComingStarts ==
  ASSUME NEW s, NEW q, NEW u, Lists(q, u, << >>), NEW d, NEW b, Asks(d, b), Right(s, u, b), Closing(s, u, d, b)
  PROVE  Coming(s, q, d, u)
<1>1. << >> \o b = b
  <2>1. b = << >> \/ (\E e : b = <<e>>) \/ (\E f, e : b = <<f, e>>)
    BY DEF Asks
  <2>2. ASSUME NEW f, NEW e PROVE << >> \o <<f, e>> = <<f, e>>
    OBVIOUS
  <2> QED
    BY <2>1, <2>2, NoneFirst
<1> QED
  BY <1>1 DEF Coming

\* www_local_user_check_for_channel_cleanup: the user parts from every channel.
LEMMA ComingCleanup ==
  ASSUME NEW s, NEW q, NEW d, IsSeq(d), d # << >>, d[1].op = "cleanup", NEW u, Coming(s, q, d, u),
         NEW e, e.type = "PART_CHANNEL", NEW r, Asking(r, e),
         \A k \in DOMAIN r : r[k].op # "cleanup"
  PROVE  Coming(s, q, r, u)
<1>1. PICK a, b : Lists(q, u, a) /\ Asks(d, b) /\ Right(s, u, a \o b) /\ Closing(s, u, d, a \o b)
  BY DEF Coming
<1>2. b = << >>
  BY <1>1, AskingNow
<1>3. a \o b = << >> /\ a = << >>
  <2>1. 1 \in DOMAIN d
    BY SeqGoesOn
  <2>2. a \o b = << >>
    <3> DEFINE w == a \o b
    <3>1. Closing(s, u, d, w)
      BY <1>1
    <3> HIDE DEF w
    <3>2. w = << >>
      BY <2>1, <3>1 DEF Closing
    <3> QED
      BY <3>2 DEF w
  <2>3. \/ a = << >>
        \/ b = << >> /\ a \o b = a
        \/ \E x, y : b = <<y>>
    BY <1>1, Pairs
  <2>4. \A y : b # <<y>>
    BY <1>2
  <2> QED
    BY <2>2, <2>3, <2>4
<1>4. Right(s, u, <<e>>)
  <2>1. NoMix(s.users[u].us) /\ Even(s, u)
    BY <1>1, <1>3, RightIs
  <2> QED
    BY <2>1, RightIs DEF Due
<1>5. Asks(r, <<e>>)
  BY DEF Asks
<1>6. r[1].op = "push"
  BY DEF Asking, Pushing
<1>7. Closing(s, u, r, <<e>>)
  BY <1>6, ClosingNone
<1> QED
  BY <1>1, <1>3, <1>4, <1>5, <1>7, ComingStarts

\* global_state is told something of u.
Tells(s, t, u) ==
  /\ t.users = s.users /\ t.loose = s.loose
  /\ \A c \in Channel : Present(t, u, c) = Present(s, u, c)

LEMMA TellsEven ==
  ASSUME NEW s, NEW t, NEW u, Tells(s, t, u)
  PROVE  /\ Even(s, u) => Even(t, u)
         /\ \A e : JoinDue(s, u, e) => JoinDue(t, u, e)
         /\ \A f, e : GoesOver(s, u, f, e) => GoesOver(t, u, f, e)
<1>1. \A c \in Channel : (Seen(t, u, c) <=> Seen(s, u, c)) /\ Present(t, u, c) = Present(s, u, c)
  BY DEF Tells, Seen
<1>2. t.users = s.users
  BY DEF Tells
<1>3. Even(s, u) => Even(t, u)
  BY <1>1 DEF Even
<1> QED
  BY <1>1, <1>2, <1>3 DEF JoinDue, GoesOver

\* What url_chat_messages2 tells it is what the chat thread will make of the
\* JOIN that follows; until then nobody relies on it.
LEMMA ComingState ==
  ASSUME NEW s, NEW t, NEW u, Tells(s, t, u), NEW q, NEW d, IsSeq(d), d # << >>,
         d[1].op = "set_user_state", Coming(s, q, d, u)
  PROVE  Coming(t, q, Tail(d), u)
<1>1. PICK a, b : Lists(q, u, a) /\ Asks(d, b) /\ Right(s, u, a \o b) /\ Closing(s, u, d, a \o b)
  BY DEF Coming
<1>2. PICK e : b = <<e>> /\ Paging(d, e)
  BY <1>1, AskingNow
<1>3. e.type = "JOIN" /\ Asking(Tail(d), e)
  BY <1>2 DEF Paging
<1>4. a \o b = <<e>> \/ \E x : a \o b = <<x, e>>
  <2>1. b # << >> /\ \A y : b = <<y>> => y = e
    BY <1>2
  <2>2. \/ a = << >> /\ a \o b = b
        \/ b = << >> /\ a \o b = a
        \/ \E x, y : a = <<x>> /\ b = <<y>> /\ a \o b = <<x, y>>
    BY <1>1, Pairs
  <2> DEFINE w == a \o b
  <2>3. w = b \/ \E x : w = <<x, e>>
    BY <2>1, <2>2
  <2> HIDE DEF w
  <2>4. w = <<e>> \/ \E x : w = <<x, e>>
    BY <1>2, <2>3
  <2> QED
    BY <2>4 DEF w
<1>5. Right(t, u, a \o b)
  <2> DEFINE w == a \o b
  <2>0. t.users = s.users
    BY DEF Tells
  <2>1. Right(s, u, w) /\ (w = <<e>> \/ \E x : w = <<x, e>>)
    BY <1>1, <1>4
  <2> HIDE DEF w
  <2>2. CASE w = <<e>>
    <3>1. NoMix(s.users[u].us) /\ JoinDue(s, u, e)
      BY <1>3, <2>1, <2>2, RightIs DEF Due
    <3> QED
      BY <1>3, <2>0, <2>2, <3>1, TellsEven, RightIs DEF Due, w
  <2>3. CASE \E x : w = <<x, e>>
    <3>1. PICK x : w = <<x, e>>
      BY <2>3
    <3>2. NoMix(s.users[u].us) /\ GoesOver(s, u, x, e)
      BY <2>1, <3>1, RightIs
    <3>3. Right(t, u, <<x, e>>)
      BY <2>0, <3>2, TellsEven, RightIs
    <3> QED
      BY <3>1, <3>3 DEF w
  <2> QED
    BY <2>1, <2>2, <2>3
<1>6. Asks(Tail(d), b)
  BY <1>2, <1>3 DEF Asks
<1>7. Closing(s, u, Tail(d), a \o b)
  <2>1. Tail(d) # << >> /\ Tail(d)[1].op = "push"
    BY <1>3 DEF Asking, Pushing
  <2> QED
    BY <1>1, <2>1, ClosingTail
<1>8. Closing(t, u, Tail(d), a \o b)
  <2> DEFINE w == a \o b
             r == Tail(d)
  <2>1. Closing(s, u, r, w)
    BY <1>7
  <2> HIDE DEF w, r
  <2>2. Closing(t, u, r, w)
    BY <2>1 DEF Closing, Tells
  <2> QED
    BY <2>2 DEF w, r
<1> QED
  BY <1>1, <1>5, <1>6, <1>8 DEF Coming

\* The last call of a request that moves the user is made.
LEMMA ComingLast ==
  ASSUME NEW s, NEW t, NEW u, Tells(s, t, u), NEW q, NEW d, IsSeq(d), d # << >>,
         d[1].op \in {"set_status", "part_channels"}, Coming(s, q, d, u),
         d[1].op = "set_status" => t.global[u].us = s.global[u].us /\ t.global[u].vis = d[1].vis,
         d[1].op = "part_channels" => /\ t.global[u].us = part_channels(s.global[u].us, d[1].chans, d[1].ct)
                                      /\ t.global[u].vis = s.global[u].vis
  PROVE  Coming(t, q, Tail(d), u)
<1>1. PICK a, b : Lists(q, u, a) /\ Asks(d, b) /\ Right(s, u, a \o b) /\ Closing(s, u, d, a \o b)
  BY DEF Coming
<1>2. b = << >> /\ Len(d) = 1
  BY <1>1, AskingNow
<1>3. a \o b = a
  <2>1. \A x, y : b # <<y>>
    BY <1>2
  <2>2. << >> \o << >> = << >>
    BY NoneFirst
  <2> QED
    BY <1>1, <1>2, <2>1, <2>2, Pairs
<1>4. Right(s, u, a) /\ Closing(s, u, d, a)
  BY <1>1, <1>3
<1>0. t.users = s.users
  BY DEF Tells
<1>5. Right(t, u, a)
  <2>1. CASE d[1].op = "set_status"
    <3>1. \/ a = << >> /\ (InSomeChannel(s.users[u].us) => d[1].vis = s.users[u].vis)
          \/ \E e : a = <<e>> /\ e.type = "SET_STATUS"
      BY <1>4, <2>1 DEF Closing
    <3>2. CASE a = << >> /\ (InSomeChannel(s.users[u].us) => d[1].vis = s.users[u].vis)
      <4>1. NoMix(s.users[u].us) /\ Even(s, u) /\ Agrees(s, u)
        BY <1>4, <3>2, RightIs
      <4>2. Agrees(t, u)
        BY <1>0, <2>1, <3>2, <4>1 DEF Agrees
      <4>3. Even(t, u)
        BY <4>1, TellsEven
      <4> QED
        BY <1>0, <3>2, <4>1, <4>2, <4>3, RightIs
    <3>3. CASE \E e : a = <<e>> /\ e.type = "SET_STATUS"
      <4>1. PICK e : a = <<e>> /\ e.type = "SET_STATUS"
        BY <3>3
      <4>2. NoMix(s.users[u].us) /\ Even(s, u) /\ s.global[u].us = s.users[u].us
        BY <1>4, <4>1, RightIs DEF Due
      <4>3. Due(t, u, e)
        BY <1>0, <2>1, <4>1, <4>2, TellsEven DEF Due
      <4> QED
        BY <1>0, <4>1, <4>2, <4>3, RightIs
    <3> QED
      BY <3>1, <3>2, <3>3
  <2>2. CASE d[1].op = "part_channels"
    <3>1. \/ a = << >> /\ part_channels(s.users[u].us, d[1].chans, d[1].ct) = s.users[u].us
          \/ \E e : a = <<e>> /\ e.type = "PART_CHANNEL"
      BY <1>4, <2>2 DEF Closing
    <3>2. CASE a = << >> /\ part_channels(s.users[u].us, d[1].chans, d[1].ct) = s.users[u].us
      <4>1. NoMix(s.users[u].us) /\ Even(s, u) /\ Agrees(s, u)
        BY <1>4, <3>2, RightIs
      <4>2. Agrees(t, u)
        BY <1>0, <2>2, <3>2, <4>1 DEF Agrees
      <4>3. Even(t, u)
        BY <4>1, TellsEven
      <4> QED
        BY <1>0, <3>2, <4>1, <4>2, <4>3, RightIs
    <3>3. CASE \E e : a = <<e>> /\ e.type = "PART_CHANNEL"
      <4>1. PICK e : a = <<e>> /\ e.type = "PART_CHANNEL"
        BY <3>3
      <4>2. NoMix(s.users[u].us) /\ Even(s, u)
        BY <1>4, <4>1, RightIs DEF Due
      <4>3. Due(t, u, e)
        BY <4>1, <4>2, TellsEven DEF Due
      <4> QED
        BY <1>0, <4>1, <4>2, <4>3, RightIs
    <3> QED
      BY <3>1, <3>2, <3>3
  <2> QED
    BY <2>1, <2>2
<1>6. IsSeq(Tail(d)) /\ Len(Tail(d)) = 0 /\ DOMAIN Tail(d) = {}
  <2>1. IsSeq(Tail(d)) /\ Len(Tail(d)) = 0
    BY <1>2, SeqGoesOn
  <2>2. DOMAIN Tail(d) = 1..0
    BY <2>1, SeqGoesOn
  <2> QED
    BY <2>1, <2>2
<1>7. Tail(d) = << >>
  BY <1>6 DEF IsSeq
<1>8. Asks(Tail(d), b)
  BY <1>2, <1>6, StillAsks DEF Still
<1>9. Closing(t, u, Tail(d), a \o b)
  BY <1>6, <1>7, ClosingNone
<1> QED
  BY <1>1, <1>3, <1>5, <1>8, <1>9 DEF Coming

\* The calls a thread has left are of a request of one user.
StepOK(x) ==
  /\ x.u \in Uid
  /\ x.op = "push" => EventOK(x.event) /\ x.event.u = x.u
  /\ x.op = "set_user_state" => DOMAIN x.state = {"us", "vis"}
  /\ x.op = "external" => x.msg.kind \notin Announced

CallsOK(d, u) == IsSeq(d) /\ \A k \in DOMAIN d : StepOK(d[k]) /\ d[k].u = u

WorkOK(td) ==
  /\ DOMAIN td = RequestThread
  /\ \A t \in RequestThread : IsSeq(td[t]) /\ (td[t] # << >> => CallsOK(td[t], td[t][1].u))

WorksFor(td, t, u) == td[t] # << >> /\ td[t][1].u = u

\* The one request of u that is being worked on, or nothing.
Doing(td, u, d) ==
  \/ d = << >> /\ \A t \in RequestThread : ~ WorksFor(td, t, u)
  \/ \E t \in RequestThread :
       WorksFor(td, t, u) /\ d = td[t] /\ \A x \in RequestThread \ {t} : ~ WorksFor(td, x, u)

Straight(s, q, td) == \A u \in Uid \ s.loose : \E d : Doing(td, u, d) /\ Coming(s, q, d, u)

QueueOK(q) == IsSeq(q) /\ \A i \in DOMAIN q : EventOK(q[i])

\* What the chat thread has of the queue is the number of events it takes.
ChatOK(c, q) ==
  /\ DOMAIN c = {"at", "batch", "copied"}
  /\ c.batch \in Nat /\ c.batch <= Len(q)
  /\ \A e \in c.copied : e.kind \notin Announced

\* What holds between any two steps, and is kept by every step.
BalanceInv ==
  /\ Sound(m) /\ QueueOK(m_events) /\ WorkOK(m_todo)
  /\ ChatOK(m_chat, m_events)
  /\ Straight(m, m_events, m_todo)

\* The chat thread does what is quiet.
LEMMA StraightQuiet ==
  ASSUME NEW s, NEW t, \A w \in Uid : Spares(s, t, w), NEW q, NEW td, Straight(s, q, td)
  PROVE  Straight(t, q, td)
<1> SUFFICES ASSUME NEW u \in Uid \ t.loose
             PROVE  \E d : Doing(td, u, d) /\ Coming(t, q, d, u)
  BY DEF Straight
<1>1. Spares(s, t, u) /\ u \notin s.loose
  BY DEF Spares
<1>2. PICK d : Doing(td, u, d) /\ Coming(s, q, d, u)
  BY <1>1 DEF Straight
<1>3. Coming(t, q, d, u)
  BY <1>1, <1>2, ComingSpared
<1> QED
  BY <1>2, <1>3

\* The chat thread handles an event.
LEMMA StraightEvent ==
  ASSUME NEW s, NEW t, NEW q, IsSeq(q), q # << >>, NEW e, e = Head(q), EventOK(e), EventDoes(s, t, e),
         NEW td, Straight(s, q, td)
  PROVE  Straight(t, Tail(q) \o Echo(e), td)
<1> SUFFICES ASSUME NEW u \in Uid \ t.loose
             PROVE  \E d : Doing(td, u, d) /\ Coming(t, Tail(q) \o Echo(e), d, u)
  BY DEF Straight
<1>1. u \notin s.loose
  <2>1. CASE u = e.u
    BY <2>1 DEF EventDoes
  <2>2. CASE u # e.u
    BY <2>2 DEF EventDoes, SparesOthers, Spares
  <2> QED
    BY <2>1, <2>2
<1>2. PICK d : Doing(td, u, d) /\ Coming(s, q, d, u)
  BY <1>1 DEF Straight
<1>3. CASE u = e.u
  BY <1>2, <1>3, ComingEvent
<1>4. CASE u # e.u
  <2>1. Spares(s, t, u)
    BY <1>4 DEF EventDoes, SparesOthers
  <2>2. ~ Moves1(Head(q), u)
    BY <1>4 DEF Moves1
  <2>3. Coming(s, Tail(q), d, u)
    BY <1>2, <2>2, ComingBeside
  <2>4. Coming(t, Tail(q), d, u)
    BY <2>1, <2>3, ComingSpared
  <2>5. CASE e.type = "JOIN"
    <3> DEFINE f == [e EXCEPT !.type = "JOIN_CHANNEL"]
    <3>1. Echo(e) = << f >>
      BY <2>5 DEF Echo
    <3>2. ~ Moves1(f, u)
      BY <1>4, <2>5 DEF EventOK, Moves1
    <3> HIDE DEF f
    <3>3. IsSeq(Tail(q))
      BY SeqGoesOn
    <3>4. Tail(q) \o << f >> = Append(Tail(q), f)
      BY <3>3, SeqGrows
    <3>5. Coming(t, Append(Tail(q), f), d, u)
      BY <2>4, <3>2, <3>3, ComingBeside
    <3> QED
      BY <1>2, <3>1, <3>4, <3>5
  <2>6. CASE e.type # "JOIN"
    <3>1. Echo(e) = << >>
      BY <2>6 DEF Echo
    <3>2. IsSeq(Tail(q))
      BY SeqGoesOn
    <3>3. Tail(q) \o << >> = Tail(q)
      BY <3>2, SeqGrows
    <3> QED
      BY <1>2, <2>4, <3>1, <3>3
  <2> QED
    BY <2>5, <2>6
<1> QED
  BY <1>3, <1>4

\* A thread makes a call for u.
LEMMA StraightCall ==
  ASSUME NEW td, WorkOK(td), NEW t \in RequestThread, td[t] # << >>, NEW u \in Uid, u = td[t][1].u,
         NEW r, r = << >> \/ r[1].u = u, NEW td2, td2 = [td EXCEPT ![t] = r],
         NEW s, NEW s2, SparesOthers(s, s2, u), NEW q, IsSeq(q), NEW q2,
         q2 = q \/ \E e : e.u = u /\ q2 = Append(q, e),
         Straight(s, q, td),
         u \notin s2.loose => u \notin s.loose /\ (Coming(s, q, td[t], u) => Coming(s2, q2, r, u))
  PROVE  Straight(s2, q2, td2)
<1> SUFFICES ASSUME NEW w \in Uid \ s2.loose
             PROVE  \E d : Doing(td2, w, d) /\ Coming(s2, q2, d, w)
  BY DEF Straight
<1>1. td2[t] = r /\ \A x \in RequestThread \ {t} : td2[x] = td[x]
  BY DEF WorkOK
<1>2. CASE w = u
  <2>1. PICK d : Doing(td, u, d) /\ Coming(s, q, d, u)
    BY <1>2 DEF Straight
  <2>2. WorksFor(td, t, u)
    BY DEF WorksFor
  <2>3. d = td[t] /\ \A x \in RequestThread \ {t} : ~ WorksFor(td, x, u)
    BY <2>1, <2>2 DEF Doing
  <2>4. \A x \in RequestThread \ {t} : ~ WorksFor(td2, x, u)
    BY <1>1, <2>3 DEF WorksFor
  <2>5. Doing(td2, u, r)
    <3>1. CASE r = << >>
      <4>1. ~ WorksFor(td2, t, u)
        BY <1>1, <3>1 DEF WorksFor
      <4>2. \A x \in RequestThread : ~ WorksFor(td2, x, u)
        BY <2>4, <4>1
      <4> QED
        BY <3>1, <4>2 DEF Doing
    <3>2. CASE r # << >>
      <4>1. WorksFor(td2, t, u)
        BY <1>1, <3>2 DEF WorksFor
      <4> QED
        BY <1>1, <2>4, <4>1 DEF Doing
    <3> QED
      BY <3>1, <3>2
  <2>6. Coming(s2, q2, r, u)
    BY <1>2, <2>1, <2>3
  <2> QED
    BY <1>2, <2>5, <2>6
<1>3. CASE w # u
  <2>1. Spares(s, s2, w) /\ w \notin s.loose
    BY <1>3 DEF SparesOthers, Spares
  <2>2. PICK d : Doing(td, w, d) /\ Coming(s, q, d, w)
    BY <2>1 DEF Straight
  <2>3. ~ WorksFor(td, t, w) /\ ~ WorksFor(td2, t, w)
    BY <1>1, <1>3 DEF WorksFor
  <2>4. \A x \in RequestThread : WorksFor(td2, x, w) <=> WorksFor(td, x, w)
    BY <1>1, <2>3 DEF WorksFor
  <2>5. Doing(td2, w, d)
    <3>1. CASE d = << >> /\ \A x \in RequestThread : ~ WorksFor(td, x, w)
      BY <2>4, <3>1 DEF Doing
    <3>2. CASE \E y \in RequestThread : WorksFor(td, y, w) /\ d = td[y]
                   /\ \A x \in RequestThread \ {y} : ~ WorksFor(td, x, w)
      <4>1. PICK y \in RequestThread : WorksFor(td, y, w) /\ d = td[y]
                   /\ \A x \in RequestThread \ {y} : ~ WorksFor(td, x, w)
        BY <3>2
      <4>2. y # t /\ d = td2[y]
        BY <1>1, <2>3, <4>1
      <4> QED
        BY <2>4, <4>1, <4>2 DEF Doing
    <3> QED
      BY <2>2, <3>1, <3>2 DEF Doing
  <2>6. Coming(s, q2, d, w)
    <3>1. ASSUME NEW e, e.u = u PROVE Coming(s, Append(q, e), d, w)
      BY <1>3, <2>2, <3>1, ComingBeside DEF Moves1
    <3> QED
      BY <2>2, <3>1
  <2>7. Coming(s2, q2, d, w)
    BY <2>1, <2>6, ComingSpared
  <2> QED
    BY <2>5, <2>7
<1> QED
  BY <1>2, <1>3

\* A request of u is begun: nothing of u is under way then.
Idle(td, u) == \A x \in RequestThread : ~ WorksFor(td, x, u)
SparesAll(s, t) == \A w \in Uid : Spares(s, t, w)

Begins(td, td2, t, r) == td[t] = << >> /\ r # << >> /\ td2 = [td EXCEPT ![t] = r]

LEMMA StraightBegin ==
  ASSUME NEW td, WorkOK(td), NEW t \in RequestThread, NEW u \in Uid,
         NEW r, r[1].u = u, NEW td2, Begins(td, td2, t, r),
         NEW s, NEW s2, SparesAll(s, s2), NEW q, Straight(s, q, td),
         u \notin s2.loose => Idle(td, u) /\ (Coming(s, q, << >>, u) => Coming(s, q, r, u))
  PROVE  Straight(s2, q, td2)
<1> USE DEF Idle, SparesAll, Begins
<1> SUFFICES ASSUME NEW w \in Uid \ s2.loose
             PROVE  \E d : Doing(td2, w, d) /\ Coming(s2, q, d, w)
  BY DEF Straight
<1>1. td2[t] = r /\ \A x \in RequestThread \ {t} : td2[x] = td[x]
  BY DEF WorkOK
<1>0. Spares(s, s2, w) /\ w \notin s.loose
  BY DEF Spares
<1>2. PICK d : Doing(td, w, d) /\ Coming(s, q, d, w)
  BY <1>0 DEF Straight
<1>3. CASE w = u
  <2>1. \A x \in RequestThread : ~ WorksFor(td, x, u)
    BY <1>3
  <2>2. d = << >>
    BY <1>2, <1>3, <2>1 DEF Doing
  <2>3. Coming(s, q, r, u)
    BY <1>2, <1>3, <2>2
  <2>4. WorksFor(td2, t, u) /\ \A x \in RequestThread \ {t} : ~ WorksFor(td2, x, u)
    BY <1>1, <2>1 DEF WorksFor
  <2>5. Doing(td2, u, r)
    BY <1>1, <2>4 DEF Doing
  <2>6. Coming(s2, q, r, u)
    BY <1>0, <1>3, <2>3, ComingSpared
  <2> QED
    BY <1>3, <2>5, <2>6
<1>4. CASE w # u
  <2>3. ~ WorksFor(td, t, w) /\ ~ WorksFor(td2, t, w)
    BY <1>1, <1>4 DEF WorksFor
  <2>4. \A x \in RequestThread : WorksFor(td2, x, w) <=> WorksFor(td, x, w)
    BY <1>1, <2>3 DEF WorksFor
  <2>5. Doing(td2, w, d)
    <3>1. CASE d = << >> /\ \A x \in RequestThread : ~ WorksFor(td, x, w)
      BY <2>4, <3>1 DEF Doing
    <3>2. CASE \E y \in RequestThread : WorksFor(td, y, w) /\ d = td[y]
                   /\ \A x \in RequestThread \ {y} : ~ WorksFor(td, x, w)
      <4>1. PICK y \in RequestThread : WorksFor(td, y, w) /\ d = td[y]
                   /\ \A x \in RequestThread \ {y} : ~ WorksFor(td, x, w)
        BY <3>2
      <4>2. y # t /\ d = td2[y]
        BY <1>1, <2>3, <4>1
      <4> QED
        BY <2>4, <4>1, <4>2 DEF Doing
    <3> QED
      BY <1>2, <3>1, <3>2 DEF Doing
  <2>7. Coming(s2, q, d, w)
    BY <1>0, <1>2, ComingSpared
  <2> QED
    BY <2>5, <2>7
<1> QED
  BY <1>3, <1>4

LEMMA QueueGrows ==
  ASSUME NEW q, QueueOK(q), NEW e, EventOK(e)
  PROVE  QueueOK(Append(q, e)) /\ Len(Append(q, e)) = Len(q) + 1
<1>1. /\ IsSeq(Append(q, e)) /\ Len(Append(q, e)) = Len(q) + 1
      /\ \A i \in 1..Len(q) : Append(q, e)[i] = q[i]
      /\ Append(q, e)[Len(q) + 1] = e
  BY SeqGrows DEF QueueOK
<1>2. DOMAIN Append(q, e) = 1..(Len(q) + 1) /\ DOMAIN q = 1..Len(q) /\ Len(q) \in Nat
  BY <1>1, SeqGoesOn DEF QueueOK
<1>3. \A i \in DOMAIN Append(q, e) : i \in DOMAIN q \/ i = Len(q) + 1
  BY <1>2
<1>4. \A i \in DOMAIN Append(q, e) : EventOK(Append(q, e)[i])
  BY <1>1, <1>2, <1>3 DEF QueueOK
<1> QED
  BY <1>1, <1>4 DEF QueueOK

LEMMA QueueShrinks ==
  ASSUME NEW q, QueueOK(q), q # << >>
  PROVE  QueueOK(Tail(q)) /\ Len(Tail(q)) = Len(q) - 1 /\ EventOK(Head(q))
<1>1. /\ Len(q) \in Nat /\ DOMAIN q = 1..Len(q) /\ Len(q) >= 1 /\ Head(q) = q[1]
      /\ IsSeq(Tail(q)) /\ Len(Tail(q)) = Len(q) - 1
      /\ \A i \in 1..(Len(q) - 1) : Tail(q)[i] = q[i + 1]
  BY SeqGoesOn DEF QueueOK
<1>2. DOMAIN Tail(q) = 1..(Len(q) - 1)
  BY <1>1, SeqGoesOn
<1>3. \A i \in DOMAIN Tail(q) : i + 1 \in DOMAIN q /\ Tail(q)[i] = q[i + 1]
  BY <1>1, <1>2
<1>4. 1 \in DOMAIN q
  BY <1>1
<1> QED
  BY <1>1, <1>3, <1>4 DEF QueueOK

LEMMA EventsGoOn ==
  ASSUME NEW q, QueueOK(q), q # << >>, NEW c, ChatOK(c, q), c.batch > 0
  PROVE  /\ QueueOK(Tail(q) \o Echo(Head(q)))
         /\ ChatOK([c EXCEPT !.batch = @ - 1], Tail(q) \o Echo(Head(q)))
<1> DEFINE e == Head(q)
           p == Tail(q)
           r == p \o Echo(e)
           b == [c EXCEPT !.batch = @ - 1]
<1>1. QueueOK(p) /\ Len(p) = Len(q) - 1 /\ EventOK(e) /\ Len(q) \in Nat
  BY QueueShrinks, SeqGoesOn DEF QueueOK
<1>2. /\ DOMAIN b = {"at", "batch", "copied"} /\ b.batch = c.batch - 1 /\ b.copied = c.copied
      /\ c.batch \in Nat /\ c.batch <= Len(q)
  BY DEF ChatOK
<1>3. p \o << >> = p /\ \A x : p \o << x >> = Append(p, x)
  BY <1>1, SeqGrows DEF QueueOK
<1> HIDE DEF b
<1>4. QueueOK(r) /\ Len(r) \in Nat /\ Len(r) >= Len(q) - 1
  <2>1. CASE e.type = "JOIN"
    <3> DEFINE f == [e EXCEPT !.type = "JOIN_CHANNEL"]
    <3>1. Echo(e) = << f >>
      BY <2>1 DEF Echo
    <3>2. EventOK(f)
      <4> HIDE DEF e
      <4>1. {"type", "u", "ct", "ch", "vis"} \subseteq DOMAIN e /\ e.u \in Uid /\ e.ct \in CT /\ e.ch \in Channel /\ e.vis \in BOOLEAN
        BY <1>1, <2>1 DEF EventOK
      <4>2. DOMAIN f = DOMAIN e /\ f.type = "JOIN_CHANNEL" /\ f.u = e.u /\ f.ct = e.ct /\ f.ch = e.ch /\ f.vis = e.vis
        BY <4>1
      <4> HIDE DEF f
      <4> QED
        BY <4>1, <4>2 DEF EventOK
    <3> HIDE DEF f, p, e
    <3>3. QueueOK(Append(p, f)) /\ Len(Append(p, f)) = Len(p) + 1
      BY <1>1, <3>2, QueueGrows
    <3>4. r = Append(p, f)
      BY <1>3, <3>1
    <3> QED
      BY <1>1, <3>3, <3>4
  <2>2. CASE e.type # "JOIN"
    <3>1. r = p
      BY <1>3, <2>2 DEF Echo
    <3>2. Len(q) >= 1
      BY <1>2
    <3> HIDE DEF r, p
    <3> QED
      BY <1>1, <3>1, <3>2
  <2> QED
    BY <2>1, <2>2
<1> HIDE DEF r
<1>5. ChatOK(b, r)
  <2>1. b.batch \in Nat /\ b.batch <= Len(r)
    BY <1>1, <1>2, <1>4
  <2> QED
    BY <1>2, <2>1 DEF ChatOK
<1> QED
  BY <1>4, <1>5 DEF b, r

LEMMA ChatBalances ==
  ASSUME BalanceInv, ChatSteps
  PROVE  BalanceInv'
<1>0. /\ Sound(m) /\ QueueOK(m_events) /\ WorkOK(m_todo) /\ Straight(m, m_events, m_todo)
      /\ ChatOK(m_chat, m_events) /\ Fine(m) /\ Shaped(m) /\ Counted(m)
  BY DEF BalanceInv, Sound, Fine
<1>1. m_todo' = m_todo
  BY DEF ChatSteps, copy_external, clear_external, extract_all, handle_event, handle_room_event_messages, OthersWait
<1>2. Fine(m')
  BY <1>0, FineStep DEF FineNow, MessagesNext
<1>3. Len(m_events) \in Nat
  BY <1>0, SeqGoesOn DEF QueueOK
<1>4. ASSUME Sound(m'), \A w \in Uid : Spares(m, m', w), m_events' = m_events, ChatOK(m_chat', m_events')
      PROVE  BalanceInv'
  <2>1. Straight(m', m_events, m_todo)
    BY <1>0, <1>4, StraightQuiet
  <2> QED
    BY <1>0, <1>1, <1>4, <2>1 DEF BalanceInv, ChatOK
<1>5. CASE copy_external \/ extract_all
  <2>1. m' = m /\ m_events' = m_events
    BY <1>5 DEF copy_external, extract_all
  <2>2. \A w \in Uid : Spares(m, m, w)
    BY <1>0, QuietSelf, QuietSpares
  <2>3. ChatOK(m_chat', m_events')
    <3>1. \/ m_chat' = [m_chat EXCEPT !.at = "clear", !.copied = m.external]
          \/ m_chat' = [m_chat EXCEPT !.at = "events", !.batch = Len(m_events)]
      BY <1>5 DEF copy_external, extract_all
    <3>2. /\ DOMAIN m_chat = {"at", "batch", "copied"} /\ m_chat.batch \in Nat
          /\ m_chat.batch <= Len(m_events) /\ \A e \in m_chat.copied : e.kind \notin Announced
      BY DEF BalanceInv, ChatOK
    <3>3. \A e \in m.external : e.kind \notin Announced
      BY <1>0 DEF Counted
    <3>4. /\ DOMAIN m_chat' = {"at", "batch", "copied"}
          /\ m_chat'.batch = m_chat.batch \/ m_chat'.batch = Len(m_events)
          /\ m_chat'.copied = m_chat.copied \/ m_chat'.copied = m.external
      BY <3>1, <3>2
    <3> QED
      BY <1>3, <2>1, <3>2, <3>3, <3>4 DEF ChatOK
  <2> QED
    BY <1>0, <1>4, <2>1, <2>2, <2>3
<1>6. CASE clear_external
  <2>1. /\ m' = [m EXCEPT !.external = {}, !.history = Merged(m, m_chat.copied)]
        /\ m_chat' = [at |-> "events", batch |-> Len(m_events), copied |-> {}] /\ m_events' = m_events
    BY <1>6 DEF clear_external
  <2>2. /\ m'.users = m.users /\ m'.global = m.global /\ m'.history = m.history \cup m_chat.copied
        /\ m'.pending = m.pending /\ m'.said = m.said /\ m'.external = {} /\ m'.loose = m.loose
    BY <1>0, <2>1 DEF Shaped, Merged
  <2>3. m.said \in Nat /\ m.said >= m.said
    BY <1>0 DEF Counted
  <2>4. Quiet(m, m')
    BY <1>0, <2>2, <2>3 DEF Quiet, Counted, ChatOK
  <2>5. Calms(m, m')
    BY <1>0, <1>2, <2>4, CalmsBy
  <2>6. \A w \in Uid : Spares(m, m', w)
    BY <2>4, QuietSpares
  <2>7. ChatOK(m_chat', m_events')
    BY <1>3, <2>1 DEF ChatOK
  <2> QED
    BY <1>4, <2>1, <2>5, <2>6, <2>7 DEF Calms
<1>7. CASE handle_event
  <2> DEFINE e == Head(m_events)
  <2>1. /\ m_chat.batch > 0 /\ m' = on_event(m, e) /\ m_events' = Tail(m_events) \o Echo(e)
        /\ m_chat' = [m_chat EXCEPT !.batch = @ - 1]
    BY <1>7 DEF handle_event
  <2>2. m_events # << >>
    <3>1. Len(m_events) # 0
      BY <1>0, <1>3, <2>1 DEF ChatOK
    <3> QED
      BY <3>1
  <2>3. QueueOK(m_events') /\ ChatOK(m_chat', m_events')
    BY <1>0, <2>1, <2>2, EventsGoOn
  <2>4. EventOK(e)
    BY <1>0, <2>2, QueueShrinks
  <2>5. EventDoes(m, m', e)
    BY <1>0, <2>1, <2>4, EventIsRight
  <2>6. Straight(m', m_events', m_todo)
    BY <1>0, <2>1, <2>2, <2>4, <2>5, StraightEvent DEF QueueOK
  <2>7. Sound(m')
    BY <2>5 DEF EventDoes
  <2> QED
    BY <1>0, <1>1, <2>3, <2>6, <2>7 DEF BalanceInv, ChatOK
<1>8. CASE handle_room_event_messages
  <2> DEFINE said == Saying(m)
             shown(u) == {e \in said : u \in ClientsIn(m, e.ch)}
             screen == [u \in Uid |-> Pushed(m.screen[u], shown(u))]
             t == [m EXCEPT !.history = @ \cup said, !.said = @ + Cardinality(said),
                            !.pending = << >>, !.screen = screen]
  <2>1. m' \in {m, t} /\ m_events' = m_events /\ m_chat' = [m_chat EXCEPT !.at = "look"]
    BY <1>8 DEF handle_room_event_messages, Saying
  <2>2. ChatOK(m_chat', m_events')
    BY <1>0, <1>3, <2>1 DEF ChatOK
  <2>3. CASE m' = m
    <3>1. \A w \in Uid : Spares(m, m, w)
      BY <1>0, QuietSelf, QuietSpares
    <3> QED
      BY <1>0, <1>4, <2>1, <2>2, <2>3, <3>1
  <2>4. CASE m' = t
    <3> HIDE DEF said, screen
    <3>1. /\ t.history = m.history \cup said /\ t.said = m.said + Cardinality(said)
          /\ t.pending = << >> /\ t.external = m.external /\ t.users = m.users /\ t.global = m.global
          /\ t.loose = m.loose
      BY <1>0 DEF Shaped
    <3> HIDE DEF t
    <3>2. Counted(t) /\ \A u \in Uid, c \in Channel : Present(t, u, c) = Present(m, u, c)
      BY <1>0, <3>1, RoomCounts DEF said
    <3>3. \A w \in Uid : Spares(m, t, w)
      BY <3>1, <3>2 DEF Spares
    <3> QED
      BY <1>2, <1>4, <2>1, <2>2, <2>4, <3>2, <3>3 DEF Sound
  <2> QED
    BY <2>1, <2>3, <2>4
<1> QED
  BY <1>5, <1>6, <1>7, <1>8 DEF ChatSteps

LEMMA CallsTail ==
  ASSUME NEW d, NEW u, CallsOK(d, u), d # << >>
  PROVE  CallsOK(Tail(d), u) /\ StepOK(d[1]) /\ d[1].u = u
<1>1. /\ Len(d) \in Nat /\ DOMAIN d = 1..Len(d) /\ Len(d) >= 1 /\ IsSeq(Tail(d)) /\ Len(Tail(d)) = Len(d) - 1
      /\ \A i \in 1..(Len(d) - 1) : Tail(d)[i] = d[i + 1]
  BY SeqGoesOn DEF CallsOK
<1>2. DOMAIN Tail(d) = 1..(Len(d) - 1)
  BY <1>1, SeqGoesOn
<1>3. \A k \in DOMAIN Tail(d) : k + 1 \in DOMAIN d /\ Tail(d)[k] = d[k + 1]
  BY <1>1, <1>2
<1>4. 1 \in DOMAIN d
  BY <1>1
<1> QED
  BY <1>1, <1>3, <1>4 DEF CallsOK

LEMMA FirstCall ==
  ASSUME NEW r, NEW u, CallsOK(r, u)
  PROVE  r = << >> \/ r[1].u = u
<1>1. r # << >> => 1 \in DOMAIN r
  BY SeqGoesOn DEF CallsOK
<1> QED
  BY <1>1 DEF CallsOK

LEMMA FirstIsOK ==
  ASSUME NEW td, WorkOK(td), NEW t \in RequestThread, td[t] # << >>
  PROVE  td[t][1].u \in Uid
<1>1. CallsOK(td[t], td[t][1].u)
  BY DEF WorkOK
<1>2. StepOK(td[t][1])
  BY <1>1, CallsTail
<1> QED
  BY <1>2 DEF StepOK

LEMMA WorkGoesOn ==
  ASSUME NEW td, WorkOK(td), NEW t \in RequestThread, NEW r, NEW u, CallsOK(r, u)
  PROVE  WorkOK([td EXCEPT ![t] = r])
<1> DEFINE w == [td EXCEPT ![t] = r]
<1>1. DOMAIN w = RequestThread /\ w[t] = r /\ \A x \in RequestThread \ {t} : w[x] = td[x]
  BY DEF WorkOK
<1> HIDE DEF w
<1>2. ASSUME NEW x \in RequestThread
      PROVE  IsSeq(w[x]) /\ (w[x] # << >> => CallsOK(w[x], w[x][1].u))
  <2>1. CASE x = t
    <3>1. IsSeq(r) /\ (r = << >> \/ r[1].u = u)
      BY FirstCall DEF CallsOK
    <3> QED
      BY <1>1, <2>1, <3>1
  <2>2. CASE x # t
    BY <1>1, <2>2 DEF WorkOK
  <2> QED
    BY <2>1, <2>2
<1>3. WorkOK(w)
  BY <1>1, <1>2 DEF WorkOK
<1> QED
  BY <1>3 DEF w

LEMMA CallBalances ==
  ASSUME BalanceInv, NEW t \in RequestThread, m_todo[t] # << >>, NEW u, u = m_todo[t][1].u,
         NEW r, CallsOK(r, u), m_todo' = [m_todo EXCEPT ![t] = r], m_chat' = m_chat,
         Sound(m'), SparesOthers(m, m', u),
         m_events' = m_events \/ \E e : e.u = u /\ EventOK(e) /\ m_events' = Append(m_events, e),
         u \notin m'.loose => u \notin m.loose /\ (Coming(m, m_events, m_todo[t], u) => Coming(m', m_events', r, u))
  PROVE  BalanceInv'
<1>1. /\ QueueOK(m_events) /\ WorkOK(m_todo) /\ Straight(m, m_events, m_todo) /\ ChatOK(m_chat, m_events)
  BY DEF BalanceInv
<1>2. WorkOK(m_todo')
  BY <1>1, WorkGoesOn
<1>3. QueueOK(m_events') /\ Len(m_events') >= Len(m_events)
  <2>1. Len(m_events) \in Nat
    BY <1>1, SeqGoesOn DEF QueueOK
  <2>2. CASE m_events' = m_events
    BY <1>1, <2>1, <2>2
  <2>3. CASE \E e : e.u = u /\ EventOK(e) /\ m_events' = Append(m_events, e)
    <3>1. PICK e : EventOK(e) /\ m_events' = Append(m_events, e)
      BY <2>3
    <3>2. QueueOK(Append(m_events, e)) /\ Len(Append(m_events, e)) = Len(m_events) + 1
      BY <1>1, <3>1, QueueGrows
    <3> QED
      BY <2>1, <3>1, <3>2
  <2> QED
    BY <2>2, <2>3
<1>4. ChatOK(m_chat', m_events')
  <2>1. Len(m_events) \in Nat /\ Len(m_events') \in Nat
    BY <1>1, <1>3, SeqGoesOn DEF QueueOK
  <2> QED
    BY <1>1, <1>3, <2>1 DEF ChatOK
<1>5. Straight(m', m_events', m_todo')
  <2>1. u \in Uid
    BY <1>1, FirstIsOK
  <2>2. IsSeq(m_events) /\ (r = << >> \/ r[1].u = u)
    BY <1>1, FirstCall DEF QueueOK
  <2>3. PICK q2, td2, s2 : q2 = m_events' /\ td2 = m_todo' /\ s2 = m'
    OBVIOUS
  <2>4. PICK q, td, s : q = m_events /\ td = m_todo /\ s = m
    OBVIOUS
  <2>5. /\ q2 = q \/ \E e : e.u = u /\ q2 = Append(q, e)
        /\ td2 = [td EXCEPT ![t] = r] /\ td[t] # << >> /\ u = td[t][1].u
        /\ WorkOK(td) /\ IsSeq(q) /\ SparesOthers(s, s2, u) /\ Straight(s, q, td)
    BY <1>1, <2>2, <2>3, <2>4
  <2>6. u \notin s2.loose => u \notin s.loose /\ (Coming(s, q, td[t], u) => Coming(s2, q2, r, u))
    BY <2>3, <2>4
  <2>7. Straight(s2, q2, td2)
    BY <2>1, <2>2, <2>5, <2>6, StraightCall
  <2> QED
    BY <2>3, <2>7
<1> QED
  BY <1>2, <1>3, <1>4, <1>5 DEF BalanceInv

\* Calls that change nothing of what is announced.
LEMMA QuietCall ==
  ASSUME BalanceInv, NEW t \in RequestThread, m_todo[t] # << >>, NEW u, u = m_todo[t][1].u,
         m_todo[t][1].op \notin {"push", "set_user_state", "set_status", "part_channels"},
         NEW r, CallsOK(r, u), m_todo' = [m_todo EXCEPT ![t] = r], m_chat' = m_chat, m_events' = m_events,
         Calms(m, m'), r = Tail(m_todo[t]) \/ (Still(r) /\ \A k \in DOMAIN r : r[k].op # "cleanup")
  PROVE  BalanceInv'
<1>1. WorkOK(m_todo) /\ IsSeq(m_todo[t])
  BY DEF BalanceInv, WorkOK
<1>2. u \in Uid
  BY <1>1, FirstIsOK
<1>3. Sound(m') /\ SparesOthers(m, m', u) /\ Spares(m, m', u)
  BY <1>2, QuietSpares, QuietOthers DEF Calms
<1>4. ASSUME Coming(m, m_events, m_todo[t], u)
      PROVE  Coming(m, m_events, r, u)
  <2>1. CASE r = Tail(m_todo[t])
    BY <1>1, <1>4, <2>1, ComingTail
  <2>2. CASE Still(r) /\ \A k \in DOMAIN r : r[k].op # "cleanup"
    <3>1. r # << >> => 1 \in DOMAIN r
      BY SeqGoesOn DEF CallsOK
    <3> QED
      BY <1>1, <1>4, <2>2, <3>1, ComingOn
  <2> QED
    BY <2>1, <2>2
<1>5. u \notin m'.loose => u \notin m.loose /\ (Coming(m, m_events, m_todo[t], u) => Coming(m', m_events, r, u))
  BY <1>3, <1>4, ComingSpared DEF Spares
<1> QED
  BY <1>3, <1>5, CallBalances

LEMMA FirstOfWork ==
  ASSUME BalanceInv, NEW t \in RequestThread, NEW op, ToDo(t, op)
  PROVE  LET d == m_todo[t] IN
         /\ d # << >> /\ IsSeq(d) /\ Call(t) = d[1] /\ d[1].op = op /\ d[1].u \in Uid
         /\ StepOK(d[1]) /\ CallsOK(Tail(d), d[1].u)
<1>1. m_todo[t] # << >> /\ IsSeq(m_todo[t]) /\ CallsOK(m_todo[t], m_todo[t][1].u)
  BY DEF BalanceInv, WorkOK, ToDo
<1>2. Head(m_todo[t]) = m_todo[t][1]
  BY <1>1, SeqGoesOn
<1> QED
  BY <1>1, <1>2, CallsTail DEF ToDo, Call, StepOK

LEMMA PushBalances ==
  ASSUME BalanceInv, NEW t \in RequestThread, send_chat_event_push_back(t)
  PROVE  BalanceInv'
<1> DEFINE d == m_todo[t]
           u == d[1].u
           e == d[1].event
<1>1. /\ d # << >> /\ IsSeq(d) /\ Call(t) = d[1] /\ d[1].op = "push" /\ u \in Uid
      /\ StepOK(d[1]) /\ CallsOK(Tail(d), u)
  BY FirstOfWork DEF send_chat_event_push_back
<1>2. m_events' = Append(m_events, e) /\ m_todo' = [m_todo EXCEPT ![t] = Tail(@)] /\ m' = m /\ m_chat' = m_chat
  <2>1. /\ m_events' = Append(m_events, Call(t).event) /\ m_todo' = [m_todo EXCEPT ![t] = Tail(@)]
        /\ m' = m /\ m_chat' = m_chat
    BY DEF send_chat_event_push_back, Goes
  <2>2. Call(t).event = e
    BY <1>1
  <2> HIDE DEF e, d
  <2> QED
    BY <2>1, <2>2
<1>3. EventOK(e) /\ e.u = u
  BY <1>1 DEF StepOK
<1>4. Sound(m) /\ Counted(m) /\ IsSeq(m_events)
  BY DEF BalanceInv, Sound, QueueOK
<1>5. SparesOthers(m, m, u)
  BY <1>4, QuietSelf, QuietOthers
<1>6. Coming(m, m_events, d, u) => Coming(m, Append(m_events, e), Tail(d), u)
  BY <1>1, <1>3, <1>4, ComingPush
<1>7. m_todo' = [m_todo EXCEPT ![t] = Tail(d)]
  BY <1>2
<1> HIDE DEF d, e, u
<1>8. \E x : x.u = u /\ EventOK(x) /\ m_events' = Append(m_events, x)
  BY <1>2, <1>3
<1> QED
  BY <1>1, <1>2, <1>4, <1>5, <1>6, <1>7, <1>8, CallBalances DEF d, u

LEMMA FineStays ==
  ASSUME BalanceInv, MessagesNext
  PROVE  Fine(m')
<1>1. FineNow
  BY DEF BalanceInv, Sound, FineNow
<1>2. FineNow'
  BY <1>1, FineStep
<1> QED
  BY <1>2 DEF FineNow

\* A request of one call.
LEMMA OneCall ==
  ASSUME NEW x, NEW u, StepOK(x), x.u = u
  PROVE  /\ CallsOK(<< x >>, u) /\ << x >> # << >> /\ << x >>[1] = x
         /\ \A k \in DOMAIN << x >> : << x >>[k] = x
<1>1. << x >> \in Seq({x}) /\ DOMAIN << x >> = {1} /\ << x >>[1] = x
  OBVIOUS
<1> DEFINE d == << x >>
<1>2. d \in Seq({x}) /\ DOMAIN d = {1} /\ d[1] = x
  BY <1>1
<1>3. d # << >>
  OBVIOUS
<1> HIDE DEF d
<1>4. \A k \in DOMAIN d : d[k] = x
  BY <1>2
<1>5. CallsOK(d, u)
  BY <1>2, <1>4 DEF CallsOK, IsSeq
<1> QED
  BY <1>2, <1>3, <1>4, <1>5 DEF d

LEMMA SessionBalances ==
  ASSUME BalanceInv, NEW t \in RequestThread, write_session(t)
  PROVE  BalanceInv'
<1>1. PICK op \in {"persistent_socket", "insert$", "erase$"} : ToDo(t, op)
  BY DEF write_session
<1> DEFINE d == m_todo[t]
           u == d[1].u
<1>2. /\ d # << >> /\ IsSeq(d) /\ Call(t) = d[1] /\ d[1].op = op /\ u \in Uid /\ CallsOK(Tail(d), u)
  BY <1>1, FirstOfWork
<1>3. Sound(m) /\ Fine(m) /\ Shaped(m) /\ Counted(m)
  BY DEF BalanceInv, Sound, Fine
<1>4. /\ m_todo' = [m_todo EXCEPT ![t] = Tail(m_todo[t])] /\ m_chat' = m_chat /\ m_events' = m_events
  BY DEF write_session, Goes
<1>5. /\ m'.users = m.users /\ m'.global = m.global /\ m'.history = m.history /\ m'.pending = m.pending
      /\ m'.said = m.said /\ m'.external = m.external /\ m'.loose = m.loose
  BY <1>3 DEF write_session, Shaped
<1>6. Fine(m')
  BY FineStays DEF MessagesNext, RequestSteps
<1>7. Quiet(m, m')
  BY <1>3, <1>5, QuietElsewhere
<1>8. Calms(m, m')
  BY <1>3, <1>6, <1>7, CalmsBy
<1>9. d[1].op \notin {"push", "set_user_state", "set_status", "part_channels"}
  BY <1>2
<1>10. m_todo[t] # << >> /\ CallsOK(Tail(m_todo[t]), u) /\ u = m_todo[t][1].u
  BY <1>2
<1> HIDE DEF u
<1> QED
  BY <1>4, <1>8, <1>9, <1>10, QuietCall DEF d

LEMMA NoticeBalances ==
  ASSUME BalanceInv, NEW t \in RequestThread, show_notice(t)
  PROVE  BalanceInv'
<1> DEFINE d == m_todo[t]
           u == d[1].u
           e == NoticeTo(m, u)
           x == [op |-> "external", u |-> u, msg |-> e]
<1>2. /\ d # << >> /\ IsSeq(d) /\ Call(t) = d[1] /\ d[1].op = "notice" /\ u \in Uid /\ CallsOK(Tail(d), u)
  BY FirstOfWork DEF show_notice
<1>3. Sound(m) /\ Fine(m) /\ Shaped(m) /\ Counted(m)
  BY DEF BalanceInv, Sound, Fine
<1>4. m_chat' = m_chat /\ m_events' = m_events
  BY DEF show_notice
<1>5. \/ m_todo' = [m_todo EXCEPT ![t] = << x >>] /\ m' = [data_push_back_www(m, {u}, e) EXCEPT !.said = e.id]
      \/ m_todo' = [m_todo EXCEPT ![t] = Tail(m_todo[t])] /\ m' = m
  <2>1. Call(t).u = u
    BY <1>2
  <2> QED
    BY <2>1 DEF show_notice, Goes
<1>6. e.kind \notin Announced /\ e.id = m.said + 1
  BY DEF NoticeTo, Message, Announced, Partings
<1>7. StepOK(x) /\ x.u = u /\ x.op = "external"
  BY <1>2, <1>6 DEF StepOK
<1>8. Fine(m')
  BY FineStays DEF MessagesNext, RequestSteps
<1>9. d[1].op \notin {"push", "set_user_state", "set_status", "part_channels"}
  BY <1>2
<1>10. Calms(m, m')
  <2>1. CASE m' = m
    BY <1>3, <2>1, CalmsSelf
  <2>2. CASE m' = [data_push_back_www(m, {u}, e) EXCEPT !.said = e.id]
    <3> DEFINE p == data_push_back_www(m, {u}, e)
    <3>1. DOMAIN p = DOMAIN m
      BY <1>3 DEF data_push_back_www, Shaped
    <3>2. /\ p.users = m.users /\ p.global = m.global /\ p.history = m.history /\ p.pending = m.pending
          /\ p.said = m.said /\ p.external = m.external /\ p.loose = m.loose
      BY <1>3, PushFields
    <3>3. m' = [p EXCEPT !.said = e.id]
      BY <2>2
    <3> HIDE DEF p, e, u
    <3>4. /\ m'.users = m.users /\ m'.global = m.global /\ m'.history = m.history /\ m'.pending = m.pending
          /\ m'.said = m.said + 1 /\ m'.external = m.external /\ m'.loose = m.loose
      BY <1>3, <1>6, <3>1, <3>2, <3>3 DEF Shaped
    <3>5. m.said \in Nat
      BY <1>3 DEF Counted
    <3>6. m'.said \in Nat /\ m'.said >= m.said
      BY <3>4, <3>5
    <3>7. Quiet(m, m')
      BY <1>3, <3>4, <3>6 DEF Quiet, Counted
    <3> QED
      BY <1>3, <1>8, <3>7, CalmsBy
  <2> QED
    BY <1>5, <2>1, <2>2
<1> HIDE DEF x, e
<1>11. m_todo[t] # << >> /\ CallsOK(Tail(m_todo[t]), u) /\ u = m_todo[t][1].u
       /\ m_todo[t][1].op \notin {"push", "set_user_state", "set_status", "part_channels"}
  BY <1>2, <1>9
<1>12. CallsOK(<< x >>, u) /\ << x >> # << >> /\ \A k \in DOMAIN << x >> : << x >>[k] = x
  BY <1>7, OneCall
<1> DEFINE r == << x >>
<1>13. Still(r) /\ \A k \in DOMAIN r : r[k].op # "cleanup"
  BY <1>7, <1>12 DEF Still
<1> HIDE DEF u, d
<1>14. CASE m_todo' = [m_todo EXCEPT ![t] = r]
  <2>1. CallsOK(r, u)
    BY <1>12
  <2> HIDE DEF r
  <2> QED
    BY <1>4, <1>10, <1>11, <1>13, <1>14, <2>1, QuietCall
<1>15. CASE m_todo' = [m_todo EXCEPT ![t] = Tail(m_todo[t])]
  BY <1>4, <1>10, <1>11, <1>15, QuietCall
<1> QED
  BY <1>5, <1>14, <1>15

LEMMA ExternalBalances ==
  ASSUME BalanceInv, NEW t \in RequestThread, push_external(t)
  PROVE  BalanceInv'
<1> DEFINE d == m_todo[t]
           u == d[1].u
           e == d[1].msg
<1>2. /\ d # << >> /\ IsSeq(d) /\ Call(t) = d[1] /\ d[1].op = "external" /\ u \in Uid
      /\ CallsOK(Tail(d), u) /\ StepOK(d[1])
  BY FirstOfWork DEF push_external
<1>3. Sound(m) /\ Fine(m) /\ Shaped(m) /\ Counted(m)
  BY DEF BalanceInv, Sound, Fine
<1>4. /\ m_todo' = [m_todo EXCEPT ![t] = Tail(m_todo[t])] /\ m_chat' = m_chat /\ m_events' = m_events
  BY DEF push_external, Goes
<1>5. m' = [m EXCEPT !.external = @ \cup {e}]
  <2>1. Call(t).msg = e
    BY <1>2
  <2> QED
    BY <2>1 DEF push_external
<1>6. e.kind \notin Announced
  BY <1>2 DEF StepOK
<1>7. m_todo[t] # << >> /\ CallsOK(Tail(m_todo[t]), u) /\ u = m_todo[t][1].u
      /\ m_todo[t][1].op \notin {"push", "set_user_state", "set_status", "part_channels"}
  BY <1>2
<1> HIDE DEF e, d, u
<1>8. /\ m'.users = m.users /\ m'.global = m.global /\ m'.history = m.history /\ m'.pending = m.pending
      /\ m'.said = m.said /\ m'.external = m.external \cup {e} /\ m'.loose = m.loose
  BY <1>3, <1>5 DEF Shaped
<1>9. m'.said \in Nat /\ m'.said >= m.said
  BY <1>3, <1>8 DEF Counted
<1>10. Quiet(m, m')
  BY <1>3, <1>6, <1>8, <1>9 DEF Quiet, Counted
<1>11. Fine(m')
  BY FineStays DEF MessagesNext, RequestSteps
<1>12. Calms(m, m')
  BY <1>3, <1>10, <1>11, CalmsBy
<1> QED
  BY <1>4, <1>7, <1>12, QuietCall

\* What is told to global_state of u.
Writes(s, t, u, g) ==
  /\ t.users = s.users /\ t.history = s.history /\ t.pending = s.pending /\ t.said = s.said
  /\ t.external = s.external /\ t.loose = s.loose /\ t.global = [s.global EXCEPT ![u] = g]
  /\ DOMAIN g = {"us", "vis"}

LEMMA GlobalWritten ==
  ASSUME NEW s, Sound(s), NEW t, Fine(t), NEW u \in Uid, NEW g, Writes(s, t, u, g)
  PROVE  Sound(t) /\ SparesOthers(s, t, u) /\ Tells(s, t, u) /\ t.global[u] = g
<1> USE DEF Writes
<1>1. Counted(s)
  BY DEF Sound
<1>2. t.global[u] = g /\ DOMAIN t.global = Uid /\ \A w \in Uid \ {u} : t.global[w] = s.global[w]
  BY <1>1 DEF Counted
<1>3. ASSUME NEW K \in SUBSET Announced, NEW w, NEW c
      PROVE  Made(t, K, w, c) = Made(s, K, w, c) /\ Told(t, K, w, c) = Told(s, K, w, c)
  BY SameTold
<1>4. \A w \in Uid, c \in Channel : Present(t, w, c) = Present(s, w, c)
  BY <1>3, KindsAre DEF Present
<1>5. \A w \in Uid \ {u} : Spares(s, t, w)
  BY <1>2, <1>4 DEF Spares
<1>6. Counted(t)
  <2>1. \A w \in Uid, c \in Channel : IsFiniteSet(Made(t, Announced, w, c))
    BY <1>1, <1>3, KindsAre DEF Counted
  <2>2. \A w \in Uid : DOMAIN t.global[w] = {"us", "vis"}
    BY <1>1, <1>2 DEF Counted
  <2> QED
    BY <1>1, <1>2, <2>1, <2>2 DEF Counted
<1> QED
  BY <1>2, <1>4, <1>5, <1>6 DEF Sound, SparesOthers, Tells

LEMMA WriteBalances ==
  ASSUME BalanceInv, NEW t \in RequestThread, write_global_state(t)
  PROVE  BalanceInv'
<1>1. PICK op \in {"set_user_state", "set_status", "part_channels"} : ToDo(t, op)
  BY DEF write_global_state
<1> DEFINE d == m_todo[t]
           x == d[1]
           u == x.u
<1>2. /\ d # << >> /\ IsSeq(d) /\ Call(t) = x /\ x.op = op /\ u \in Uid
      /\ CallsOK(Tail(d), u) /\ StepOK(x)
  BY <1>1, FirstOfWork
<1>3. Sound(m) /\ Fine(m) /\ Shaped(m) /\ Counted(m)
  BY DEF BalanceInv, Sound, Fine
<1>4. /\ m_todo' = [m_todo EXCEPT ![t] = Tail(m_todo[t])] /\ m_chat' = m_chat /\ m_events' = m_events
  BY DEF write_global_state, Goes
<1>5. \/ op = "set_user_state" /\ m' = [m EXCEPT !.global[u] = x.state]
      \/ op = "set_status" /\ m' = [m EXCEPT !.global[u].vis = x.vis]
      \/ op = "part_channels" /\ m' = [m EXCEPT !.global[u].us = part_channels(@, x.chans, x.ct)]
  <2>1. Call(t) = x
    BY <1>2
  <2>2. \A o : ToDo(t, o) => o = op
    BY <1>1 DEF ToDo
  <2> QED
    BY <2>1, <2>2 DEF write_global_state
<1>6. m_todo[t] # << >> /\ CallsOK(Tail(m_todo[t]), u) /\ u = m_todo[t][1].u /\ IsSeq(m_todo[t])
      /\ m_todo[t][1] = x
  BY <1>2
<1>7. x.op = "set_user_state" => DOMAIN x.state = {"us", "vis"}
  BY <1>2 DEF StepOK
<1>8. x.op = op /\ u \in Uid
  BY <1>2
<1>9. Fine(m')
  BY FineStays DEF MessagesNext, RequestSteps
<1> HIDE DEF d, x
<1>10. DOMAIN m.global[u] = {"us", "vis"} /\ DOMAIN m.global = Uid
  BY <1>3, <1>8 DEF Counted
<1>11. PICK g : /\ DOMAIN g = {"us", "vis"} /\ m' = [m EXCEPT !.global[u] = g]
                /\ op = "set_status" => g.us = m.global[u].us /\ g.vis = x.vis
                /\ op = "part_channels" => g.us = part_channels(m.global[u].us, x.chans, x.ct) /\ g.vis = m.global[u].vis
  <2>1. CASE op = "set_user_state" /\ m' = [m EXCEPT !.global[u] = x.state]
    BY <1>7, <1>8, <2>1
  <2>2. CASE op = "set_status" /\ m' = [m EXCEPT !.global[u].vis = x.vis]
    <3> DEFINE g == [m.global[u] EXCEPT !.vis = x.vis]
    <3>1. DOMAIN g = {"us", "vis"} /\ g.us = m.global[u].us /\ g.vis = x.vis
      BY <1>10
    <3>2. m' = [m EXCEPT !.global[u] = g]
      BY <2>2
    <3> HIDE DEF g
    <3> QED
      BY <2>2, <3>1, <3>2
  <2>3. CASE op = "part_channels" /\ m' = [m EXCEPT !.global[u].us = part_channels(@, x.chans, x.ct)]
    <3> DEFINE p == part_channels(m.global[u].us, x.chans, x.ct)
               g == [m.global[u] EXCEPT !.us = p]
    <3>1. m' = [m EXCEPT !.global[u] = g]
      BY <2>3
    <3> HIDE DEF p
    <3>2. DOMAIN g = {"us", "vis"} /\ g.us = p /\ g.vis = m.global[u].vis
      BY <1>10
    <3> HIDE DEF g
    <3> QED
      BY <2>3, <3>1, <3>2 DEF p
  <2> QED
    BY <1>5, <2>1, <2>2, <2>3
<1>12. /\ m'.users = m.users /\ m'.history = m.history /\ m'.pending = m.pending
       /\ m'.said = m.said /\ m'.external = m.external /\ m'.loose = m.loose
       /\ m'.global = [m.global EXCEPT ![u] = g]
  BY <1>3, <1>11 DEF Shaped
<1>13. Sound(m') /\ SparesOthers(m, m', u) /\ Tells(m, m', u) /\ m'.global[u] = g
  <2>1. PICK s, r : s = m /\ r = m'
    OBVIOUS
  <2> HIDE DEF u
  <2>2. Sound(s) /\ Fine(r) /\ u \in Uid /\ Writes(s, r, u, g)
    BY <1>3, <1>8, <1>9, <1>11, <1>12, <2>1 DEF Writes
  <2>3. Sound(r) /\ SparesOthers(s, r, u) /\ Tells(s, r, u) /\ r.global[u] = g
    BY <2>2, GlobalWritten
  <2> QED
    BY <2>1, <2>3
<1>14. ASSUME Coming(m, m_events, m_todo[t], u)
       PROVE  Coming(m', m_events, Tail(m_todo[t]), u)
  <2>1. PICK s, r, q, b : s = m /\ r = m' /\ q = m_events /\ b = m_todo[t]
    OBVIOUS
  <2>2. Tells(s, r, u) /\ IsSeq(b) /\ b # << >> /\ Coming(s, q, b, u) /\ b[1].op = op /\ b[1] = x
    BY <1>6, <1>8, <1>13, <1>14, <2>1
  <2>3. CASE op = "set_user_state"
    <3>1. Coming(r, q, Tail(b), u)
      BY <2>2, <2>3, ComingState
    <3> QED
      BY <2>1, <3>1
  <2>4. CASE op # "set_user_state"
    <3>1. b[1].op = "set_status" => r.global[u].us = s.global[u].us /\ r.global[u].vis = b[1].vis
      BY <1>11, <1>13, <2>1, <2>2
    <3>2. b[1].op = "part_channels" => /\ r.global[u].us = part_channels(s.global[u].us, b[1].chans, b[1].ct)
                                       /\ r.global[u].vis = s.global[u].vis
      BY <1>11, <1>13, <2>1, <2>2
    <3>3. b[1].op \in {"set_status", "part_channels"}
      BY <2>2, <2>4
    <3>4. Coming(r, q, Tail(b), u)
      BY <2>2, <3>1, <3>2, <3>3, ComingLast
    <3> QED
      BY <2>1, <3>4
  <2> QED
    BY <2>3, <2>4
<1>15. u \notin m'.loose =>
         u \notin m.loose /\ (Coming(m, m_events, m_todo[t], u) => Coming(m', m_events', Tail(m_todo[t]), u))
  BY <1>4, <1>12, <1>14
<1> HIDE DEF u
<1> QED
  BY <1>4, <1>6, <1>13, <1>15, CallBalances

\* A call that is pushed as an event.
LEMMA PushIs ==
  ASSUME NEW type, NEW u, NEW f, "type" \notin DOMAIN f, "u" \notin DOMAIN f
  PROVE  /\ Push(type, u, f).op = "push" /\ Push(type, u, f).u = u
         /\ Push(type, u, f).event.type = type /\ Push(type, u, f).event.u = u
         /\ DOMAIN Push(type, u, f).event = {"type", "u"} \cup DOMAIN f
         /\ \A k \in DOMAIN f : Push(type, u, f).event[k] = f[k]
<1> DEFINE e == [k \in {"type", "u"} \cup DOMAIN f |->
                   IF k = "type" THEN type ELSE IF k = "u" THEN u ELSE f[k]]
<1>1. /\ DOMAIN e = {"type", "u"} \cup DOMAIN f /\ e.type = type /\ e.u = u
      /\ \A k \in DOMAIN f : e[k] = f[k]
  OBVIOUS
<1>2. Push(type, u, f) = [op |-> "push", u |-> u, event |-> e]
  BY DEF Push
<1> HIDE DEF e
<1> QED
  BY <1>1, <1>2

LEMMA TwoCalls ==
  ASSUME NEW x, NEW y, NEW u, StepOK(x), x.u = u, StepOK(y), y.u = u
  PROVE  /\ CallsOK(<< x, y >>, u) /\ << x, y >> # << >> /\ << x, y >>[1] = x
         /\ Tail(<< x, y >>) = << y >>
         /\ \A k \in DOMAIN << x, y >> : << x, y >>[k] \in {x, y}
<1> DEFINE d == << x, y >>
<1>1. d \in Seq({x, y}) /\ DOMAIN d = {1, 2} /\ d[1] = x /\ d[2] = y /\ d # << >> /\ Tail(d) = << y >>
  OBVIOUS
<1> HIDE DEF d
<1>2. \A k \in DOMAIN d : d[k] \in {x, y}
  BY <1>1
<1>3. CallsOK(d, u)
  BY <1>1, <1>2 DEF CallsOK, IsSeq
<1> QED
  BY <1>1, <1>2, <1>3 DEF d

\* The user parts from the channels chans of ct.
LEMMA PartCalls ==
  ASSUME NEW u \in Uid, NEW ct \in CT, NEW chans \in SUBSET Channel
  PROVE  LET d == us_PART_CHANNEL(u, ct, chans) IN
         /\ CallsOK(d, u) /\ d # << >> /\ d[1].u = u /\ IsSeq(d)
         /\ \A k \in DOMAIN d : d[k].op # "cleanup"
         /\ \E e : e.type = "PART_CHANNEL" /\ e.ct = ct /\ e.chans = chans /\ Asking(d, e)
<1> DEFINE f == [ct |-> ct, chans |-> chans]
           x == Push("PART_CHANNEL", u, f)
           y == [op |-> "part_channels", u |-> u, ct |-> ct, chans |-> chans]
           d == << x, y >>
           e == x.event
<1>1. DOMAIN f = {"ct", "chans"} /\ f.ct = ct /\ f.chans = chans
  OBVIOUS
<1>2. us_PART_CHANNEL(u, ct, chans) = d
  BY DEF us_PART_CHANNEL
<1> HIDE DEF f
<1>3. x.op = "push" /\ x.u = u /\ e.type = "PART_CHANNEL" /\ e.u = u /\ e.ct = ct /\ e.chans = chans
  BY <1>1, PushIs
<1> HIDE DEF x
<1>4. StepOK(x)
  BY <1>3 DEF StepOK, EventOK
<1>5. y.op = "part_channels" /\ y.u = u /\ y.ct = ct /\ y.chans = chans
  OBVIOUS
<1> HIDE DEF y
<1>6. StepOK(y)
  BY <1>5 DEF StepOK
<1>7. /\ CallsOK(d, u) /\ d # << >> /\ d[1] = x /\ Tail(d) = << y >>
      /\ \A k \in DOMAIN d : d[k] \in {x, y}
  BY <1>3, <1>4, <1>5, <1>6, TwoCalls
<1>8. Len(<< y >>) = 1 /\ << y >>[1] = y
  OBVIOUS
<1> HIDE DEF d
<1>9. Parts1(Tail(d), e)
  BY <1>3, <1>5, <1>7, <1>8 DEF Parts1
<1>10. Asking(d, e)
  BY <1>3, <1>7, <1>9 DEF Asking, Pushing, Moves
<1>11. d[1].u = u /\ IsSeq(d) /\ \A k \in DOMAIN d : d[k].op # "cleanup"
  BY <1>3, <1>5, <1>7 DEF CallsOK
<1> QED
  BY <1>2, <1>3, <1>7, <1>10, <1>11

LEMMA CleanupBalances ==
  ASSUME BalanceInv, NEW t \in RequestThread, check_for_channel_cleanup(t)
  PROVE  BalanceInv'
<1> DEFINE d == m_todo[t]
           u == d[1].u
           r == IF InSomeChannel(m.global[u].us) THEN us_PART_CHANNEL(u, "www", {}) ELSE << >>
<1>1. /\ d # << >> /\ IsSeq(d) /\ Call(t) = d[1] /\ d[1].op = "cleanup" /\ u \in Uid
  BY FirstOfWork DEF check_for_channel_cleanup
<1>2. /\ m_todo' = [m_todo EXCEPT ![t] = r] /\ m' = m /\ m_chat' = m_chat /\ m_events' = m_events
  <2>1. Call(t).u = u
    BY <1>1
  <2> QED
    BY <2>1 DEF check_for_channel_cleanup
<1>3. Sound(m) /\ Counted(m)
  BY DEF BalanceInv, Sound
<1>4. SparesOthers(m, m, u)
  BY <1>3, QuietSelf, QuietOthers
<1>5. m_todo[t] # << >> /\ IsSeq(m_todo[t]) /\ m_todo[t][1].op = "cleanup" /\ u \in Uid /\ u = m_todo[t][1].u
  BY <1>1
<1> HIDE DEF d, u
<1>6. CallsOK(r, u) /\ (Coming(m, m_events, m_todo[t], u) => Coming(m, m_events, r, u))
  <2>1. CASE InSomeChannel(m.global[u].us)
    <3> DEFINE p == us_PART_CHANNEL(u, "www", {})
    <3>1. "www" \in CT /\ {} \in SUBSET Channel
      BY DEF CT
    <3>2. CallsOK(p, u) /\ \A k \in DOMAIN p : p[k].op # "cleanup"
      BY <1>5, <3>1, PartCalls
    <3>3. \E e : e.type = "PART_CHANNEL" /\ e.ct = "www" /\ e.chans = {} /\ Asking(p, e)
      BY <1>5, <3>1, PartCalls
    <3> HIDE DEF p
    <3>4. PICK e : e.type = "PART_CHANNEL" /\ Asking(p, e)
      BY <3>3
    <3>5. Coming(m, m_events, m_todo[t], u) => Coming(m, m_events, p, u)
      BY <1>5, <3>2, <3>4, ComingCleanup
    <3>6. r = p
      BY <2>1 DEF p
    <3> QED
      BY <3>2, <3>5, <3>6
  <2>2. CASE ~InSomeChannel(m.global[u].us)
    <3> DEFINE p == << >>
    <3>1. DOMAIN p = {} /\ p \in Seq({}) /\ ~(p # << >>)
      OBVIOUS
    <3>2. r = p
      BY <2>2
    <3> HIDE DEF p
    <3>3. CallsOK(p, u) /\ Still(p)
      BY <3>1 DEF CallsOK, IsSeq, Still
    <3>4. m_todo[t][1].op \notin {"push", "set_user_state", "set_status", "part_channels"}
      BY <1>5
    <3>5. (\E k \in DOMAIN p : p[k].op = "cleanup") => \E k \in DOMAIN m_todo[t] : m_todo[t][k].op = "cleanup"
      BY <3>1
    <3>6. p # << >> => 1 \in DOMAIN p
      BY <3>1 DEF p
    <3>7. Coming(m, m_events, m_todo[t], u) => Coming(m, m_events, p, u)
      BY <1>5, <3>3, <3>4, <3>5, <3>6, ComingOn
    <3> QED
      BY <3>2, <3>3, <3>7
  <2> QED
    BY <2>1, <2>2
<1>7. u \notin m'.loose =>
        u \notin m.loose /\ (Coming(m, m_events, m_todo[t], u) => Coming(m', m_events', r, u))
  BY <1>2, <1>6
<1>8. Sound(m') /\ SparesOthers(m, m', u)
  BY <1>2, <1>3, <1>4
<1> HIDE DEF r
<1> QED
  BY <1>2, <1>5, <1>6, <1>7, <1>8, CallBalances

LEMMA ThreadBalances ==
  ASSUME BalanceInv, NEW t \in RequestThread, RequestSteps(t)
  PROVE  BalanceInv'
BY PushBalances, WriteBalances, SessionBalances, CleanupBalances, NoticeBalances, ExternalBalances
   DEF RequestSteps

\* What a request finds of a user of whom nothing is under way.
AtRest(u) == Lists(m_events, u, << >>) /\ Right(m, u, << >>)

LEMMA NotUnsettled ==
  ASSUME BalanceInv, NEW u, ~ Unsettled(u)
  PROVE  /\ \A t \in RequestThread : ~ WorksFor(m_todo, t, u)
         /\ \A i \in DOMAIN m_events : m_events[i].u # u
<1>1. ASSUME NEW t \in RequestThread, m_todo[t] # << >>
      PROVE  m_todo[t][1].u # u
  <2>1. IsSeq(m_todo[t])
    BY DEF BalanceInv, WorkOK
  <2>2. Head(m_todo[t]) = m_todo[t][1]
    BY <1>1, <2>1, SeqGoesOn
  <2> QED
    BY <1>1, <2>2 DEF Unsettled
<1>2. \A i \in DOMAIN m_events : m_events[i].u # u
  BY DEF Unsettled
<1> QED
  BY <1>1, <1>2 DEF WorksFor

\* Nothing is changed but whom nothing is promised about.
Only(s, t) ==
  /\ t.users = s.users /\ t.global = s.global /\ t.history = s.history /\ t.pending = s.pending
  /\ t.said = s.said /\ t.external = s.external /\ s.loose \subseteq t.loose

LEMMA BeginBalances ==
  ASSUME BalanceInv, MessagesNext, NEW t \in RequestThread, NEW u \in Uid,
         NEW r, CallsOK(r, u), r # << >>, m_todo[t] = << >>, m_todo' = [m_todo EXCEPT ![t] = r],
         m_chat' = m_chat, m_events' = m_events, Only(m, m'),
         u \notin m'.loose => ~ Unsettled(u) /\ (AtRest(u) => Coming(m, m_events, r, u))
  PROVE  BalanceInv'
<1>1. /\ Sound(m) /\ QueueOK(m_events) /\ WorkOK(m_todo) /\ Straight(m, m_events, m_todo)
      /\ ChatOK(m_chat, m_events) /\ Counted(m)
  BY DEF BalanceInv, Sound
<1>2. m.said \in Nat /\ m.said >= m.said
  BY <1>1 DEF Counted
<1>3. Quiet(m, m')
  BY <1>1, <1>2 DEF Quiet, Counted, Only
<1>4. Calms(m, m')
  BY <1>1, <1>3, FineStays, CalmsBy
<1>5. Sound(m')
  BY <1>4 DEF Calms
<1>6. WorkOK(m_todo')
  BY <1>1, WorkGoesOn
<1>7. \A w \in Uid : Spares(m, m', w)
  BY <1>3, QuietSpares
<1>8. r[1].u = u
  BY FirstCall
<1>9. ASSUME u \notin m'.loose
      PROVE  /\ \A x \in RequestThread : ~ WorksFor(m_todo, x, u)
             /\ Coming(m, m_events, << >>, u) => Coming(m, m_events, r, u)
  <2>1. ~ Unsettled(u) /\ (AtRest(u) => Coming(m, m_events, r, u))
    BY <1>9
  <2>2. \A x \in RequestThread : ~ WorksFor(m_todo, x, u)
    BY <2>1, NotUnsettled
  <2>3. \A i \in DOMAIN m_events : m_events[i].u # u
    BY <2>1, NotUnsettled
  <2>4. Coming(m, m_events, << >>, u) => AtRest(u)
    BY <2>3, Settled DEF AtRest
  <2> QED
    BY <2>1, <2>2, <2>4
<1>10. Straight(m', m_events, m_todo')
  <2>1. PICK s, s2, q, td, td2 : s = m /\ s2 = m' /\ q = m_events /\ td = m_todo /\ td2 = m_todo'
    OBVIOUS
  <2>2. /\ WorkOK(td) /\ Begins(td, td2, t, r) /\ Straight(s, q, td)
        /\ SparesAll(s, s2)
    BY <1>1, <1>7, <2>1 DEF SparesAll, Begins
  <2>3. u \notin s2.loose => Idle(td, u) /\ (Coming(s, q, << >>, u) => Coming(s, q, r, u))
    BY <1>9, <2>1 DEF Idle
  <2>4. Straight(s2, q, td2)
    BY <1>8, <2>2, <2>3, StraightBegin
  <2> QED
    BY <2>1, <2>4
<1> QED
  BY <1>1, <1>5, <1>6, <1>10 DEF BalanceInv

LEMMA BeginIs ==
  ASSUME BalanceInv, NEW t, NEW u, NEW r, NEW mixes, Begin(t, u, r, mixes)
  PROVE  /\ m_todo[t] = << >> /\ m_todo' = [m_todo EXCEPT ![t] = r] /\ m_chat' = m_chat
         /\ m_events' = m_events /\ Only(m, m')
         /\ u \notin m'.loose => ~ Unsettled(u) /\ ~ mixes
<1>1. Shaped(m)
  BY DEF BalanceInv, Sound, Fine
<1>2. /\ m_todo[t] = << >> /\ m_todo' = [m_todo EXCEPT ![t] = r] /\ m_chat' = m_chat /\ m_events' = m_events
      /\ m' = [m EXCEPT !.loose = IF Unsettled(u) \/ mixes THEN @ \cup {u} ELSE @]
  BY DEF Begin
<1> QED
  BY <1>1, <1>2 DEF Only, Shaped

\* A request that moves nobody.
LEMMA StillBalances ==
  ASSUME BalanceInv, MessagesNext, NEW t \in RequestThread, NEW u \in Uid,
         NEW r, CallsOK(r, u), r # << >>, Still(r), NEW mixes, Begin(t, u, r, mixes)
  PROVE  BalanceInv'
<1>1. 1 \in DOMAIN r
  BY SeqGoesOn DEF CallsOK
<1>2. r[1].op \notin {"part_channels", "set_status"}
  BY <1>1 DEF Still
<1>3. ASSUME AtRest(u)
      PROVE  Coming(m, m_events, r, u)
  <2>1. Asks(r, << >>)
    BY StillAsks
  <2>2. Closing(m, u, r, << >>)
    BY <1>2 DEF Closing
  <2> QED
    BY <1>3, <2>1, <2>2, ComingStarts DEF AtRest
<1> QED
  BY <1>3, BeginIs, BeginBalances

\* A request for a move.
LEMMA MoveBalances ==
  ASSUME BalanceInv, MessagesNext, NEW t \in RequestThread, NEW u \in Uid,
         NEW r, CallsOK(r, u), r # << >>, \A k \in DOMAIN r : r[k].op # "cleanup",
         NEW e, Asking(r, e), NEW mixes, Begin(t, u, r, mixes),
         ~ mixes /\ Right(m, u, << >>) => Due(m, u, e)
  PROVE  BalanceInv'
<1>1. r[1].op = "push"
  BY DEF Asking, Pushing
<1>2. ASSUME AtRest(u), ~ mixes
      PROVE  Coming(m, m_events, r, u)
  <2>1. Asks(r, <<e>>)
    BY DEF Asks
  <2>2. Right(m, u, <<e>>)
    BY <1>2, RightIs DEF AtRest
  <2>3. Closing(m, u, r, <<e>>)
    BY <1>1, ClosingNone
  <2> QED
    BY <1>2, <2>1, <2>2, <2>3, ComingStarts DEF AtRest
<1>3. u \notin m'.loose => ~ Unsettled(u) /\ (AtRest(u) => Coming(m, m_events, r, u))
  BY <1>2, BeginIs
<1> QED
  BY <1>3, BeginIs, BeginBalances

\* One call, that moves nobody.
LEMMA OneStill ==
  ASSUME BalanceInv, MessagesNext, NEW t \in RequestThread, NEW u \in Uid,
         NEW x, StepOK(x), x.u = u, x.op \in {"push", "notice"}, x.op = "push" => x.event.type \notin Moving,
         NEW mixes, Begin(t, u, << x >>, mixes)
  PROVE  BalanceInv'
<1> DEFINE r == << x >>
<1>1. CallsOK(r, u) /\ r # << >> /\ \A k \in DOMAIN r : r[k] = x
  BY OneCall
<1>2. Begin(t, u, r, mixes)
  OBVIOUS
<1> HIDE DEF r
<1>3. Still(r)
  BY <1>1 DEF Still
<1> QED
  BY <1>1, <1>2, <1>3, StillBalances

LEMMA OnePush ==
  ASSUME BalanceInv, MessagesNext, NEW t \in RequestThread, NEW u \in Uid,
         NEW type \in {"SEND_MESSAGE", "INVITE", "CHTOPIC", "CHMODE", "CHVOICE"},
         NEW f, "type" \notin DOMAIN f, "u" \notin DOMAIN f,
         type \in {"INVITE", "CHVOICE"} => "to" \in DOMAIN f /\ f.to \in Uid,
         type = "SEND_MESSAGE" => "to" \in DOMAIN f /\ f.to \in Uid \cup {"nobody"},
         NEW mixes, Begin(t, u, << Push(type, u, f) >>, mixes)
  PROVE  BalanceInv'
<1> DEFINE x == Push(type, u, f)
           e == x.event
<1>1. /\ x.op = "push" /\ x.u = u /\ e.type = type /\ e.u = u
      /\ \A k \in DOMAIN f : e[k] = f[k]
  BY PushIs
<1>2. Begin(t, u, << x >>, mixes)
  OBVIOUS
<1> HIDE DEF x
<1>3. "to" \in DOMAIN f => e.to = f.to
  BY <1>1
<1>4. type \notin Moving
  BY DEF Moving, Moves
<1>5. EventOK(e)
  BY <1>1, <1>3 DEF EventOK
<1>6. StepOK(x)
  BY <1>1, <1>5 DEF StepOK
<1> QED
  BY <1>1, <1>2, <1>4, <1>6, OneStill

LEMMA NoticeStarts ==
  ASSUME BalanceInv, MessagesNext, NEW t \in RequestThread, NEW u \in Uid,
         NEW mixes, Begin(t, u, << [op |-> "notice", u |-> u] >>, mixes)
  PROVE  BalanceInv'
<1> DEFINE x == [op |-> "notice", u |-> u]
<1>1. x.op = "notice" /\ x.u = u /\ Begin(t, u, << x >>, mixes)
  OBVIOUS
<1> HIDE DEF x
<1>2. StepOK(x)
  BY <1>1 DEF StepOK
<1> QED
  BY <1>1, <1>2, OneStill

LEMMA WritesBalance ==
  ASSUME BalanceInv, MessagesNext, NEW t \in RequestThread, NEW u \in Uid, NEW to \in Uid \cup {"nobody"},
         NEW kind, NEW text, NEW c \in Channel,
         url_chat_sendmessage(t, u, to, kind, text) \/ irc_cmd_PRIVMSG(t, u, to, c)
  PROVE  BalanceInv'
<1>1. ASSUME NEW k, NEW x, NEW ch, NEW mixes,
             Begin(t, u, << Push("SEND_MESSAGE", u, [to |-> to, kind |-> k, text |-> x, ch |-> ch]) >>, mixes)
      PROVE  BalanceInv'
  <2> DEFINE f == [to |-> to, kind |-> k, text |-> x, ch |-> ch]
  <2>1. "type" \notin DOMAIN f /\ "u" \notin DOMAIN f /\ "to" \in DOMAIN f /\ f.to = to
    OBVIOUS
  <2>2. Begin(t, u, << Push("SEND_MESSAGE", u, f) >>, mixes)
    BY <1>1
  <2> HIDE DEF f
  <2> QED
    BY <2>1, <2>2, OnePush
<1>2. ASSUME NEW mixes, Begin(t, u, << [op |-> "notice", u |-> u] >>, mixes)
      PROVE  BalanceInv'
  BY <1>2, NoticeStarts
<1>3. CASE url_chat_sendmessage(t, u, to, kind, text)
  <2>1. PICK d \in get_channel(m.global[u].us, "www") :
          Begin(t, u, IF <<u, d>> \in Klapped THEN << [op |-> "notice", u |-> u] >>
                      ELSE << Push("SEND_MESSAGE", u,
                                [to |-> to, kind |-> kind, text |-> text, ch |-> d]) >>, FALSE)
    BY <1>3 DEF url_chat_sendmessage
  <2>2. CASE <<u, d>> \in Klapped
    BY <1>2, <2>1, <2>2
  <2>3. CASE <<u, d>> \notin Klapped
    BY <1>1, <2>1, <2>3
  <2> QED
    BY <2>2, <2>3
<1>4. CASE irc_cmd_PRIVMSG(t, u, to, c)
  <2> DEFINE ch == IF to = "nobody" THEN c ELSE 0
  <2>1. Begin(t, u, << Push("SEND_MESSAGE", u, [to |-> to, kind |-> "STDTO", text |-> "fit", ch |-> ch]) >>, FALSE)
    BY <1>4 DEF irc_cmd_PRIVMSG
  <2> HIDE DEF ch
  <2> QED
    BY <1>1, <2>1
<1> QED
  BY <1>3, <1>4

LEMMA CommandsBalance ==
  ASSUME BalanceInv, MessagesNext, NEW t \in RequestThread, NEW u \in Uid, NEW z \in Uid, NEW c \in Channel,
         NEW declined,
         url_invite(t, u, z, declined) \/ url_set_topic(t, u) \/ channel_mode(t, u, c) \/ channel_voice(t, u, z, c)
  PROVE  BalanceInv'
<1>1. CASE url_invite(t, u, z, declined)
  <2> DEFINE f == [to |-> z, declined |-> declined]
  <2>1. "type" \notin DOMAIN f /\ "u" \notin DOMAIN f /\ "to" \in DOMAIN f /\ f.to = z
    OBVIOUS
  <2>2. Begin(t, u, << Push("INVITE", u, f) >>, FALSE)
    BY <1>1 DEF url_invite
  <2> HIDE DEF f
  <2> QED
    BY <2>1, <2>2, OnePush
<1>2. CASE url_set_topic(t, u)
  <2>1. PICK d : Begin(t, u, << Push("CHTOPIC", u, [ch |-> d]) >>, FALSE)
    BY <1>2 DEF url_set_topic
  <2> DEFINE f == [ch |-> d]
  <2>2. "type" \notin DOMAIN f /\ "u" \notin DOMAIN f /\ Begin(t, u, << Push("CHTOPIC", u, f) >>, FALSE)
    BY <2>1
  <2> HIDE DEF f
  <2> QED
    BY <2>2, OnePush
<1>3. CASE channel_mode(t, u, c)
  <2> DEFINE f == [ch |-> c]
  <2>2. "type" \notin DOMAIN f /\ "u" \notin DOMAIN f /\ Begin(t, u, << Push("CHMODE", u, f) >>, FALSE)
    BY <1>3 DEF channel_mode
  <2> HIDE DEF f
  <2> QED
    BY <2>2, OnePush
<1>4. CASE channel_voice(t, u, z, c)
  <2> DEFINE f == [to |-> z, ch |-> c]
  <2>1. "type" \notin DOMAIN f /\ "u" \notin DOMAIN f /\ "to" \in DOMAIN f /\ f.to = z
    OBVIOUS
  <2>2. Begin(t, u, << Push("CHVOICE", u, f) >>, FALSE)
    BY <1>4 DEF channel_voice
  <2> HIDE DEF f
  <2> QED
    BY <2>1, <2>2, OnePush
<1> QED
  BY <1>1, <1>2, <1>3, <1>4

LEMMA ExpireBalances ==
  ASSUME BalanceInv, MessagesNext, NEW t \in RequestThread, NEW u \in Uid, expire(t, u)
  PROVE  BalanceInv'
<1> DEFINE x == [op |-> "erase$", u |-> u]
           y == [op |-> "cleanup", u |-> u]
           r == << x, y >>
<1>1. Begin(t, u, r, FALSE)
  BY DEF expire
<1>2. x.op = "erase$" /\ x.u = u /\ y.op = "cleanup" /\ y.u = u
  OBVIOUS
<1> HIDE DEF x, y
<1>3. StepOK(x) /\ StepOK(y)
  BY <1>2 DEF StepOK
<1>4. CallsOK(r, u) /\ r # << >> /\ \A k \in DOMAIN r : r[k] \in {x, y}
  BY <1>2, <1>3, TwoCalls
<1> HIDE DEF r
<1>5. Still(r)
  BY <1>2, <1>4 DEF Still
<1> QED
  BY <1>1, <1>4, <1>5, StillBalances

LEMMA PartBalances ==
  ASSUME BalanceInv, MessagesNext, NEW t \in RequestThread, NEW u \in Uid,
         NEW ct \in CT, NEW chans \in SUBSET Channel, part(t, u, ct, chans)
  PROVE  BalanceInv'
<1> DEFINE r == us_PART_CHANNEL(u, ct, chans)
<1>1. Begin(t, u, r, FALSE)
  BY DEF part
<1>2. CallsOK(r, u) /\ r # << >> /\ \A k \in DOMAIN r : r[k].op # "cleanup"
  BY PartCalls
<1>3. \E e : e.type = "PART_CHANNEL" /\ e.ct = ct /\ e.chans = chans /\ Asking(r, e)
  BY PartCalls
<1> HIDE DEF r
<1>4. PICK e : e.type = "PART_CHANNEL" /\ Asking(r, e)
  BY <1>3
<1>5. Right(m, u, << >>) => Due(m, u, e)
  BY <1>4, RightIs DEF Due
<1> QED
  BY <1>1, <1>2, <1>4, <1>5, MoveBalances

LEMMA StatusBalances ==
  ASSUME BalanceInv, MessagesNext, NEW t \in RequestThread, NEW u \in Uid,
         NEW vis \in BOOLEAN, us_SET_STATUS(t, u, vis)
  PROVE  BalanceInv'
<1> DEFINE f == [vis |-> vis]
           x == Push("SET_STATUS", u, f)
           y == [op |-> "set_status", u |-> u, vis |-> vis]
           e == x.event
           r == << x, y >>
<1>1. Begin(t, u, r, FALSE)
  BY DEF us_SET_STATUS
<1>2. DOMAIN f = {"vis"} /\ f.vis = vis
  OBVIOUS
<1> HIDE DEF f
<1>3. x.op = "push" /\ x.u = u /\ e.type = "SET_STATUS" /\ e.u = u /\ e.vis = vis
  BY <1>2, PushIs
<1>4. y.op = "set_status" /\ y.u = u /\ y.vis = vis
  OBVIOUS
<1> HIDE DEF x, y
<1>5. StepOK(x) /\ StepOK(y)
  BY <1>3, <1>4 DEF StepOK, EventOK
<1>6. /\ CallsOK(r, u) /\ r # << >> /\ r[1] = x /\ Tail(r) = << y >>
      /\ \A k \in DOMAIN r : r[k] \in {x, y}
  BY <1>3, <1>4, <1>5, TwoCalls
<1>7. Len(<< y >>) = 1 /\ << y >>[1] = y
  OBVIOUS
<1> HIDE DEF r
<1>8. Sets1(Tail(r), e)
  BY <1>3, <1>4, <1>6, <1>7 DEF Sets1
<1>9. Asking(r, e)
  BY <1>3, <1>6, <1>8 DEF Asking, Pushing, Moves
<1>10. \A k \in DOMAIN r : r[k].op # "cleanup"
  BY <1>3, <1>4, <1>6
<1>11. Right(m, u, << >>) => Due(m, u, e)
  <2>1. ASSUME Right(m, u, << >>)
        PROVE  Due(m, u, e)
    <3>1. Even(m, u) /\ Agrees(m, u)
      BY <2>1, RightIs
    <3> QED
      BY <1>3, <3>1 DEF Due, Agrees
  <2> QED
    BY <2>1
<1> QED
  BY <1>1, <1>6, <1>9, <1>10, <1>11, MoveBalances

\* One event that moves the user, and at most a login after it.
LEMMA OneMove ==
  ASSUME BalanceInv, MessagesNext, NEW t \in RequestThread, NEW u \in Uid,
         NEW type \in {"JOIN", "KICK_USER", "FLUSH_USER_DATA"},
         NEW f, "type" \notin DOMAIN f, "u" \notin DOMAIN f,
         EventOK(Push(type, u, f).event), NEW mixes,
         Right(m, u, << >>) /\ ~ mixes => Due(m, u, Push(type, u, f).event),
         \/ Begin(t, u, << Push(type, u, f) >>, mixes)
         \/ Begin(t, u, << Push(type, u, f), [op |-> "insert$", u |-> u] >>, mixes)
  PROVE  BalanceInv'
<1> DEFINE x == Push(type, u, f)
           y == [op |-> "insert$", u |-> u]
           e == x.event
<1>1. x.op = "push" /\ x.u = u /\ e.type = type /\ e.u = u
  BY PushIs
<1>2. y.op = "insert$" /\ y.u = u
  OBVIOUS
<1>3. Begin(t, u, << x >>, mixes) \/ Begin(t, u, << x, y >>, mixes)
  OBVIOUS
<1>4. EventOK(e) /\ (Right(m, u, << >>) /\ ~ mixes => Due(m, u, e))
  OBVIOUS
<1> HIDE DEF x, y
<1>5. StepOK(x) /\ StepOK(y)
  BY <1>1, <1>2, <1>4 DEF StepOK
<1>6. e.type \in Moves /\ e.type # "PART_CHANNEL" /\ e.type # "SET_STATUS"
  BY <1>1 DEF Moves
<1>7. ASSUME NEW r, Begin(t, u, r, mixes), CallsOK(r, u), r # << >>, r[1] = x,
             \A k \in DOMAIN r : r[k] \in {x, y}, Still(Tail(r))
      PROVE  BalanceInv'
  <2>1. Asking(r, e)
    BY <1>1, <1>6, <1>7 DEF Asking, Pushing
  <2>2. \A k \in DOMAIN r : r[k].op # "cleanup"
    BY <1>1, <1>2, <1>7
  <2> QED
    BY <1>4, <1>7, <2>1, <2>2, MoveBalances
<1>8. CASE Begin(t, u, << x >>, mixes)
  <2> DEFINE r == << x >>
  <2>1. CallsOK(r, u) /\ r # << >> /\ r[1] = x /\ \A k \in DOMAIN r : r[k] \in {x, y}
    BY <1>1, <1>5, OneCall
  <2>2. DOMAIN Tail(r) = {}
    OBVIOUS
  <2>3. Begin(t, u, r, mixes)
    BY <1>8
  <2> HIDE DEF r
  <2>4. Still(Tail(r))
    BY <2>2 DEF Still
  <2> QED
    BY <1>7, <2>1, <2>3, <2>4
<1>9. CASE Begin(t, u, << x, y >>, mixes)
  <2> DEFINE r == << x, y >>
             p == << y >>
  <2>1. CallsOK(r, u) /\ r # << >> /\ r[1] = x /\ Tail(r) = p /\ \A k \in DOMAIN r : r[k] \in {x, y}
    BY <1>1, <1>2, <1>5, TwoCalls
  <2>2. \A k \in DOMAIN p : p[k] = y
    BY <1>2, <1>5, OneCall
  <2>3. Begin(t, u, r, mixes)
    BY <1>9
  <2> HIDE DEF r, p
  <2>4. Still(Tail(r))
    BY <1>2, <2>1, <2>2 DEF Still
  <2> QED
    BY <1>7, <2>1, <2>3, <2>4
<1> QED
  BY <1>3, <1>8, <1>9

LEMMA LeavesBalance ==
  ASSUME BalanceInv, MessagesNext, NEW t \in RequestThread, NEW u \in Uid,
         kick_user(t, u) \/ create_reg_user(t, u)
  PROVE  BalanceInv'
<1>1. ASSUME NEW type \in {"KICK_USER", "FLUSH_USER_DATA"},
             \/ Begin(t, u, << Push(type, u, << >>) >>, FALSE)
             \/ Begin(t, u, << Push(type, u, << >>), [op |-> "insert$", u |-> u] >>, FALSE)
      PROVE  BalanceInv'
  <2> DEFINE f == << >>
             e == Push(type, u, f).event
  <2>1. DOMAIN f = {}
    OBVIOUS
  <2>2. \/ Begin(t, u, << Push(type, u, f) >>, FALSE)
        \/ Begin(t, u, << Push(type, u, f), [op |-> "insert$", u |-> u] >>, FALSE)
    BY <1>1
  <2> HIDE DEF f
  <2>3. e.type = type /\ e.u = u
    BY <2>1, PushIs
  <2>4. EventOK(e)
    BY <2>3 DEF EventOK
  <2>5. Right(m, u, << >>) /\ ~ FALSE => Due(m, u, e)
    BY <2>3, RightIs DEF Due
  <2>6. "type" \notin DOMAIN f /\ "u" \notin DOMAIN f
    BY <2>1
  <2> QED
    BY <2>2, <2>4, <2>5, <2>6, OneMove
<1>2. CASE kick_user(t, u)
  BY <1>1, <1>2 DEF kick_user
<1>3. CASE create_reg_user(t, u)
  BY <1>1, <1>3 DEF create_reg_user
<1> QED
  BY <1>2, <1>3

LEMMA IrcJoinBalances ==
  ASSUME BalanceInv, MessagesNext, NEW t \in RequestThread, NEW u \in Uid, NEW c \in Channel, irc_cmd_JOIN(t, u, c)
  PROVE  BalanceInv'
<1> DEFINE f == [ct |-> "irc", ch |-> c, vis |-> TRUE]
           e == Push("JOIN", u, f).event
           mixes == get_channel(m.users[u].us, "www") # {}
<1>1. DOMAIN f = {"ct", "ch", "vis"} /\ f.ct = "irc" /\ f.ch = c /\ f.vis = TRUE
  OBVIOUS
<1>2. Begin(t, u, << Push("JOIN", u, f) >>, mixes)
  BY DEF irc_cmd_JOIN
<1> HIDE DEF f
<1>3. /\ e.type = "JOIN" /\ e.u = u /\ e.ct = "irc" /\ e.ch = c /\ e.vis = TRUE
      /\ DOMAIN e = {"type", "u", "ct", "ch", "vis"}
  BY <1>1, PushIs
<1> HIDE DEF e
<1>4. EventOK(e)
  BY <1>3 DEF EventOK, CT
<1>5. ASSUME Right(m, u, << >>), ~ mixes
      PROVE  Due(m, u, e)
  <2>1. Even(m, u)
    BY <1>5, RightIs
  <2>2. JoinDue(m, u, e)
    BY <1>3, <1>5, <2>1 DEF JoinDue, Even
  <2> QED
    BY <1>3, <2>2 DEF Due
<1> HIDE DEF mixes
<1> QED
  BY <1>1, <1>2, <1>4, <1>5, OneMove DEF e

LEMMA FourCalls ==
  ASSUME NEW a, NEW b, NEW c, NEW d
  PROVE  LET r == << a, b, c, d >>
             p == << b, c, d >>
             q == << c, d >> IN
         /\ IsSeq(r) /\ r # << >> /\ r[1] = a /\ Tail(r) = p /\ p # << >> /\ p[1] = b /\ Tail(p) = q
         /\ \A k \in DOMAIN r : r[k] \in {a, b, c, d}
         /\ \A k \in DOMAIN q : q[k] \in {c, d}
<1> DEFINE r == << a, b, c, d >>
           p == << b, c, d >>
           q == << c, d >>
<1>1. r \in Seq({a, b, c, d}) /\ DOMAIN r = {1, 2, 3, 4} /\ r[1] = a /\ r[2] = b /\ r[3] = c /\ r[4] = d
  OBVIOUS
<1>2. r # << >> /\ Tail(r) = p
  OBVIOUS
<1>3. p # << >> /\ p[1] = b /\ Tail(p) = q
  OBVIOUS
<1>4. DOMAIN q = {1, 2} /\ q[1] = c /\ q[2] = d
  OBVIOUS
<1> HIDE DEF r, p, q
<1>5. \A k \in DOMAIN r : r[k] \in {a, b, c, d}
  BY <1>1
<1>6. \A k \in DOMAIN q : q[k] \in {c, d}
  BY <1>4
<1> QED
  BY <1>1, <1>2, <1>3, <1>5, <1>6 DEF IsSeq, r, p, q

\* A call before others.
LEMMA CallBefore ==
  ASSUME NEW x, NEW d, NEW u, CallsOK(d, u), StepOK(x), x.u = u
  PROVE  LET r == << x >> \o d IN
         CallsOK(r, u) /\ r # << >> /\ r[1] = x /\ Tail(r) = d /\ \A k \in DOMAIN r : r[k] = x \/ \E j \in DOMAIN d : r[k] = d[j]
<1>1. PICK S : d \in Seq(S)
  BY DEF CallsOK, IsSeq
<1> DEFINE T == S \cup {x}
           p == << x >>
           r == p \o d
<1>2. p \in Seq(T) /\ d \in Seq(T) /\ Len(p) = 1 /\ p[1] = x
  BY <1>1
<1> HIDE DEF p, T
<1>4. Len(d) \in Nat /\ DOMAIN d = 1..Len(d)
  BY <1>1
<1>3. /\ r \in Seq(T) /\ Len(r) = Len(d) + 1 /\ r[1] = x
      /\ \A i \in 1..Len(d) : r[i + 1] = d[i]
  <2>1. /\ r \in Seq(T) /\ Len(r) = Len(p) + Len(d)
        /\ \A i \in 1..Len(p) : r[i] = p[i]
        /\ \A i \in 1..Len(d) : r[Len(p) + i] = d[i]
    BY <1>2, Concatenated
  <2> HIDE DEF r
  <2>2. ASSUME NEW i \in 1..Len(d) PROVE r[i + 1] = d[i]
    <3>1. i + 1 = Len(p) + i
      BY <1>2, <1>4
    <3> QED
      BY <2>1, <3>1
  <2>3. Len(r) = Len(d) + 1 /\ 1 \in 1..Len(p)
    BY <1>2, <1>4, <2>1
  <2> QED
    BY <1>2, <2>1, <2>2, <2>3
<1> HIDE DEF r
<1>5. r # << >> /\ Len(Tail(r)) = Len(d) /\ Tail(r) \in Seq(T) /\ \A i \in 1..Len(d) : Tail(r)[i] = r[i + 1]
  BY <1>3, <1>4
<1>6. Tail(r) = d
  BY <1>2, <1>3, <1>4, <1>5
<1>7. \A k \in DOMAIN r : k = 1 \/ (k - 1 \in DOMAIN d /\ r[k] = d[k - 1])
  <2>1. DOMAIN r = 1..(Len(d) + 1)
    BY <1>3
  <2>2. ASSUME NEW k \in DOMAIN r, k # 1
        PROVE  k - 1 \in 1..Len(d) /\ k = (k - 1) + 1
    BY <1>4, <2>1, <2>2
  <2> QED
    BY <1>3, <1>4, <2>2
<1>8. \A k \in DOMAIN r : r[k] = x \/ \E j \in DOMAIN d : r[k] = d[j]
  BY <1>3, <1>7
<1>9. CallsOK(r, u)
  BY <1>3, <1>8 DEF CallsOK, IsSeq
<1> QED
  BY <1>3, <1>5, <1>6, <1>8, <1>9 DEF r, p

\* The calls of url_chat_messages2 once a move has been announced.
PageCalls(u, c, state, vis) ==
  << [op |-> "set_user_state", u |-> u, state |-> [us |-> www_channel_replace(state.us, c), vis |-> vis]],
     Push("JOIN", u, [ct |-> "www", ch |-> c, vis |-> vis]),
     Push("CHAT_MESSAGES2", u, [ch |-> c]),
     [op |-> "persistent_socket", u |-> u] >>

LEMMA PageCallsAre ==
  ASSUME NEW u \in Uid, NEW c \in Channel, NEW state, NEW vis \in BOOLEAN
  PROVE  LET r == PageCalls(u, c, state, vis) IN
         /\ CallsOK(r, u) /\ r # << >> /\ r[1].op = "set_user_state"
         /\ \A k \in DOMAIN r : r[k].op # "cleanup"
         /\ \E e : e.type = "JOIN" /\ e.ct = "www" /\ e.ch = c /\ e.vis = vis /\ Paging(r, e)
<1> DEFINE st == [us |-> www_channel_replace(state.us, c), vis |-> vis]
           a == [op |-> "set_user_state", u |-> u, state |-> st]
           f == [ct |-> "www", ch |-> c, vis |-> vis]
           g == [ch |-> c]
           x == Push("JOIN", u, f)
           y == Push("CHAT_MESSAGES2", u, g)
           z == [op |-> "persistent_socket", u |-> u]
           e == x.event
           r == << a, x, y, z >>
<1>1. PageCalls(u, c, state, vis) = r
  BY DEF PageCalls
<1>2. /\ DOMAIN f = {"ct", "ch", "vis"} /\ f.ct = "www" /\ f.ch = c /\ f.vis = vis
      /\ DOMAIN g = {"ch"}
  OBVIOUS
<1>3. DOMAIN st = {"us", "vis"}
  OBVIOUS
<1> HIDE DEF st
<1>4. a.op = "set_user_state" /\ a.u = u /\ DOMAIN a.state = {"us", "vis"}
  BY <1>3
<1>5. z.op = "persistent_socket" /\ z.u = u
  OBVIOUS
<1> HIDE DEF f, g
<1>6. /\ x.op = "push" /\ x.u = u /\ e.type = "JOIN" /\ e.u = u /\ e.ct = "www" /\ e.ch = c /\ e.vis = vis
      /\ DOMAIN e = {"type", "u", "ct", "ch", "vis"}
  BY <1>2, PushIs
<1>7. y.op = "push" /\ y.u = u /\ y.event.type = "CHAT_MESSAGES2" /\ y.event.u = u
  BY <1>2, PushIs
<1> HIDE DEF a, x, y, z
<1>8. StepOK(a) /\ StepOK(z)
  BY <1>4, <1>5 DEF StepOK
<1>9. StepOK(x)
  BY <1>6 DEF StepOK, EventOK, CT
<1>10. StepOK(y)
  BY <1>7 DEF StepOK, EventOK
<1> DEFINE p == << x, y, z >>
           q == << y, z >>
<1>11. /\ IsSeq(r) /\ r # << >> /\ r[1] = a /\ Tail(r) = p /\ p # << >> /\ p[1] = x /\ Tail(p) = q
       /\ \A k \in DOMAIN r : r[k] \in {a, x, y, z}
       /\ \A k \in DOMAIN q : q[k] \in {y, z}
  BY FourCalls
<1> HIDE DEF r, p, q
<1>12. CallsOK(r, u)
  BY <1>4, <1>5, <1>6, <1>7, <1>8, <1>9, <1>10, <1>11 DEF CallsOK
<1>13. Still(q)
  BY <1>5, <1>7, <1>11 DEF Still, Moving, Moves
<1>14. Asking(p, e)
  BY <1>6, <1>11, <1>13 DEF Asking, Pushing, Moves
<1>15. Paging(r, e)
  BY <1>4, <1>6, <1>11, <1>14 DEF Paging
<1>16. \A k \in DOMAIN r : r[k].op # "cleanup"
  BY <1>4, <1>5, <1>6, <1>7, <1>11
<1> QED
  BY <1>1, <1>4, <1>6, <1>11, <1>12, <1>15, <1>16

\* A user at rest without an IRC client, who is not announced to move, is on
\* no other channel to be seen.
LEMMA StaysOrHides ==
  ASSUME NEW s, NEW u \in Uid, Right(s, u, << >>), get_channel(s.global[u].us, "irc") = {}, NEW c \in Channel,
         Counted(s), ~ TellsMove(s.global[u], c), NEW d \in Channel, Seen(s, u, d)
  PROVE  d = c
<1> SUFFICES ASSUME d # c
             PROVE  FALSE
  OBVIOUS
<1> DEFINE us == s.users[u].us
<1>1. NoMix(us) /\ Agrees(s, u)
  BY RightIs
<1>2. us \in ChannelUs /\ s.global[u].us = us
  BY <1>1 DEF Counted, Agrees
<1>3. us[d] # {} /\ s.users[u].vis
  BY DEF Seen
<1>4. \A x \in Channel : us[x] \subseteq {"www"}
  BY <1>2 DEF ChannelUs, CT, get_channel
<1>5. export_channels(us) = {d}
  <2>1. \A x \in Channel : us[x] # {} <=> "www" \in us[x]
    BY <1>4
  <2>2. \A x \in Channel : us[x] # {} => x = d
    BY <1>1, <1>3, <2>1 DEF NoMix, OneWwwChannel
  <2> QED
    BY <1>3, <2>2 DEF export_channels
<1>6. us[d] = {"www"}
  BY <1>3, <1>4
<1>7. Cardinality({d}) = 1 /\ Cardinality({"www"}) = 1
  BY FS_Singleton
<1>8. s.global[u].vis = s.users[u].vis
  BY <1>1, <1>5 DEF Agrees, InSomeChannel
<1> HIDE DEF us
<1>9. TellsMove(s.global[u], c)
  <2>1. export_channels(s.global[u].us) = {d} /\ s.global[u].us[d] = {"www"} /\ s.global[u].vis
    BY <1>2, <1>3, <1>5, <1>6, <1>8
  <2> QED
    BY <1>7, <2>1 DEF TellsMove
<1> QED
  BY <1>9

\* What is due when the page is asked for.
LEMMA PageDue ==
  ASSUME NEW s, NEW u \in Uid, Counted(s), Right(s, u, << >>), get_channel(s.global[u].us, "irc") = {},
         NEW c \in Channel, NEW e, e.type = "JOIN", e.ct = "www", e.ch = c
  PROVE  /\ ~ TellsMove(s.global[u], c) => Right(s, u, <<e>>)
         /\ TellsMove(s.global[u], c) =>
              \A f : f.type = "CHROOM" /\ f.ch \in export_channels(s.global[u].us) => Right(s, u, <<f, e>>)
<1>1. NoMix(s.users[u].us) /\ Even(s, u) /\ Agrees(s, u)
  BY RightIs
<1>2. s.global[u].us = s.users[u].us
  BY <1>1 DEF Agrees
<1>3. ASSUME ~ TellsMove(s.global[u], c)
      PROVE  Right(s, u, <<e>>)
  <2>1. \A d \in Channel : Seen(s, u, d) => d = c
    BY <1>3, StaysOrHides
  <2>2. JoinDue(s, u, e)
    BY <1>1, <1>2, <2>1 DEF JoinDue, Even
  <2>3. Due(s, u, e)
    BY <2>2 DEF Due
  <2> QED
    BY <1>1, <2>3, RightIs
<1>4. ASSUME TellsMove(s.global[u], c), NEW f, f.type = "CHROOM", f.ch \in export_channels(s.global[u].us)
      PROVE  Right(s, u, <<f, e>>)
  <2>1. s.global[u].vis /\ c \notin export_channels(s.global[u].us)
    BY <1>4 DEF TellsMove
  <2>2. InSomeChannel(s.users[u].us) /\ s.users[u].us[f.ch] # {} /\ f.ch # c
    BY <1>2, <1>4, <2>1 DEF InSomeChannel, export_channels
  <2>3. s.users[u].vis \in BOOLEAN
    BY DEF Counted
  <2>4. s.users[u].vis = TRUE
    BY <1>1, <2>1, <2>2, <2>3 DEF Agrees
  <2>5. GoesOver(s, u, f, e)
    BY <1>1, <1>2, <1>4, <2>2, <2>4 DEF GoesOver
  <2> QED
    BY <1>1, <2>5, RightIs
<1> QED
  BY <1>3, <1>4

LEMMA EmptyBefore ==
  ASSUME NEW q, IsSeq(q)
  PROVE  << >> \o q = q
<1>1. PICK S : q \in Seq(S)
  BY DEF IsSeq
<1> QED
  BY <1>1

LEMMA PageBalances ==
  ASSUME BalanceInv, MessagesNext, NEW t \in RequestThread, NEW u \in Uid, NEW c \in Channel,
         NEW vis \in BOOLEAN, url_chat_messages2(t, u, c, vis)
  PROVE  BalanceInv'
<1> DEFINE state == m.global[u]
           chans == export_channels(state.us)
           g == [ch |-> CHOOSE d \in chans : TRUE]
           x == Push("CHROOM", u, g)
           f == x.event
           p == PageCalls(u, c, state, vis)
           tells == TellsMove(state, c)
           r == (IF tells THEN << x >> ELSE << >>) \o p
           irc == get_channel(state.us, "irc")
<1>1. /\ m_todo[t] = << >> /\ m_chat' = m_chat /\ m_events' = m_events
      /\ m_todo' = [m_todo EXCEPT ![t] = r]
      /\ m' = [m EXCEPT !.screen[u] = NewPage,
                        !.loose = IF Unsettled(u) \/ irc # {} THEN @ \cup {u} ELSE @]
  BY DEF url_chat_messages2, PageCalls
<1>2. Shaped(m) /\ Counted(m)
  BY DEF BalanceInv, Sound, Fine
<1>3. CallsOK(p, u) /\ p # << >> /\ p[1].op = "set_user_state" /\ \A k \in DOMAIN p : p[k].op # "cleanup"
  BY PageCallsAre
<1>4. PICK e : e.type = "JOIN" /\ e.ct = "www" /\ e.ch = c /\ e.vis = vis /\ Paging(p, e)
  BY PageCallsAre
<1> HIDE DEF p
<1>5. Only(m, m') /\ (u \notin m'.loose => ~ Unsettled(u) /\ irc = {})
  <2> HIDE DEF irc
  <2>1. /\ m'.users = m.users /\ m'.global = m.global /\ m'.history = m.history /\ m'.pending = m.pending
        /\ m'.said = m.said /\ m'.external = m.external
        /\ m'.loose = IF Unsettled(u) \/ irc # {} THEN m.loose \cup {u} ELSE m.loose
    BY <1>1, <1>2 DEF Shaped
  <2> QED
    BY <2>1 DEF Only
<1>6. tells => f.type = "CHROOM" /\ f.ch \in chans /\ x.op = "push" /\ x.u = u /\ StepOK(x)
  <2> SUFFICES ASSUME tells PROVE f.type = "CHROOM" /\ f.ch \in chans /\ x.op = "push" /\ x.u = u /\ StepOK(x)
    OBVIOUS
  <2>1. chans # {}
    <3>1. Cardinality(chans) = 1
      BY DEF TellsMove
    <3> QED
      BY <3>1, FS_EmptySet
  <2>2. g.ch \in chans /\ DOMAIN g = {"ch"}
    BY <2>1
  <2>3. chans \subseteq Channel
    BY DEF export_channels
  <2> HIDE DEF g, chans
  <2>4. x.op = "push" /\ x.u = u /\ f.type = "CHROOM" /\ f.u = u /\ f.ch = g.ch
    BY <2>2, PushIs
  <2> HIDE DEF x
  <2>5. StepOK(x)
    BY <2>2, <2>3, <2>4 DEF StepOK, EventOK
  <2> QED
    BY <2>2, <2>4, <2>5
<1>7. CASE tells
  <2>0. PICK y, b : y = x /\ b = p
    OBVIOUS
  <2>1. CallsOK(b, u) /\ StepOK(y) /\ y.u = u
    BY <1>3, <1>6, <1>7, <2>0
  <2>2. r = << y >> \o b
    BY <1>7, <2>0
  <2> HIDE DEF r, x
  <2>12. /\ CallsOK(<< y >> \o b, u) /\ << y >> \o b # << >> /\ (<< y >> \o b)[1] = y
         /\ Tail(<< y >> \o b) = b
         /\ \A k \in DOMAIN (<< y >> \o b) : (<< y >> \o b)[k] = y \/ \E j \in DOMAIN b : (<< y >> \o b)[k] = b[j]
    BY <2>1, CallBefore
  <2>3. CallsOK(r, u) /\ r # << >> /\ r[1] = x /\ Tail(r) = p
        /\ \A k \in DOMAIN r : r[k] = x \/ \E j \in DOMAIN p : r[k] = p[j]
    BY <2>0, <2>2, <2>12
  <2>4. f.type = "CHROOM" /\ f.ch \in chans /\ x.op = "push"
    BY <1>6, <1>7
  <2>5. \A k \in DOMAIN r : r[k].op # "cleanup"
    BY <1>3, <2>3, <2>4
  <2>6. TellsMove(m.global[u], c)
    BY <1>7
  <2> HIDE DEF tells
  <2>7. Chrooming(r, f, e)
    BY <1>4, <2>3, <2>4 DEF Chrooming, Pushing
  <2>8. Asks(r, <<f, e>>)
    BY <2>7 DEF Asks
  <2>9. Closing(m, u, r, <<f, e>>)
    BY <2>3, <2>4, <2>5, ClosingNone
  <2>10. ASSUME AtRest(u), irc = {}
         PROVE  Coming(m, m_events, r, u)
    <3>1. Right(m, u, <<f, e>>)
      BY <1>2, <1>4, <2>4, <2>6, <2>10, PageDue DEF AtRest
    <3> QED
      BY <2>8, <2>9, <2>10, <3>1, ComingStarts DEF AtRest
  <2>11. u \notin m'.loose => ~ Unsettled(u) /\ (AtRest(u) => Coming(m, m_events, r, u))
    BY <1>5, <2>10
  <2> QED
    BY <1>1, <1>5, <2>3, <2>11, BeginBalances
<1>8. CASE ~ tells
  <2>1. r = p
    <3>1. IsSeq(p)
      BY <1>3 DEF CallsOK
    <3>2. << >> \o p = p
      BY <3>1, EmptyBefore
    <3> QED
      BY <1>8, <3>2
  <2>2. ~ TellsMove(m.global[u], c)
    BY <1>8
  <2> HIDE DEF r, tells, x
  <2>3. Asks(p, <<e>>)
    BY <1>4 DEF Asks
  <2>4. Closing(m, u, p, <<e>>)
    BY <1>3, ClosingNone
  <2>5. ASSUME AtRest(u), irc = {}
        PROVE  Coming(m, m_events, p, u)
    <3>1. Right(m, u, <<e>>)
      BY <1>2, <1>4, <2>2, <2>5, PageDue DEF AtRest
    <3> QED
      BY <2>3, <2>4, <2>5, <3>1, ComingStarts DEF AtRest
  <2>6. u \notin m'.loose => ~ Unsettled(u) /\ (AtRest(u) => Coming(m, m_events, p, u))
    BY <1>5, <2>5
  <2>7. m_todo' = [m_todo EXCEPT ![t] = p]
    BY <1>1, <2>1
  <2> QED
    BY <1>1, <1>3, <1>5, <2>6, <2>7, BeginBalances
<1> QED
  BY <1>7, <1>8

LEMMA RequestBalances ==
  ASSUME BalanceInv, MessagesNext, NEW t \in RequestThread, Requests(t)
  PROVE  BalanceInv'
<1>1. PICK u \in Uid, z \in Uid, c \in Channel :
        \/ \E vis \in BOOLEAN : url_chat_messages2(t, u, c, vis) \/ us_SET_STATUS(t, u, vis)
        \/ irc_cmd_JOIN(t, u, c) \/ part(t, u, "irc", {c}) \/ part(t, u, "www", {})
        \/ expire(t, u) \/ kick_user(t, u) \/ create_reg_user(t, u) \/ notice(t, u)
        \/ \E to \in Uid \cup {"nobody"} : \E kind, text : url_chat_sendmessage(t, u, to, kind, text)
        \/ irc_cmd_PRIVMSG(t, u, "nobody", c) \/ irc_cmd_PRIVMSG(t, u, z, c)
        \/ \E declined : url_invite(t, u, z, declined)
        \/ url_set_topic(t, u) \/ channel_mode(t, u, c) \/ channel_voice(t, u, z, c)
  BY DEF Requests
<1>2. /\ "irc" \in CT /\ "www" \in CT /\ {c} \in SUBSET Channel /\ {} \in SUBSET Channel
      /\ "nobody" \in Uid \cup {"nobody"} /\ z \in Uid \cup {"nobody"}
  BY DEF CT
<1>3. CASE \E vis \in BOOLEAN : url_chat_messages2(t, u, c, vis) \/ us_SET_STATUS(t, u, vis)
  BY <1>3, PageBalances, StatusBalances
<1>4. CASE irc_cmd_JOIN(t, u, c)
  BY <1>4, IrcJoinBalances
<1>5. CASE part(t, u, "irc", {c}) \/ part(t, u, "www", {})
  BY <1>2, <1>5, PartBalances
<1>6. CASE expire(t, u)
  BY <1>6, ExpireBalances
<1>7. CASE kick_user(t, u) \/ create_reg_user(t, u)
  BY <1>7, LeavesBalance
<1>8. CASE notice(t, u)
  BY <1>8, NoticeStarts DEF notice
<1>9. CASE \/ \E to \in Uid \cup {"nobody"} : \E kind, text : url_chat_sendmessage(t, u, to, kind, text)
           \/ irc_cmd_PRIVMSG(t, u, "nobody", c) \/ irc_cmd_PRIVMSG(t, u, z, c)
  BY <1>2, <1>9, WritesBalance
<1>10. CASE \/ \E declined : url_invite(t, u, z, declined)
            \/ url_set_topic(t, u) \/ channel_mode(t, u, c) \/ channel_voice(t, u, z, c)
  BY <1>10, CommandsBalance
<1> QED
  BY <1>1, <1>3, <1>4, <1>5, <1>6, <1>7, <1>8, <1>9, <1>10

LEMMA BalanceKept ==
  ASSUME BalanceInv, [MessagesNext]_messagesVars
  PROVE  BalanceInv'
<1>1. CASE MessagesNext
  <2>1. CASE ChatSteps
    BY <2>1, ChatBalances
  <2>2. CASE \E t \in RequestThread : RequestSteps(t) \/ Requests(t)
    BY <1>1, <2>2, ThreadBalances, RequestBalances
  <2> QED
    BY <1>1, <2>1, <2>2 DEF MessagesNext
<1>2. CASE UNCHANGED messagesVars
  BY <1>2 DEF messagesVars, BalanceInv
<1> QED
  BY <1>1, <1>2

\* The channels of who starts on channel h, if that is one.
HomeUs(h) == [c \in Channel |-> IF c = h THEN {"www"} ELSE {}]

LEMMA HomeIs ==
  ASSUME NEW h
  PROVE  /\ HomeUs(h) \in ChannelUs /\ IsFiniteSet(export_channels(HomeUs(h))) /\ NoMix(HomeUs(h))
         /\ \A c \in Channel : HomeUs(h)[c] # {} <=> c = h
         /\ h \notin Channel => HomeUs(h) = NoChannels
<1>1. HomeUs(h) \in ChannelUs /\ \A c \in Channel : HomeUs(h)[c] = IF c = h THEN {"www"} ELSE {}
  BY DEF HomeUs, ChannelUs, CT
<1>2. h \notin Channel => HomeUs(h) = NoChannels
  BY DEF HomeUs, NoChannels
<1> DEFINE us == HomeUs(h)
<1> HIDE DEF us
<1>3. us \in ChannelUs /\ \A c \in Channel : us[c] = IF c = h THEN {"www"} ELSE {}
  BY <1>1 DEF us
<1>4. export_channels(us) \subseteq {h}
  BY <1>3 DEF export_channels
<1>5. IsFiniteSet({h})
  BY FS_Singleton
<1>6. IsFiniteSet(export_channels(us))
  BY <1>4, <1>5, FS_Subset
<1>7. NoMix(us)
  BY <1>3 DEF NoMix, OneWwwChannel, get_channel
<1> QED
  BY <1>2, <1>3, <1>6, <1>7 DEF us

\* What the tables hold at the start.
LEMMA StartsEven ==
  ASSUME NEW homes \in [Uid -> Nat], MessagesInit(homes)
  PROVE  /\ Counted(m) /\ m.loose = {}
         /\ \A u \in Uid : Right(m, u, << >>)
<1> DEFINE members == {u \in Uid : homes[u] \in Channel}
           rec(u) == [id |-> 0, kind |-> "GREETING", ch |-> homes[u], from |-> u, to |-> "nobody"]
           greeted == {rec(u) : u \in members}
           us(u) == [c \in Channel |-> IF c = homes[u] THEN {"www"} ELSE {}]
           users == [u \in Uid |-> IF u \in members
                       THEN [Stranger EXCEPT !.loaded = TRUE, !.us = us(u)] ELSE Stranger]
           global == [u \in Uid |-> [us |-> us(u), vis |-> TRUE]]
<1>1. /\ m.users = users /\ m.global = global /\ m.history = greeted /\ m.pending = << >>
      /\ m.external = {} /\ m.said = 0 /\ m.loose = {}
  BY DEF MessagesInit
<1>2. \A u \in Uid : us(u) = HomeUs(homes[u])
  BY DEF HomeUs
<1> HIDE DEF us
<1>3. ASSUME NEW u \in Uid
      PROVE  /\ users[u].us = HomeUs(homes[u]) /\ users[u].vis = TRUE
             /\ users[u].loaded = FALSE => u \notin members
             /\ global[u].us = HomeUs(homes[u]) /\ global[u].vis = TRUE /\ DOMAIN global[u] = {"us", "vis"}
  <2>1. CASE u \in members
    BY <1>2, <2>1 DEF Stranger
  <2>2. CASE u \notin members
    <3>1. homes[u] \notin Channel
      BY <2>2
    <3>2. HomeUs(homes[u]) = NoChannels
      BY <3>1, HomeIs
    <3> QED
      BY <1>2, <2>2, <3>2 DEF Stranger
  <2> QED
    BY <2>1, <2>2
<1>4. DOMAIN global = Uid
  OBVIOUS
<1> HIDE DEF users, global
<1>5. ASSUME NEW u \in Uid, NEW c \in Channel
      PROVE  /\ Made(m, {"GREETING"}, u, c) = IF c = homes[u] THEN {rec(u)} ELSE {}
             /\ Made(m, Announced, u, c) \subseteq {rec(u)}
             /\ Made(m, Partings, u, c) = {}
             /\ ToMake(m, {"GREETING"}, u, c) = {} /\ ToMake(m, Partings, u, c) = {}
  <2>1. \A e \in greeted : e.kind = "GREETING" /\ (e.from = u => e = rec(u) /\ e.ch = homes[u])
    OBVIOUS
  <2>2. c = homes[u] => rec(u) \in greeted /\ rec(u).kind = "GREETING" /\ rec(u).from = u /\ rec(u).ch = c
    OBVIOUS
  <2>3. m.history = greeted /\ DOMAIN m.pending = {}
    BY <1>1
  <2> HIDE DEF greeted, rec
  <2>4. Made(m, {"GREETING"}, u, c) = IF c = homes[u] THEN {rec(u)} ELSE {}
    BY <2>1, <2>2, <2>3 DEF Made
  <2>5. Made(m, Announced, u, c) \subseteq {rec(u)} /\ Made(m, Partings, u, c) = {}
    BY <2>1, <2>3 DEF Made, Partings
  <2>6. ToMake(m, {"GREETING"}, u, c) = {} /\ ToMake(m, Partings, u, c) = {}
    BY <2>3 DEF ToMake
  <2> QED
    BY <2>4, <2>5, <2>6
<1>6. \A e \in m.history : e.id = 0
  BY <1>1
<1> HIDE DEF greeted, rec
<1>7. ASSUME NEW u \in Uid, NEW c \in Channel
      PROVE  IsFiniteSet(Made(m, Announced, u, c)) /\ Present(m, u, c) = IF c = homes[u] THEN 1 ELSE 0
  <2>1. IsFiniteSet({rec(u)}) /\ Cardinality({rec(u)}) = 1 /\ Cardinality({}) = 0
    BY FS_Singleton, FS_EmptySet
  <2>2. IsFiniteSet(Made(m, Announced, u, c))
    BY <1>5, <2>1, FS_Subset
  <2>5. Made(m, {"GREETING"}, u, c) = IF c = homes[u] THEN {rec(u)} ELSE {}
    BY <1>5
  <2>6. Made(m, Partings, u, c) = {} /\ ToMake(m, {"GREETING"}, u, c) = {} /\ ToMake(m, Partings, u, c) = {}
    BY <1>5
  <2>3. Told(m, {"GREETING"}, u, c) = IF c = homes[u] THEN 1 ELSE 0
    <3>1. CASE c = homes[u]
      BY <2>1, <2>5, <2>6, <3>1 DEF Told
    <3>2. CASE c # homes[u]
      BY <2>1, <2>5, <2>6, <3>2 DEF Told
    <3> QED
      BY <3>1, <3>2
  <2>4. Told(m, Partings, u, c) = 0
    BY <2>1, <2>6 DEF Told
  <2> QED
    BY <2>2, <2>3, <2>4 DEF Present
<1>8. Counted(m)
  <2>1. ASSUME NEW u \in Uid
        PROVE  /\ m.users[u].us \in ChannelUs /\ m.users[u].vis \in BOOLEAN
               /\ m.users[u].loaded = FALSE => m.users[u].us = NoChannels /\ m.users[u].vis = TRUE
               /\ IsFiniteSet(export_channels(m.users[u].us))
               /\ DOMAIN m.global[u] = {"us", "vis"}
    <3>1. m.users[u].loaded = FALSE => homes[u] \notin Channel
      BY <1>1, <1>3
    <3>2. m.users[u].us = HomeUs(homes[u]) /\ m.users[u].vis = TRUE /\ DOMAIN m.global[u] = {"us", "vis"}
      BY <1>1, <1>3
    <3>3. HomeUs(homes[u]) \in ChannelUs /\ IsFiniteSet(export_channels(HomeUs(homes[u])))
      BY HomeIs
    <3>4. homes[u] \notin Channel => HomeUs(homes[u]) = NoChannels
      BY HomeIs
    <3> QED
      BY <3>1, <3>2, <3>3, <3>4
  <2>2. m.pending \in Seq([kind : Announced, u : Uid, ch : Channel])
    BY <1>1
  <2>3. m.said \in Nat /\ \A e \in m.history : e.id \in 0..m.said
    BY <1>1, <1>6
  <2> QED
    BY <1>1, <1>4, <1>7, <2>1, <2>2, <2>3 DEF Counted
<1>9. ASSUME NEW u \in Uid
      PROVE  Right(m, u, << >>)
  <2>1. m.users[u].us = HomeUs(homes[u]) /\ m.users[u].vis = TRUE /\ m.global[u].us = HomeUs(homes[u]) /\ m.global[u].vis = TRUE
    BY <1>1, <1>3
  <2>2. NoMix(m.users[u].us) /\ \A c \in Channel : m.users[u].us[c] # {} <=> c = homes[u]
    BY <2>1, HomeIs
  <2>3. Agrees(m, u)
    BY <2>1 DEF Agrees
  <2>4. Even(m, u)
    BY <1>7, <2>1, <2>2 DEF Even, Seen
  <2> QED
    BY <2>2, <2>3, <2>4, RightIs
<1> QED
  BY <1>1, <1>8, <1>9

LEMMA StartsBalanced ==
  ASSUME NEW homes \in [Uid -> Nat], MessagesInit(homes)
  PROVE  BalanceInv
<1>1. /\ m_events = << >> /\ m_chat = [at |-> "look", batch |-> 0, copied |-> {}]
      /\ m_todo = [t \in RequestThread |-> << >>]
  BY DEF MessagesInit
<1>2. Sound(m) /\ m.loose = {} /\ \A u \in Uid : Right(m, u, << >>)
  BY StartsEven, StartsFine DEF Sound, FineNow
<1>3. << >> \in Seq({}) /\ DOMAIN << >> = {} /\ Len(<< >>) = 0
  OBVIOUS
<1> DEFINE none == << >>
<1>4. none \in Seq({}) /\ DOMAIN none = {} /\ Len(none) = 0 /\ m_events = none /\ m_todo = [t \in RequestThread |-> none]
  BY <1>1, <1>3
<1>5. QueueOK(m_events)
  BY <1>4 DEF QueueOK, IsSeq
<1>6. WorkOK(m_todo)
  BY <1>4 DEF WorkOK, IsSeq
<1>7. ChatOK(m_chat, m_events)
  BY <1>1, <1>3 DEF ChatOK
<1>8. ASSUME NEW u \in Uid
      PROVE  Doing(m_todo, u, << >>) /\ Coming(m, m_events, << >>, u)
  <2>1. Doing(m_todo, u, << >>)
    BY <1>1 DEF Doing, WorksFor
  <2>2. Lists(m_events, u, << >>)
    BY <1>4 DEF Lists, Places
  <2>3. Still(<< >>)
    BY <1>3 DEF Still
  <2>4. Asks(<< >>, << >>)
    BY <2>3, StillAsks
  <2>5. Closing(m, u, << >>, << >>)
    BY DEF Closing
  <2>6. Right(m, u, << >>)
    BY <1>2
  <2> QED
    BY <2>1, <2>2, <2>4, <2>5, <2>6, ComingStarts
<1>9. Straight(m, m_events, m_todo)
  BY <1>8 DEF Straight
<1> QED
  BY <1>2, <1>5, <1>6, <1>7, <1>9 DEF BalanceInv

\* What the moves of a user that are under way, in the queue or left to a
\* request, will make of the user's announcements and of global_state is right
\* at every step, whatever the other users' requests and the chat thread do:
\* on_JOIN_fix_lists, do_set_user_state, url_chat_messages2, us_PART_CHANNEL.
THEOREM BalanceInvariant == MessagesSpec => []BalanceInv
<1>1. (\E homes \in [Uid -> Nat] : MessagesInit(homes)) => BalanceInv
  BY StartsBalanced
<1>2. BalanceInv /\ [MessagesNext]_messagesVars => BalanceInv'
  BY BalanceKept
<1> QED
  BY <1>1, <1>2, PTL DEF MessagesSpec

\* Once a user's requests are done, the user was greeted on a channel once more
\* than taken leave of if seen there, and as often if not: no greeting, QUIT,
\* KICK or CHROOM of the room's events is missing or made twice.
THEOREM AnnouncementsAreBalanced == MessagesSpec => []AnnouncementsBalance
<1>1. BalanceInv => AnnouncementsBalance
  <2> SUFFICES ASSUME BalanceInv, NEW u \in Uid \ m.loose, NEW c \in Channel, ~ Unsettled(u)
               PROVE  Told(m, {"GREETING"}, u, c)
                      = Told(m, Partings, u, c) + (IF Seen(m, u, c) THEN 1 ELSE 0)
    BY DEF AnnouncementsBalance, Told, Made, ToMake, Seen
  <2>1. PICK d : Doing(m_todo, u, d) /\ Coming(m, m_events, d, u)
    BY DEF BalanceInv, Straight
  <2>2. \A t \in RequestThread : ~ WorksFor(m_todo, t, u)
    BY NotUnsettled
  <2>3. d = << >>
    BY <2>1, <2>2 DEF Doing
  <2>4. \A i \in DOMAIN m_events : m_events[i].u # u
    BY NotUnsettled
  <2>5. Right(m, u, << >>)
    BY <2>1, <2>3, <2>4, Settled
  <2>6. Even(m, u)
    BY <2>5, RightIs
  <2>7. Told(m, {"GREETING"}, u, c) \in Nat /\ Told(m, Partings, u, c) \in Nat
    BY ToldIsNat, KindsAre DEF BalanceInv, Sound
  <2>8. Told(m, {"GREETING"}, u, c) - Told(m, Partings, u, c) = IF Seen(m, u, c) THEN 1 ELSE 0
    BY <2>6 DEF Even, Present
  <2> QED
    BY <2>7, <2>8
<1> QED
  BY <1>1, BalanceInvariant, PTL
-----------------------------------------------------------------------------
(* What other programs ask for.                                            *)

ExtTypeOK ==
  /\ x_asked \in Seq(DOMAIN Parts) /\ Len(x_asked) <= MaxEvents
  /\ x_table \subseteq 1..Len(x_asked)
  /\ x_rows \in Seq(x_table) /\ x_todo \in Seq(Part)
  /\ x_done \in [RowId -> [Part -> Nat]]
  /\ x_stored \in Nat /\ x_cache \in Nat /\ x_load \in Nat

\* The event the loop is at.
Current(e) == x_rows # <<>> /\ e = Head(x_rows)

\* The loop goes over each row once, and over each part of it once.
LoopInv ==
  /\ \A i, j \in DOMAIN x_rows : x_rows[i] = x_rows[j] => i = j
  /\ \A i, j \in DOMAIN x_todo : x_todo[i] = x_todo[j] => i = j
  /\ x_rows = <<>> => x_todo = <<>>
  /\ x_todo # <<>> /\ x_asked[Head(x_rows)] = "flush" => Head(x_todo) = "clear" /\ Tail(x_todo) = <<>>

\* Nothing is done yet of what is not asked for, or waits in the table; of the
\* row the loop is at, nothing of what is left of it.
NotYet ==
  /\ \A e \in RowId \ x_again : e \notin 1..Len(x_asked) \/ (e \in x_table /\ ~ Current(e)) =>
       \A p \in Part : x_done[e][p] = 0
  /\ \A e \in RowId \ x_again : Current(e) => \A i \in DOMAIN x_todo : x_done[e][x_todo[i]] = 0

\* Of the row the loop is at, every part is done or left.
DoneOrLeft ==
  \A e \in 1..Len(x_asked) \ x_failed : Current(e) =>
    \A i \in DOMAIN Parts[x_asked[e]] :
      \/ Parts[x_asked[e]][i] \in {"told", "topic"}
      \/ x_done[e][Parts[x_asked[e]][i]] > 0
      \/ \E j \in DOMAIN x_todo : x_todo[j] = Parts[x_asked[e]][i]

\* A flush that is yet to be done, or to be asked for.
FlushWaits == x_writer \/ \E e \in x_table : x_asked[e] = "flush" /\ ~ (Current(e) /\ x_todo = <<>>)

\* When none is, what is cached or being read is what the database holds.
ReadFresh == ~ FlushWaits => x_old \/ {x_cache, x_load} \subseteq {0, x_stored}

ExtInv ==
  /\ ExtTypeOK /\ LoopInv /\ NotYet /\ DoneOrLeft /\ ReadFresh
  /\ DoneOnce /\ NoneForgotten

USE ExtEventsAssumption DEF tableVars, loopVars, profileVars, historyVars, RowId

\* The first of a sequence, and the others.
LEMMA FirstOfSeq ==
  ASSUME NEW S, NEW s \in Seq(S), s # <<>>
  PROVE  /\ Head(s) \in S /\ Head(s) = s[1] /\ 1 \in DOMAIN s
         /\ Tail(s) \in Seq(S)
         /\ \A i \in DOMAIN Tail(s) : i + 1 \in DOMAIN s /\ i + 1 # 1 /\ Tail(s)[i] = s[i + 1]
         /\ \A i \in DOMAIN s : i = 1 \/ (i - 1 \in DOMAIN Tail(s) /\ Tail(s)[i - 1] = s[i])
OBVIOUS

\* What the parts of an event are.
LEMMA PartsType ==
  /\ DOMAIN Parts = {"inc_credit_summa", "systemnote", "sysmsg", "set_topic", "chat_exit", "flush",
                     "klap_channel", "invalid"}
  /\ \A cmd \in DOMAIN Parts :
       /\ Parts[cmd] \in Seq(Part)
       /\ \A i, j \in DOMAIN Parts[cmd] : Parts[cmd][i] = Parts[cmd][j] => i = j
  /\ Parts["flush"] # <<>> /\ Head(Parts["flush"]) = "clear" /\ Tail(Parts["flush"]) = <<>>
<1>1. ASSUME NEW cmd \in DOMAIN Parts, cmd # "inc_credit_summa"
      PROVE  Parts[cmd] = <<>> \/ \E p \in Part : Parts[cmd] = <<p>>
  BY <1>1 DEF Parts, Part, systemnote, sysmsg, set_topic, chat_exit, flush, klap_channel
<1>2. Parts["inc_credit_summa"] = <<"summa", "note", "told">>
  BY DEF Parts, inc_credit_summa
<1>3. Parts["flush"] = <<"clear">>
  BY DEF Parts, flush
<1>4. DOMAIN Parts = {"inc_credit_summa", "systemnote", "sysmsg", "set_topic", "chat_exit", "flush",
                      "klap_channel", "invalid"}
  BY DEF Parts
<1>5. ASSUME NEW cmd \in DOMAIN Parts
      PROVE  /\ Parts[cmd] \in Seq(Part)
             /\ \A i, j \in DOMAIN Parts[cmd] : Parts[cmd][i] = Parts[cmd][j] => i = j
  <2>1. CASE cmd = "inc_credit_summa"
    <3> DEFINE s == <<"summa", "note", "told">>
    <3>1. s \in Seq(Part)
      BY DEF Part
    <3>2. \A i, j \in 1..3 : s[i] = s[j] => i = j
      OBVIOUS
    <3>3. DOMAIN s = 1..3 /\ Parts[cmd] = s
      BY <1>2, <2>1
    <3> HIDE DEF s
    <3> QED
      BY <3>1, <3>2, <3>3
  <2>2. CASE Parts[cmd] = <<>>
    BY <2>2
  <2>3. CASE \E p \in Part : Parts[cmd] = <<p>>
    BY <2>3
  <2> QED
    BY <1>1, <2>1, <2>2, <2>3
<1> QED
  BY <1>3, <1>4, <1>5

LEMMA RowsAreAsked ==
  ASSUME ExtInv
  PROVE  \A e \in x_table : e \in 1..Len(x_asked) /\ e \in RowId /\ x_asked[e] \in DOMAIN Parts
<1>1. /\ x_asked \in Seq(DOMAIN Parts) /\ Len(x_asked) <= MaxEvents /\ Len(x_asked) \in Nat
      /\ x_table \subseteq 1..Len(x_asked) /\ MaxEvents \in Nat
  BY DEF ExtInv, ExtTypeOK
<1> QED
  BY <1>1

LEMMA ExtInitKeeps == ExtEventsInit => ExtInv
<1> SUFFICES ASSUME ExtEventsInit PROVE ExtInv
  OBVIOUS
<1> USE DEF ExtEventsInit
<1>1. ExtTypeOK
  <2>1. x_done \in [RowId -> [Part -> Nat]]
    OBVIOUS
  <2>2. <<>> \in Seq(DOMAIN Parts) /\ <<>> \in Seq(x_table) /\ <<>> \in Seq(Part) /\ Len(<<>>) = 0
    OBVIOUS
  <2> QED
    BY <2>1, <2>2 DEF ExtTypeOK
<1>2. LoopInv /\ NotYet /\ DoneOrLeft
  BY DEF LoopInv, NotYet, DoneOrLeft, Current
<1>3. ReadFresh /\ DoneOnce /\ NoneForgotten
  BY DEF ReadFresh, DoneOnce, NoneForgotten
<1> QED
  BY <1>1, <1>2, <1>3 DEF ExtInv

\* A new row is asked for.
LEMMA InsertEventKeeps ==
  ASSUME ExtInv, NEW cmd \in DOMAIN Parts, insert_event(cmd)
  PROVE  ExtInv'
<1> USE DEF insert_event
<1> DEFINE n == Len(x_asked)
<1>1. /\ x_asked \in Seq(DOMAIN Parts) /\ n \in Nat /\ n + 1 \in RowId /\ n + 1 <= MaxEvents
      /\ x_asked' = Append(x_asked, cmd) /\ Len(x_asked') = n + 1
      /\ \A e \in 1..n : x_asked'[e] = x_asked[e]
      /\ x_asked'[n + 1] = cmd
      /\ x_table' = x_table \cup {n + 1} /\ x_table \subseteq 1..n /\ n + 1 \notin 1..n
      /\ x_rows \in Seq(x_table)
  BY DEF ExtInv, ExtTypeOK
<1>2. x_asked' \in Seq(DOMAIN Parts)
  BY <1>1
<1>3. x_rows # <<>> => Head(x_rows) \in 1..n
  BY <1>1, FirstOfSeq
<1> HIDE DEF n
<1>4. ExtTypeOK'
  <2>1. x_rows' \in Seq(x_table')
    BY <1>1
  <2> QED
    BY <1>1, <1>2, <2>1 DEF ExtInv, ExtTypeOK
<1>5. LoopInv'
  BY <1>1, <1>3 DEF ExtInv, LoopInv
<1>6. NotYet'
  <2>1. \A e \in RowId : (e \notin 1..(n + 1) => e \notin 1..n) /\ (e \in x_table' => e \in x_table \/ e \notin 1..n)
    BY <1>1
  <2> QED
    BY <1>1, <2>1 DEF ExtInv, NotYet, Current, n
<1>7. DoneOrLeft'
  <2>1. \A e : Current(e)' = Current(e) /\ (Current(e) => e \in 1..n)
    BY <1>3 DEF Current
  <2> QED
    BY <1>1, <2>1 DEF ExtInv, DoneOrLeft, n
<1>8. ReadFresh'
  <2>1. ASSUME ~ FlushWaits' PROVE ~ FlushWaits
    <3>1. cmd # "flush" /\ ~ x_writer
      <4>1. ~ Current(n + 1)
        BY <1>1, <1>3 DEF Current
      <4> QED
        BY <1>1, <2>1, <4>1 DEF FlushWaits, Current
    <3> QED
      BY <1>1, <2>1, <3>1 DEF FlushWaits, Current
  <2> QED
    BY <2>1 DEF ExtInv, ReadFresh
<1>9. DoneOnce'
  BY DEF ExtInv, DoneOnce
<1>10. NoneForgotten'
  <2>1. DOMAIN x_asked' = 1..(n + 1) /\ DOMAIN x_asked = 1..n
    BY <1>1, <1>2 DEF n
  <2>2. \A e \in 1..(n + 1) : e = n + 1 \/ e \in 1..n
    BY <1>1
  <2> QED
    BY <1>1, <2>1, <2>2 DEF ExtInv, NoneForgotten
<1> QED
  BY <1>4, <1>5, <1>6, <1>7, <1>8, <1>9, <1>10 DEF ExtInv

\* The profile is changed, read or kept.
LEMMA ProfileKeeps ==
  ASSUME ExtInv, update_profile \/ load_profile \/ keep_profile \/ user_comes_or_goes
  PROVE  ExtInv'
<1>1. UNCHANGED <<x_table, x_asked, loopVars, historyVars, x_old>>
  BY DEF update_profile, load_profile, keep_profile, user_comes_or_goes
<1>2. ExtTypeOK'
  <2>1. x_stored' \in Nat /\ x_cache' \in Nat /\ x_load' \in Nat
    <3>1. x_stored \in Nat /\ x_cache \in Nat /\ x_load \in Nat
      BY DEF ExtInv, ExtTypeOK
    <3> QED
      BY <3>1 DEF update_profile, load_profile, keep_profile, user_comes_or_goes
  <2> QED
    BY <1>1, <2>1 DEF ExtInv, ExtTypeOK
<1>3. LoopInv' /\ NotYet' /\ DoneOrLeft' /\ DoneOnce' /\ NoneForgotten'
  <2>1. LoopInv' = LoopInv /\ NotYet' = NotYet
    BY <1>1 DEF LoopInv, NotYet, Current
  <2>2. DoneOrLeft' = DoneOrLeft /\ DoneOnce' = DoneOnce /\ NoneForgotten' = NoneForgotten
    BY <1>1 DEF DoneOrLeft, DoneOnce, NoneForgotten, Current
  <2> QED
    BY <2>1, <2>2 DEF ExtInv
<1>4. ReadFresh'
  <2>1. (\E e \in x_table : x_asked[e] = "flush" /\ ~ (Current(e) /\ x_todo = <<>>))'
          = \E e \in x_table : x_asked[e] = "flush" /\ ~ (Current(e) /\ x_todo = <<>>)
    BY <1>1 DEF Current
  <2> QED
    BY <1>1, <2>1 DEF update_profile, load_profile, keep_profile, user_comes_or_goes, ExtInv, ReadFresh, FlushWaits
<1> QED
  BY <1>2, <1>3, <1>4 DEF ExtInv

\* The rows are read, in some order.
LEMMA SelectEventsKeeps ==
  ASSUME ExtInv, select_events
  PROVE  ExtInv'
<1> USE DEF select_events
<1>1. PICK rows \in SetToSeqs(x_table) : x_rows' = rows /\ x_todo' = Parts[x_asked[Head(rows)]]
  OBVIOUS
<1>2. /\ rows \in Seq(x_table) /\ rows # <<>>
      /\ \A i, j \in DOMAIN rows : rows[i] = rows[j] => i = j
  <2>1. IsFiniteSet(x_table) /\ x_table # {}
    <3>1. Len(x_asked) \in Nat /\ x_table \subseteq 1..Len(x_asked) /\ x_table # {}
      BY DEF ExtInv, ExtTypeOK
    <3>2. IsFiniteSet(1..Len(x_asked))
      BY <3>1, FS_Interval
    <3> QED
      BY <3>1, <3>2, FS_Subset
  <2>2. Cardinality(x_table) \in Nat /\ Cardinality(x_table) # 0
    BY <2>1, FS_EmptySet, FS_CardinalityType
  <2> DEFINE n == Cardinality(x_table)
  <2>3. rows \in [1..n -> x_table] /\ \A i, j \in 1..n : i # j => rows[i] # rows[j]
    BY <1>1 DEF SetToSeqs
  <2> HIDE DEF n
  <2>4. n \in Nat /\ n # 0
    BY <2>2 DEF n
  <2> QED
    BY <2>3, <2>4
<1> DEFINE e == Head(rows)
<1>3. e \in x_table /\ e \in 1..Len(x_asked) /\ e \in RowId /\ x_asked[e] \in DOMAIN Parts
  <2>1. e \in x_table
    BY <1>2, FirstOfSeq
  <2> HIDE DEF e
  <2> QED
    BY <2>1, RowsAreAsked
<1>4. \A x : Current(x)' <=> x = e
  BY <1>1, <1>2 DEF Current
<1>5. \A x : ~ Current(x)
  BY DEF Current
<1>6. x_todo' = Parts[x_asked[e]] /\ x_todo' \in Seq(Part)
      /\ (\A i, j \in DOMAIN x_todo' : x_todo'[i] = x_todo'[j] => i = j)
      /\ (x_asked[e] = "flush" => x_todo' # <<>> /\ Head(x_todo') = "clear" /\ Tail(x_todo') = <<>>)
  BY <1>1, <1>3, PartsType
<1> HIDE DEF e
<1>7. ExtTypeOK'
  BY <1>1, <1>2, <1>6 DEF ExtInv, ExtTypeOK
<1>8. LoopInv'
  BY <1>1, <1>2, <1>6 DEF LoopInv, e
<1>9. NotYet'
  <2>1. ASSUME e \notin x_again PROVE \A p \in Part : x_done[e][p] = 0
    BY <1>3, <1>5, <2>1 DEF ExtInv, NotYet
  <2>2. \A i \in DOMAIN x_todo' : x_todo'[i] \in Part
    BY <1>6
  <2> QED
    BY <1>4, <1>5, <2>1, <2>2 DEF ExtInv, NotYet
<1>10. DoneOrLeft'
  BY <1>4, <1>6 DEF DoneOrLeft
<1>11. ReadFresh'
  BY <1>3, <1>4, <1>5, <1>6 DEF ExtInv, ReadFresh, FlushWaits
<1>12. DoneOnce' /\ NoneForgotten'
  BY DEF ExtInv, DoneOnce, NoneForgotten
<1> QED
  BY <1>7, <1>8, <1>9, <1>10, <1>11, <1>12 DEF ExtInv

\* What is left of the current row when its first part is gone.
LEMMA NextPart ==
  ASSUME ExtInv, x_todo # <<>>
  PROVE  /\ x_rows # <<>> /\ Head(x_rows) \in x_table
         /\ Head(x_rows) \in 1..Len(x_asked) /\ Head(x_rows) \in RowId
         /\ Head(x_todo) \in Part /\ Tail(x_todo) \in Seq(Part)
         /\ \A i \in DOMAIN Tail(x_todo) : Tail(x_todo)[i] # Head(x_todo)
         /\ \A i \in DOMAIN Tail(x_todo) : \E j \in DOMAIN x_todo : Tail(x_todo)[i] = x_todo[j]
         /\ \A i, j \in DOMAIN Tail(x_todo) : Tail(x_todo)[i] = Tail(x_todo)[j] => i = j
         /\ \A j \in DOMAIN x_todo :
              x_todo[j] = Head(x_todo) \/ \E i \in DOMAIN Tail(x_todo) : Tail(x_todo)[i] = x_todo[j]
         /\ Head(x_rows) \notin x_again => x_done[Head(x_rows)][Head(x_todo)] = 0
         /\ x_asked[Head(x_rows)] = "flush" => Head(x_todo) = "clear" /\ Tail(x_todo) = <<>>
<1>1. x_rows # <<>> /\ x_rows \in Seq(x_table) /\ x_todo \in Seq(Part) /\ x_table \subseteq 1..Len(x_asked)
      /\ Len(x_asked) \in Nat /\ Len(x_asked) <= MaxEvents
  BY DEF ExtInv, LoopInv, ExtTypeOK
<1>2. Head(x_rows) \in x_table
  BY <1>1, FirstOfSeq
<1>3. Head(x_rows) \in 1..Len(x_asked) /\ Head(x_rows) \in RowId
  BY <1>2, RowsAreAsked
<1>4. /\ Head(x_todo) \in Part /\ Head(x_todo) = x_todo[1] /\ 1 \in DOMAIN x_todo
      /\ Tail(x_todo) \in Seq(Part)
      /\ \A i \in DOMAIN Tail(x_todo) : i + 1 \in DOMAIN x_todo /\ i + 1 # 1 /\ Tail(x_todo)[i] = x_todo[i + 1]
      /\ \A i \in DOMAIN x_todo : i = 1 \/ (i - 1 \in DOMAIN Tail(x_todo) /\ Tail(x_todo)[i - 1] = x_todo[i])
  BY <1>1, FirstOfSeq
<1>5. \A i, j \in DOMAIN x_todo : x_todo[i] = x_todo[j] => i = j
  BY DEF ExtInv, LoopInv
<1>6. Head(x_rows) \notin x_again => \A i \in DOMAIN x_todo : x_done[Head(x_rows)][x_todo[i]] = 0
  BY <1>1, <1>3 DEF ExtInv, NotYet, Current
<1>7. x_asked[Head(x_rows)] = "flush" => Head(x_todo) = "clear" /\ Tail(x_todo) = <<>>
  BY DEF ExtInv, LoopInv
<1> DEFINE rest == Tail(x_todo)
           first == Head(x_todo)
<1>8. /\ first = x_todo[1] /\ 1 \in DOMAIN x_todo
      /\ \A i \in DOMAIN rest : i \in Int /\ i + 1 \in DOMAIN x_todo /\ i + 1 # 1 /\ rest[i] = x_todo[i + 1]
      /\ \A i \in DOMAIN x_todo : i = 1 \/ (i - 1 \in DOMAIN rest /\ rest[i - 1] = x_todo[i])
  BY <1>4
<1> HIDE DEF rest, first
<1>9. /\ \A i \in DOMAIN rest : rest[i] # first
      /\ \A i \in DOMAIN rest : \E j \in DOMAIN x_todo : rest[i] = x_todo[j]
      /\ \A i, j \in DOMAIN rest : rest[i] = rest[j] => i = j
      /\ \A j \in DOMAIN x_todo : x_todo[j] = first \/ \E i \in DOMAIN rest : rest[i] = x_todo[j]
  BY <1>5, <1>8
<1> QED
  BY <1>1, <1>2, <1>3, <1>4, <1>6, <1>7, <1>9 DEF rest, first

\* A part of the current row is done.
LEMMA PartKeeps ==
  ASSUME ExtInv, do_part
  PROVE  ExtInv'
<1> USE DEF do_part
<1> DEFINE e == Head(x_rows)
           p == Head(x_todo)
           rest == Tail(x_todo)
           n == IF Reaches(p) THEN 1 ELSE 0
<1>1. /\ x_rows # <<>> /\ e \in x_table /\ e \in 1..Len(x_asked) /\ e \in RowId
      /\ p \in Part /\ rest \in Seq(Part)
      /\ \A i \in DOMAIN rest : rest[i] # p
      /\ \A i, j \in DOMAIN rest : rest[i] = rest[j] => i = j
      /\ \A j \in DOMAIN x_todo : x_todo[j] = p \/ \E i \in DOMAIN rest : rest[i] = x_todo[j]
      /\ e \notin x_again => x_done[e][p] = 0
      /\ x_asked[e] = "flush" => p = "clear" /\ rest = <<>>
  BY NextPart
<1>2. \A i \in DOMAIN rest : \E j \in DOMAIN x_todo : rest[i] = x_todo[j]
  BY NextPart
<1>3. n \in {0, 1} /\ (p \notin {"told", "topic"} => n = 1)
  BY DEF Reaches
<1>4. x_done \in [RowId -> [Part -> Nat]] /\ \A x \in RowId, q \in Part : x_done[x][q] \in Nat
  BY DEF ExtInv, ExtTypeOK
<1>5. /\ x_done' = [x_done EXCEPT ![e][p] = @ + n]
      /\ x_todo' = rest
      /\ UNCHANGED <<x_table, x_asked, x_writer, x_rows, x_stored, x_load, x_failed, x_again>>
      /\ x_cache' = Cleared(p) /\ x_old' = IF p = "clear" THEN x_load # 0 ELSE x_old
  OBVIOUS
<1> HIDE DEF e, p, rest, n, do_part
<1>6. x_done[e][p] + n \in Nat /\ (n = 1 => x_done[e][p] + n > 0)
  BY <1>1, <1>3, <1>4
<1>7. /\ x_done' \in [RowId -> [Part -> Nat]]
      /\ \A x \in RowId, q \in Part : x_done'[x][q] = IF x = e /\ q = p THEN x_done[e][p] + n ELSE x_done[x][q]
  BY <1>1, <1>4, <1>5, <1>6
<1>8. \A x : Current(x)' = Current(x) /\ (Current(x) <=> x = e)
  BY <1>1, <1>5 DEF Current, e
<1>9. ExtTypeOK'
  <2>1. x_cache' \in Nat
    BY <1>5 DEF Cleared, ExtInv, ExtTypeOK
  <2> QED
    BY <1>1, <1>5, <1>7, <2>1 DEF ExtInv, ExtTypeOK
<1>10. LoopInv'
  <2>1. x_asked[e] = "flush" => rest = <<>>
    BY <1>1
  <2> QED
    BY <1>1, <1>5, <2>1 DEF ExtInv, LoopInv, e
<1>11. NotYet'
  <2>1. ASSUME NEW x \in RowId \ x_again, x \notin 1..Len(x_asked) \/ (x \in x_table /\ ~ Current(x)), NEW q \in Part
        PROVE  x_done'[x][q] = 0
    <3>1. x_done[x][q] = 0
      BY <2>1 DEF ExtInv, NotYet
    <3>2. x # e
      BY <1>1, <1>8, <2>1
    <3> QED
      BY <1>7, <3>1, <3>2
  <2>2. ASSUME e \notin x_again, NEW i \in DOMAIN rest PROVE x_done'[e][rest[i]] = 0
    <3>1. PICK j \in DOMAIN x_todo : rest[i] = x_todo[j]
      BY <1>2
    <3>2. x_done[e][x_todo[j]] = 0
      BY <1>1, <1>8, <2>2 DEF ExtInv, NotYet
    <3>3. rest[i] \in Part /\ rest[i] # p
      BY <1>1
    <3> QED
      BY <1>1, <1>7, <3>1, <3>2, <3>3
  <2> QED
    BY <1>5, <1>8, <2>1, <2>2 DEF NotYet
<1>12. DoneOrLeft'
  <2> SUFFICES ASSUME e \notin x_failed, NEW i \in DOMAIN Parts[x_asked[e]], Parts[x_asked[e]][i] \notin {"told", "topic"}
               PROVE  \/ x_done'[e][Parts[x_asked[e]][i]] > 0
                      \/ \E j \in DOMAIN rest : rest[j] = Parts[x_asked[e]][i]
    BY <1>5, <1>8 DEF DoneOrLeft
  <2> DEFINE q == Parts[x_asked[e]][i]
  <2>1. q \in Part
    BY <1>1, PartsType, RowsAreAsked
  <2>2. x_done[e][q] > 0 \/ \E j \in DOMAIN x_todo : x_todo[j] = q
    BY <1>1, <1>8 DEF ExtInv, DoneOrLeft
  <2> HIDE DEF q
  <2>3. CASE q = p
    BY <1>1, <1>3, <1>6, <1>7, <2>3 DEF q
  <2>4. CASE q # p
    BY <1>1, <1>7, <2>1, <2>2, <2>4 DEF q
  <2> QED
    BY <2>3, <2>4
<1>13. ReadFresh'
  <2>1. CASE p = "clear"
    BY <1>5, <2>1 DEF Cleared, ReadFresh
  <2>2. CASE p # "clear"
    <3>1. x_cache' = x_cache /\ x_old' = x_old
      BY <1>5, <2>2 DEF Cleared
    <3>2. FlushWaits' = FlushWaits
      BY <1>1, <1>5, <1>8, <2>2 DEF FlushWaits
    <3> QED
      BY <1>5, <3>1, <3>2 DEF ExtInv, ReadFresh
  <2> QED
    BY <2>1, <2>2
<1>14. DoneOnce'
  BY <1>1, <1>3, <1>5, <1>7 DEF ExtInv, DoneOnce
<1>15. NoneForgotten'
  <2> SUFFICES ASSUME NEW x \in DOMAIN x_asked \ (x_table \cup x_failed), NEW i \in DOMAIN Parts[x_asked[x]]
               PROVE  Parts[x_asked[x]][i] \in {"told", "topic"} \/ x_done'[x][Parts[x_asked[x]][i]] > 0
    BY <1>5 DEF NoneForgotten
  <2>1. x # e /\ x \in RowId /\ Parts[x_asked[x]][i] \in Part
    <3>1. /\ x_asked \in Seq(DOMAIN Parts) /\ Len(x_asked) <= MaxEvents /\ Len(x_asked) \in Nat /\ MaxEvents \in Nat
      BY DEF ExtInv, ExtTypeOK
    <3>2. x \in RowId /\ x_asked[x] \in DOMAIN Parts
      BY <3>1
    <3>3. Parts[x_asked[x]] \in Seq(Part)
      BY <3>2, PartsType
    <3>4. Parts[x_asked[x]][i] \in Part
      BY <3>3
    <3> QED
      BY <1>1, <3>2, <3>4
  <2> QED
    BY <1>7, <2>1 DEF ExtInv, NoneForgotten
<1> QED
  BY <1>9, <1>10, <1>11, <1>12, <1>13, <1>14, <1>15 DEF ExtInv

\* A query of a part fails.
LEMMA FailureKeeps ==
  ASSUME ExtInv, part_fails
  PROVE  ExtInv'
<1> USE DEF part_fails
<1> DEFINE e == Head(x_rows)
           rest == Tail(x_todo)
<1>1. /\ x_rows # <<>> /\ e \in x_table
      /\ rest \in Seq(Part)
      /\ \A i, j \in DOMAIN rest : rest[i] = rest[j] => i = j
      /\ x_asked[e] # "flush"
  BY NextPart
<1>2. \A i \in DOMAIN rest : \E j \in DOMAIN x_todo : rest[i] = x_todo[j]
  BY NextPart
<1>3. /\ x_todo' \in {rest, <<>>} /\ x_failed' = x_failed \cup {e}
      /\ UNCHANGED <<x_table, x_asked, x_writer, x_rows, x_stored, x_cache, x_load, x_old, x_done, x_again>>
  OBVIOUS
<1> HIDE DEF e, rest, part_fails
<1>4. \A x : Current(x)' = Current(x) /\ (Current(x) <=> x = e)
  BY <1>1, <1>3 DEF Current, e
<1>5. ExtTypeOK'
  <2>1. rest \in Seq(Part) /\ (x_todo' = rest \/ x_todo' = <<>>)
    BY <1>1, <1>3
  <2>2. x_todo' \in Seq(Part)
    <3>1. CASE x_todo' = rest
      BY <2>1, <3>1
    <3>2. CASE x_todo' = <<>>
      BY <3>2
    <3> QED
      BY <2>1, <3>1, <3>2
  <2> QED
    BY <1>3, <2>2 DEF ExtInv, ExtTypeOK
<1>6. LoopInv'
  BY <1>1, <1>3 DEF ExtInv, LoopInv, e
<1>7. NotYet'
  <2>1. ASSUME NEW x \in RowId \ x_again, Current(x), NEW i \in DOMAIN x_todo'
        PROVE  x_done[x][x_todo'[i]] = 0
    <3>1. PICK j \in DOMAIN x_todo : x_todo'[i] = x_todo[j]
      BY <1>2, <1>3
    <3> QED
      BY <2>1, <3>1 DEF ExtInv, NotYet
  <2> QED
    BY <1>3, <1>4, <2>1 DEF ExtInv, NotYet
<1>8. DoneOrLeft'
  BY <1>3, <1>4 DEF DoneOrLeft
<1>9. ReadFresh'
  <2>1. FlushWaits' = FlushWaits
    BY <1>1, <1>3, <1>4 DEF FlushWaits
  <2> QED
    BY <1>3, <2>1 DEF ExtInv, ReadFresh
<1>10. DoneOnce' /\ NoneForgotten'
  BY <1>3 DEF ExtInv, DoneOnce, NoneForgotten
<1> QED
  BY <1>5, <1>6, <1>7, <1>8, <1>9, <1>10 DEF ExtInv

\* The current row, done, is deleted.
LEMMA DeleteEventKeeps ==
  ASSUME ExtInv, delete_event
  PROVE  ExtInv'
<1> USE DEF delete_event, Deleted
<1> DEFINE e == Head(x_rows)
           rows == Tail(x_rows)
<1>1. /\ x_rows \in Seq(x_table) /\ x_rows # <<>> /\ x_todo = <<>>
      /\ \A i, j \in DOMAIN x_rows : x_rows[i] = x_rows[j] => i = j
  BY DEF ExtInv, ExtTypeOK, LoopInv
<1>2. /\ e \in x_table /\ rows \in Seq(x_table)
      /\ \A i \in DOMAIN rows : rows[i] # e
      /\ \A i, j \in DOMAIN rows : rows[i] = rows[j] => i = j
  <2>1. /\ e \in x_table /\ e = x_rows[1] /\ 1 \in DOMAIN x_rows /\ rows \in Seq(x_table)
        /\ \A i \in DOMAIN rows : i \in Int /\ i + 1 \in DOMAIN x_rows /\ i + 1 # 1 /\ rows[i] = x_rows[i + 1]
    BY <1>1, FirstOfSeq
  <2> HIDE DEF e, rows
  <2> QED
    BY <1>1, <2>1
<1>3. /\ x_table' = x_table \ {e} /\ x_rows' = rows
      /\ x_todo' = IF rows = <<>> THEN <<>> ELSE Parts[x_asked[Head(rows)]]
      /\ UNCHANGED <<x_asked, x_writer, profileVars, x_done, x_failed, x_again>>
  OBVIOUS
<1> HIDE DEF rows, delete_event, Deleted
<1>4. \A x : (Current(x) <=> x = e) /\ (Current(x)' <=> rows # <<>> /\ x = Head(rows))
  BY <1>1, <1>3 DEF Current
<1> HIDE DEF e
<1>5. rows \in Seq(x_table \ {e})
  BY <1>2
<1>6. rows # <<>> => /\ Head(rows) \in x_table \ {e}
                     /\ x_todo' = Parts[x_asked[Head(rows)]] /\ x_todo' \in Seq(Part)
                     /\ \A i, j \in DOMAIN x_todo' : x_todo'[i] = x_todo'[j] => i = j
                     /\ x_asked[Head(rows)] = "flush" => x_todo' # <<>> /\ Head(x_todo') = "clear" /\ Tail(x_todo') = <<>>
  <2>1. rows # <<>> => Head(rows) \in x_table \ {e}
    BY <1>5, FirstOfSeq
  <2>2. rows # <<>> => x_asked[Head(rows)] \in DOMAIN Parts
    BY <2>1, RowsAreAsked
  <2> QED
    BY <1>3, <2>1, <2>2, PartsType
<1>7. ExtTypeOK'
  <2>1. x_todo' \in Seq(Part)
    BY <1>3, <1>6
  <2> QED
    BY <1>3, <1>5, <2>1 DEF ExtInv, ExtTypeOK
<1>8. LoopInv'
  BY <1>2, <1>3, <1>6 DEF LoopInv
<1>9. NotYet'
  <2>1. ASSUME rows # <<>>, Head(rows) \notin x_again, NEW p \in Part PROVE x_done[Head(rows)][p] = 0
    <3>1. Head(rows) \in RowId /\ Head(rows) \in x_table /\ ~ Current(Head(rows))
      BY <1>4, <1>6, <2>1, RowsAreAsked
    <3> QED
      BY <2>1, <3>1 DEF ExtInv, NotYet
  <2>2. rows # <<>> => \A i \in DOMAIN x_todo' : x_todo'[i] \in Part
    BY <1>6
  <2>3. \A x \in x_table' : x \in x_table /\ ~ Current(x)
    BY <1>3, <1>4
  <2> QED
    BY <1>3, <1>4, <2>1, <2>2, <2>3 DEF ExtInv, NotYet
<1>10. DoneOrLeft'
  BY <1>3, <1>4, <1>6 DEF DoneOrLeft
<1>11. ReadFresh'
  <2>1. ASSUME FlushWaits PROVE FlushWaits'
    <3>1. CASE x_writer
      BY <1>3, <3>1 DEF FlushWaits
    <3>2. CASE \E x \in x_table : x_asked[x] = "flush" /\ ~ (Current(x) /\ x_todo = <<>>)
      <4>1. PICK x \in x_table : x_asked[x] = "flush" /\ ~ (Current(x) /\ x_todo = <<>>)
        BY <3>2
      <4>2. x \in x_table' /\ ~ (Current(x)' /\ x_todo' = <<>>)
        BY <1>1, <1>3, <1>4, <1>6, <4>1
      <4> QED
        BY <1>3, <4>1, <4>2 DEF FlushWaits
    <3> QED
      BY <2>1, <3>1, <3>2 DEF FlushWaits
  <2> QED
    BY <1>3, <2>1 DEF ExtInv, ReadFresh
<1>12. DoneOnce'
  BY <1>3 DEF ExtInv, DoneOnce
<1>13. NoneForgotten'
  <2>1. ASSUME e \notin x_failed
        PROVE  \A i \in DOMAIN Parts[x_asked[e]] :
                 Parts[x_asked[e]][i] \in {"told", "topic"} \/ x_done[e][Parts[x_asked[e]][i]] > 0
    <3>1. e \in 1..Len(x_asked)
      BY <1>2, RowsAreAsked
    <3> QED
      BY <1>1, <1>4, <2>1, <3>1 DEF ExtInv, DoneOrLeft
  <2> QED
    BY <1>3, <2>1 DEF ExtInv, NoneForgotten
<1> QED
  BY <1>7, <1>8, <1>9, <1>10, <1>11, <1>12, <1>13 DEF ExtInv

\* The deletion fails, or the server is started again: the rows that are left
\* are read again.
LEMMA AgainKeeps ==
  ASSUME ExtInv, delete_fails \/ restart
  PROVE  ExtInv'
<1>1. /\ x_rows' = <<>> /\ x_todo' = <<>>
      /\ UNCHANGED <<x_table, x_asked, x_writer, x_stored, x_done, x_failed>>
  BY DEF delete_fails, restart
<1>2. x_again' = x_again \cup {x \in {Head(x_rows)} : x_rows # <<>>}
  BY DEF delete_fails, restart
<1>3. \/ UNCHANGED <<x_cache, x_load, x_old>> /\ x_todo = <<>>
      \/ x_cache' = 0 /\ x_load' = 0
  BY DEF delete_fails, restart
<1>4. \A x : ~ Current(x)' /\ (x \notin x_again' => ~ Current(x))
  BY <1>1, <1>2 DEF Current
<1>5. ExtTypeOK'
  <2>1. x_rows' \in Seq(x_table') /\ x_todo' \in Seq(Part)
    BY <1>1
  <2>2. x_cache' \in Nat /\ x_load' \in Nat
    BY <1>3 DEF ExtInv, ExtTypeOK
  <2> QED
    BY <1>1, <2>1, <2>2 DEF ExtInv, ExtTypeOK
<1>6. LoopInv' /\ DoneOrLeft'
  BY <1>1, <1>4 DEF LoopInv, DoneOrLeft
<1>7. NotYet'
  BY <1>1, <1>2, <1>4 DEF ExtInv, NotYet
<1>8. ReadFresh'
  <2>1. FlushWaits => FlushWaits'
    BY <1>1, <1>4 DEF FlushWaits
  <2> QED
    BY <1>1, <1>3, <2>1 DEF ExtInv, ReadFresh
<1>9. DoneOnce' /\ NoneForgotten'
  BY <1>1, <1>2 DEF ExtInv, DoneOnce, NoneForgotten
<1> QED
  BY <1>5, <1>6, <1>7, <1>8, <1>9 DEF ExtInv

LEMMA ExtNextKeeps == ExtInv /\ [ExtEventsNext]_extVars => ExtInv'
<1> SUFFICES ASSUME ExtInv, [ExtEventsNext]_extVars PROVE ExtInv'
  OBVIOUS
<1>1. CASE UNCHANGED extVars
  <2>1. ExtTypeOK' = ExtTypeOK /\ LoopInv' = LoopInv /\ NotYet' = NotYet
    BY <1>1 DEF extVars, ExtTypeOK, LoopInv, NotYet, Current
  <2>2. DoneOrLeft' = DoneOrLeft /\ DoneOnce' = DoneOnce /\ NoneForgotten' = NoneForgotten
    BY <1>1 DEF extVars, DoneOrLeft, DoneOnce, NoneForgotten, Current
  <2>3. ReadFresh' = ReadFresh
    BY <1>1 DEF extVars, ReadFresh, FlushWaits, Current
  <2> QED
    BY <2>1, <2>2, <2>3 DEF ExtInv
<1>2. CASE ExtEventsNext
  BY <1>2, SelectEventsKeeps, PartKeeps, DeleteEventKeeps, FailureKeeps, AgainKeeps, InsertEventKeeps,
     ProfileKeeps DEF ExtEventsNext, iterate_ext_events
<1> QED
  BY <1>1, <1>2

\* What every state of the requests of other programs satisfies.
THEOREM ExtInvariant == ExtEventsSpec => []ExtInv
BY ExtInitKeeps, ExtNextKeeps, PTL DEF ExtEventsSpec

\* What other programs ask for is done, and once, over failing queries and
\* restarts, but for those the property names.
THEOREM AskedIsDone == ExtEventsSpec => []EventsDone
<1>1. ExtInv => EventsDone
  BY DEF ExtInv, EventsDone
<1> QED
  BY <1>1, ExtInvariant, PTL

\* A profile that was flushed is read anew.
THEOREM FlushWorks == ExtEventsSpec => []FlushedIsFresh
<1>1. ExtInv => FlushedIsFresh
  BY DEF ExtInv, ReadFresh, FlushWaits, FlushedIsFresh
<1> QED
  BY <1>1, ExtInvariant, PTL
=============================================================================
