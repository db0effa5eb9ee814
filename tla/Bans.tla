-------------------------------- MODULE Bans ---------------------------------
(* Bans of logins, addresses and nicks, and kicks: the administrators' pages  *)
(* and commands, which select from a table and then write it, against users   *)
(* who log in through IRC, which looks at the same tables one after another.  *)
(*                                                                            *)
(* Every user has one address and one nick.  Bans do not end by themselves:   *)
(* time_free is written and read by nothing here.  (A web login does not look *)
(* at bans at all: create_reg_user is called with a session PHP has checked.) *)
EXTENDS Integers, FiniteSets

CONSTANTS
  Admin,        \* users with the privilege $oldban
  Victim,       \* other users
  Level,        \* user -> user_profile::level, in hundreds
  Ability,      \* user -> kick_ability of the level
  Shield,       \* user -> kick_shield of the level
  MaxBans       \* pages asked for (bound)

Users == Admin \cup Victim
Nobody == "nobody"

ASSUME BansAssumption ==
  /\ Level \in [Users -> 0..10]
  /\ MaxBans \in Nat
  /\ Nobody \notin Users

am_guard == 7
am_spy == 8
am_admin == 9
am_sadmin == 10

VARIABLES
  b_rows,      \* banned_login, banned_ip, and the nicks of nobody in nicks
  b_nick,      \* nicks: whether the user's is banned, and by whom
  b_cache,     \* nick_vecs: the user's object: "none", or has it the nick
  b_load,      \* a thread that loads the object: "no", or has what it read
  b_irc,       \* the user's IRC login: "out", what it looks at next, or "in"
  b_kicks,     \* KICK_USER events under way
  b_job,       \* what each administrator's thread is doing
  b_asked,
  b_slipped,   \* banned when their login had looked already (history)
  b_twice,     \* what two administrators were adding at a time (history)
  b_old        \* nicks read from the table before they were banned (history)

bansVars ==
  <<b_rows, b_nick, b_cache, b_load, b_irc, b_kicks, b_job, b_asked, b_slipped, b_twice, b_old>>
banHistoryVars == <<b_slipped, b_twice, b_old>>

\* what: the table; of: whom; how: a page of the administration ("page"), a
\* menu of the chat ("chat"), an event of another program ("event").  row: the
\* id of the row that will be added or is to be deleted.
NoJob == [at |-> "idle", what |-> "none", of |-> Nobody, how |-> "page", row |-> 0]

BansInit ==
  /\ b_rows = {}
  /\ b_nick = [u \in Users |-> [banned |-> FALSE, by |-> Nobody]]
  /\ b_cache = [u \in Victim |-> "none"]
  /\ b_load = [u \in Victim |-> "no"]
  /\ b_irc = [u \in Victim |-> "out"]
  /\ b_kicks = {}
  /\ b_job = [a \in Admin |-> NoJob]
  /\ b_asked = 0
  /\ b_slipped = {} /\ b_twice = {} /\ b_old = {}
-----------------------------------------------------------------------------
(* The tables.                                                               *)

Rows(what, u) == {r \in b_rows : r.what = what /\ r.of = u}

At(a, step) == b_job[a].at = step
Does(a, what) == b_job[a].what = what
Proceeds(a, step) == b_job' = [b_job EXCEPT ![a].at = step]
Ends(a) == b_job' = [b_job EXCEPT ![a] = NoJob]

\* Mutant: a ban from the chat leaves the user there.
AfterBan_stays(a) == IF Does(a, "nick") THEN "cache" ELSE "idle"

\* What comes after the ban: from the chat, the user is kicked whatever came of
\* it; a nick is taken from the cache, and the user kicked, by do_nickban.
AfterBan(a) ==
  IF Does(a, "nick") THEN "cache" ELSE IF b_job[a].how = "chat" THEN "kick" ELSE "idle"

\* The administrator's level as it is compared with the user's: pages and the
\* nick event divide it by sub_levels, the others do not.
Rank(a) ==
  IF b_job[a].how = "page" \/ (b_job[a].how = "event" /\ Does(a, "nick"))
  THEN Level[a] ELSE Level[a] * 100
-----------------------------------------------------------------------------
(* Banning.                                                                  *)

ask(a, step, what, u, how, row) ==
  /\ At(a, "idle")
  /\ b_asked < MaxBans /\ b_asked' = b_asked + 1
  /\ b_job' = [b_job EXCEPT ![a] = [at |-> step, what |-> what, of |-> u, how |-> how, row |-> row]]
  /\ UNCHANGED <<b_rows, b_nick, b_cache, b_load, b_irc, b_kicks, banHistoryVars>>

\* Whom the menus of the chat let an administrator of this level ban or kick.
MayKick(a, least, u) == Level[a] >= least /\ Ability[a] > Shield[u]

\* "add" of the pages; a nick may be nobody's.
url_admin_old_loginban_add(a, u) == ask(a, "select", "login", u, "page", b_asked + 1)
url_admin_old_ipban_add(a, u) == Level[a] >= am_spy /\ ask(a, "select", "ip", u, "page", b_asked + 1)
url_admin_old_nickban_add(a, u) ==
  ask(a, "select", IF u = Nobody THEN "system" ELSE "nick", u, "page", b_asked + 1)

\* The menus of the chat.
url_login_ban(a, u) == MayKick(a, 7, u) /\ ask(a, "select", "login", u, "chat", b_asked + 1)
url_ip_ban(a, u) == b_irc[u] = "in" /\ MayKick(a, 8, u) /\ ask(a, "select", "ip", u, "chat", b_asked + 1)
url_nick_ban(a, u) == MayKick(a, 7, u) /\ ask(a, "select", "nick", u, "chat", b_asked + 1)
url_kick_user(a, u) == MayKick(a, 6, u) /\ ask(a, "kick", "none", u, "chat", b_asked + 1)

\* The KICK and MODE +BN of IRC.
irc_cmd_KICK(a, u) == MayKick(a, 6, u) /\ ask(a, "kick", "none", u, "chat", b_asked + 1)
irc_cmd_MODE_BN(a, u) == ask(a, "select", "nick", u, "page", b_asked + 1)

\* ext_events: what PHP asks for, one thing at a time.
NoEvent == \A a \in Admin : b_job[a].how # "event"
ban_login_common(a, u) == NoEvent /\ ask(a, "select", "login", u, "event", b_asked + 1)
ban_ip_common(a, u) == NoEvent /\ ask(a, "select", "ip", u, "event", b_asked + 1)
ban_nick(a, u) == NoEvent /\ ask(a, "select", "nick", u, "event", b_asked + 1)

\* do_old_loginban, do_old_ipban, do_nickban: whether there is a ban already, and
\* whether the administrator may.
Banned(what, u) == IF what = "nick" THEN b_nick[u].banned ELSE Rows(what, u) # {}
Outranks(a, u) == b_job[a].what \in {"ip", "system"} \/ Rank(a) > Level[u]

select(a) ==
  LET k == b_job[a] IN
  /\ At(a, "select")
  /\ IF Banned(k.what, k.of) \/ ~Outranks(a, k.of)
     THEN IF k.how = "chat" /\ k.what # "nick" THEN Proceeds(a, "kick") ELSE Ends(a)
     ELSE Proceeds(a, "insert")
  /\ UNCHANGED <<b_rows, b_nick, b_cache, b_load, b_irc, b_kicks, b_asked, banHistoryVars>>

\* The logins that have looked at a table already.
Past(what) ==
  {u \in Victim : CASE what = "login" -> b_irc[u] \in {"ip", "enter"}
                    [] what = "ip" -> b_irc[u] = "enter"
                    [] what = "nick" -> b_irc[u] \in {"login", "ip", "enter"}
                    [] OTHER -> FALSE}

insert(a) ==
  LET k == b_job[a]
      others == {x \in Admin \ {a} : b_job[x].at = "insert" /\ b_job[x].what = k.what
                                     /\ b_job[x].of = k.of} IN
  /\ At(a, "insert")
  /\ IF k.what = "nick"
     THEN b_nick' = [b_nick EXCEPT ![k.of] = [banned |-> TRUE, by |-> a]] /\ UNCHANGED b_rows
     ELSE /\ b_rows' = b_rows \cup {[what |-> k.what, id |-> k.row, of |-> k.of, by |-> a,
                                     kicks |-> k.how = "chat"]}
          /\ UNCHANGED b_nick
  /\ IF AfterBan(a) = "idle" THEN Ends(a) ELSE Proceeds(a, AfterBan(a))
  /\ b_slipped' = b_slipped \cup (Past(k.what) \cap {k.of})
  /\ b_twice' = IF others # {} THEN b_twice \cup {<<k.what, k.of>>} ELSE b_twice
  /\ b_old' = IF k.what = "nick" /\ b_load[k.of] = "has" THEN b_old \cup {k.of} ELSE b_old
  /\ UNCHANGED <<b_cache, b_load, b_irc, b_kicks, b_asked>>

\* Mutant: the cached nicks stay as they are.
Without_not(c) == c

\* u_nicks.erase, in the object find_by_id_create finds or loads.
Without(c) == "has not"

erase_nick(a) ==
  /\ At(a, "cache")
  /\ b_cache' = [b_cache EXCEPT ![b_job[a].of] = Without(@)]
  /\ Proceeds(a, "kick")
  /\ UNCHANGED <<b_rows, b_nick, b_load, b_irc, b_kicks, b_asked, banHistoryVars>>

\* kick_user: do_nickban kicks only who is there.
kick_banned(a) ==
  LET u == b_job[a].of IN
  /\ At(a, "kick")
  /\ b_kicks' = IF Does(a, "nick") /\ b_irc[u] # "in" THEN b_kicks ELSE b_kicks \cup {u}
  /\ Ends(a)
  /\ UNCHANGED <<b_rows, b_nick, b_cache, b_load, b_irc, b_asked, banHistoryVars>>

\* The chat thread's KICK_USER.
do_user_event(u) ==
  /\ u \in b_kicks
  /\ b_kicks' = b_kicks \ {u}
  /\ b_irc' = [b_irc EXCEPT ![u] = IF @ = "in" THEN "out" ELSE @]
  /\ b_slipped' = IF b_irc[u] = "in" THEN b_slipped \ {u} ELSE b_slipped
  /\ UNCHANGED <<b_rows, b_nick, b_cache, b_load, b_job, b_asked, b_twice, b_old>>
-----------------------------------------------------------------------------
(* Lifting bans.                                                             *)

\* "remove" of the pages: who may is found with one query, the row goes with
\* another.
MayLift(a, by) == by = a \/ Level[a] = am_sadmin \/ Level[by] <= Level[a]

\* The ban of a login must be the only one: with two rows the page looks for
\* user 0 and fails.
MayLiftLogin(a, u) ==
  /\ Level[a] >= am_guard
  /\ \E r \in Rows("login", u) :
       /\ Rows("login", u) = {r}
       /\ r.by = a \/ Level[r.by] < Level[a]

url_admin_old_loginban_remove(a, u) == MayLiftLogin(a, u) /\ ask(a, "delete", "login", u, "page", b_asked + 1)

url_admin_old_ipban_remove(a, r) ==
  r.what = "ip" /\ MayLift(a, r.by) /\ ask(a, "delete", "ip", r.of, "page", r.id)

url_admin_old_nickban_remove(a, u) ==
  /\ b_nick[u].by # Nobody /\ MayLift(a, b_nick[u].by)
  /\ ask(a, "delete", "nick", u, "page", b_asked + 1)
remove_system_nick(a, r) ==
  r.what = "system" /\ MayLift(a, r.by) /\ ask(a, "delete", "system", Nobody, "page", r.id)

\* Mutant: of the bans of a login, one is taken.
Lifted_one(k) ==
  {r \in b_rows : r.what = k.what /\ r.of = k.of /\ r.by = CHOOSE x \in Admin : TRUE}

\* Logins are deleted by the user, the others by the row's id.
Lifted(k) ==
  {r \in b_rows : r.what = k.what /\ (IF k.what = "login" THEN r.of = k.of ELSE r.id = k.row)}

delete(a) ==
  LET k == b_job[a] IN
  /\ At(a, "delete")
  /\ IF k.what = "nick"
     THEN b_nick' = [b_nick EXCEPT ![k.of].banned = FALSE] /\ UNCHANGED b_rows
     ELSE b_rows' = b_rows \ Lifted(k) /\ UNCHANGED b_nick
  /\ Ends(a)
  /\ UNCHANGED <<b_cache, b_load, b_irc, b_kicks, b_asked, banHistoryVars>>
-----------------------------------------------------------------------------
(* Users.                                                                    *)

\* NICK, USER and PASS: get_pass_by_nick finds only nicks that are not banned.
get_pass_by_nick(u) ==
  /\ b_irc[u] = "out"
  /\ b_irc' = [b_irc EXCEPT ![u] = IF b_nick[u].banned THEN "out" ELSE "login"]
  /\ UNCHANGED <<b_rows, b_nick, b_cache, b_load, b_kicks, b_job, b_asked, banHistoryVars>>

looks(u, what, next) ==
  /\ b_irc' = [b_irc EXCEPT ![u] = IF Rows(what, u) # {} THEN "out" ELSE next]
  /\ b_slipped' = IF Rows(what, u) # {} THEN b_slipped \ {u} ELSE b_slipped
  /\ UNCHANGED <<b_rows, b_nick, b_cache, b_load, b_kicks, b_job, b_asked, b_twice, b_old>>

\* Administrators are not asked for their address.
select_banned_login(u) ==
  b_irc[u] = "login" /\ looks(u, "login", IF Level[u] < am_admin THEN "ip" ELSE "enter")
check_for_ipban(u) == b_irc[u] = "ip" /\ looks(u, "ip", "enter")

\* The password is right: the session, after flush_user_data.
insert_session(u) ==
  /\ b_irc[u] = "enter"
  /\ b_irc' = [b_irc EXCEPT ![u] = "in"]
  /\ b_cache' = [b_cache EXCEPT ![u] = "none"]
  /\ UNCHANGED <<b_rows, b_nick, b_load, b_kicks, b_job, b_asked, banHistoryVars>>

irc_leave(u) ==
  /\ b_irc[u] = "in"
  /\ b_irc' = [b_irc EXCEPT ![u] = "out"]
  /\ b_slipped' = b_slipped \ {u}
  /\ UNCHANGED <<b_rows, b_nick, b_cache, b_load, b_kicks, b_job, b_asked, b_twice, b_old>>

\* Any thread may want the user's nicks: load_from_db, and container.insert,
\* which keeps an object that is there.
load_nicks(u) ==
  /\ b_load[u] = "no" /\ b_cache[u] = "none"
  /\ b_load' = [b_load EXCEPT ![u] = IF b_nick[u].banned THEN "has not" ELSE "has"]
  /\ UNCHANGED <<b_rows, b_nick, b_cache, b_irc, b_kicks, b_job, b_asked, banHistoryVars>>

insert_nicks(u) ==
  /\ b_load[u] # "no"
  /\ b_cache' = [b_cache EXCEPT ![u] = IF @ = "none" THEN b_load[u] ELSE @]
  /\ b_load' = [b_load EXCEPT ![u] = "no"]
  /\ UNCHANGED <<b_rows, b_nick, b_irc, b_kicks, b_job, b_asked, banHistoryVars>>

AdminNext(a) ==
  \/ select(a) \/ insert(a) \/ erase_nick(a) \/ kick_banned(a) \/ delete(a)
  \/ url_admin_old_nickban_add(a, Nobody)
  \/ \E r \in b_rows : url_admin_old_ipban_remove(a, r) \/ remove_system_nick(a, r)
  \/ \E u \in Victim :
       \/ url_admin_old_loginban_add(a, u) \/ url_admin_old_ipban_add(a, u)
       \/ url_admin_old_nickban_add(a, u) \/ irc_cmd_MODE_BN(a, u)
       \/ url_login_ban(a, u) \/ url_ip_ban(a, u) \/ url_nick_ban(a, u)
       \/ url_kick_user(a, u) \/ irc_cmd_KICK(a, u)
       \/ ban_login_common(a, u) \/ ban_ip_common(a, u) \/ ban_nick(a, u)
       \/ url_admin_old_loginban_remove(a, u) \/ url_admin_old_nickban_remove(a, u)

UserNext(u) ==
  \/ get_pass_by_nick(u) \/ select_banned_login(u) \/ check_for_ipban(u)
  \/ insert_session(u) \/ irc_leave(u) \/ load_nicks(u) \/ insert_nicks(u)
  \/ do_user_event(u)

BansNext == (\E a \in Admin : AdminNext(a)) \/ (\E u \in Victim : UserNext(u))
BansSpec == BansInit /\ [][BansNext]_bansVars
-----------------------------------------------------------------------------
(* Properties.                                                               *)

\* Somebody is about to kick the user, or the kick is under way.
Leaving(u) ==
  u \in b_kicks \/ \E a \in Admin : b_job[a].of = u /\ b_job[a].at \in {"cache", "kick"}

\* A row that keeps the user out, and kicked them when it was made.
KeepsOut(r, u) == r.of = u /\ r.kicks /\ (r.what = "ip" => Level[u] < am_admin)

\* Who is banned from the chat's menus, or whose nick is banned, is not in the
\* chat through IRC, or is being kicked, unless the login had looked at that
\* table before the ban (url_login_ban, url_ip_ban, do_nickban, irc_server).
BannedAreOut ==
  \A u \in Victim \ b_slipped :
    b_irc[u] = "in" /\ (b_nick[u].banned \/ \E r \in b_rows : KeepsOut(r, u)) => Leaving(u)

\* A nick that is banned is not among the cached nicks of its user once the ban
\* is done, unless the nicks were being read meanwhile (do_nickban, db_var).
BannedNickGone ==
  \A u \in Victim \ b_old :
    b_nick[u].banned /\ b_cache[u] = "has" => \E a \in Admin : At(a, "cache") /\ b_job[a].of = u

\* An administrator who lifts the ban of a login leaves no such ban, and one
\* who lifts the ban of an address or a nick of nobody neither, unless two had
\* added it at a time (url_admin_old_loginban, url_admin_old_ipban).
LiftedAreFree ==
  [][\A a \in Admin :
       LET k == b_job[a]
           lifts == \/ k.what = "login"
                    \/ /\ <<k.what, k.of>> \notin b_twice
                       /\ \E r \in Rows(k.what, k.of) : r.id = k.row IN
       At(a, "delete") /\ b_job'[a].at = "idle" /\ k.what # "nick" /\ lifts
         => {r \in b_rows' : r.what = k.what /\ r.of = k.of} = {}]_bansVars

\* A ban holds for the session and for the nick.
BansHold == BannedAreOut /\ BannedNickGone
=============================================================================
