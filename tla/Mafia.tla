-------------------------------- MODULE Mafia --------------------------------
(* The mafia bot (bot/bot-mafia-new): a game of registration, dealing, nights *)
(* and days over the commands of an IRC channel.  One thread reads a line,    *)
(* handles it, and looks at its timers when there is none: each action is one *)
(* command or one timer.  A timer is abstracted to "may have run out".        *)
EXTENDS Integers, Sequences, FiniteSets, FiniteSetsExt, SequencesExt

CONSTANTS
  MaxId,      \* c_user objects made: register_counter runs up to it
  MaxMoves,   \* comings and goings observed (bound)
  MaxVotes,   \* votes cast in one vote (bound)
  MaxGames,   \* games (bound)
  W           \* scores are unsigned: they are kept modulo W

ASSUME MafiaAssumption ==
  /\ {MaxId, MaxMoves, MaxVotes, MaxGames} \subseteq Nat
  /\ W \in Nat \ {0}

Player == 1..MaxId
NoPlayer == 0

Role == {"MIR", "MAF", "KAT", "MAN", "DOC", "BOM", "VAL"}
Flags == {"registration", "roles_assign", "roles_half", "game_started", "night",
          "morning", "day", "late", "vote1", "vote_say", "vote2"}

VARIABLES
  on,          \* the global flags that are set; "late": DAY_TIME has passed
  counter,     \* register_counter
  by_id,       \* gamers_by_id: the registered players
  by_nick,     \* those gamers_by_nick finds under their present nick
  asked,       \* EUI requests the server has not answered yet
  gamer,       \* the c_user objects
  vote_info1,  \* voter -> candidate
  vote_info2,  \* voter -> "yes", "no", or "-" for no vote
  vote2_person,
  voted,       \* who has voted today; this and the votes are forgotten when a
               \* day ends, as do_vote1 clears them before they are read again
  voice,       \* who has +v in the channel (kept by the server)
  gone,        \* the players who are not in the channel, as the server knows
  ended,       \* how the last game ended, and the prizes it paid
  moves, games

mafiaVars == <<on, counter, by_id, by_nick, asked, gamer, vote_info1, vote_info2,
               vote2_person, voted, voice, gone, ended, moves, games>>

\* c_user::c_user, with the members it forgets as the build's zeroed memory
\* leaves them; doced, parent and order_done are written by do_night before
\* they are read.
NewUser ==
  [role |-> "MIR", accepted |-> FALSE, main |-> FALSE, order |-> NoPlayer,
   kill |-> FALSE, doced |-> FALSE, parent |-> NoPlayer, valed |-> FALSE,
   marked |-> FALSE, left |-> FALSE, chnick |-> FALSE,
   doc_self |-> 0, score |-> 0]

NoVotes1 == [p \in Player |-> NoPlayer]
NoVotes2 == [p \in Player |-> "-"]

MafiaInit ==
  /\ on = {}
  /\ counter = 0
  /\ by_id = {} /\ by_nick = {} /\ asked = 0
  /\ gamer = [p \in Player |-> NewUser]
  /\ vote_info1 = NoVotes1 /\ vote_info2 = NoVotes2 /\ vote2_person = NoPlayer
  /\ voted = {}
  /\ voice = {} /\ gone = {}
  /\ ended = [winner |-> "none", prizes |-> {}]
  /\ moves = 0 /\ games = 0

LivingIn(g) == {p \in by_id : ~ g[p].marked}
Living == LivingIn(gamer)

\* Whose commands the bot takes for a player's; in private anyone is heard.
Heard(p) == p \in by_nick /\ ~ gamer[p].chnick
Playing(g, r) == {p \in LivingIn(g) : g[p].role = r}
Running == on \cap {"game_started", "registration", "roles_assign"} # {}
Votes == <<vote_info1, vote_info2, vote2_person, voted>>
ForgetVotes ==
  /\ vote_info1' = NoVotes1 /\ vote_info2' = NoVotes2
  /\ vote2_person' = NoPlayer /\ voted' = {}
-----------------------------------------------------------------------------
(* Registration.                                                            *)

\* !start
start_game ==
  /\ ~ Running
  /\ games < MaxGames
  /\ on' = {"registration"}
  /\ counter' = 0
  /\ games' = games + 1
  /\ UNCHANGED <<by_id, by_nick, asked, gamer, Votes, voice, ended, gone, moves>>

\* !reg: the server is asked who this is.
ask_user ==
  /\ "registration" \in on
  /\ asked + counter < MaxId
  /\ asked' = asked + 1
  /\ UNCHANGED <<on, counter, by_id, by_nick, gamer, Votes, voice, ended, gone, moves, games>>

\* EUI_REPLY: the answer may come when registration is over, or name a login,
\* an address or a level that is refused.
register_user ==
  /\ asked > 0
  /\ asked' = asked - 1
  /\ \/ UNCHANGED <<counter, by_id, by_nick, gamer, voice, gone>>
     \/ /\ "registration" \in on
        /\ counter < MaxId
        /\ counter' = counter + 1
        /\ by_id' = by_id \cup {counter'}
        /\ by_nick' = by_nick \cup {counter'}
        /\ gamer' = [gamer EXCEPT ![counter'] = NewUser]
        /\ voice' = voice \cup {counter'}
        /\ gone' = gone \ {counter'}
  /\ UNCHANGED <<on, Votes, ended, moves, games>>

\* !unreg
unregister_user_by_id(p) ==
  /\ "registration" \in on
  /\ p \in by_nick
  /\ by_nick' = by_nick \ {p}
  /\ voice' = voice \ {p}
  /\ gamer' = [gamer EXCEPT ![p] = NewUser]
  /\ UNCHANGED <<on, counter, by_id, asked, Votes, ended, gone, moves, games>>

unregister_user(p) ==
  /\ "registration" \in on
  /\ p \in by_nick
  /\ by_id' = by_id \ {p}
  /\ by_nick' = by_nick \ {p}
  /\ voice' = voice \ {p}
  /\ gamer' = [gamer EXCEPT ![p] = NewUser]
  /\ UNCHANGED <<on, counter, asked, Votes, ended, gone, moves, games>>

\* clear_users, when v have a voice.  unregister_user erases the node the loop
\* stands on: the walk may go on, or end there and leave the voices.
clear_users(v) ==
  /\ by_id' = {} /\ by_nick' = {}
  /\ gamer' = [p \in Player |-> NewUser]
  /\ voice' \in {v \ by_nick, v}

registration_timeout ==
  /\ "registration" \in on
  /\ Cardinality(by_nick) < 3
  /\ clear_users(voice)
  /\ on' = on \ {"registration", "game_started"}
  /\ UNCHANGED <<counter, asked, Votes, ended, gone, moves, games>>
-----------------------------------------------------------------------------
(* Dealing the roles.                                                       *)

Take(c, r, wanted) ==
  IF c.left > 0 /\ wanted THEN [c EXCEPT ![r] = @ + 1, !.left = @ - 1] ELSE c

\* The loop of assign_roles, a role at a time.  (The limit of BOM counts MAN.)
ShareOut(sz) ==
  LET share[c \in [Role \cup {"left"} -> Int]] ==
        IF c.left <= 0 THEN c
        ELSE LET c1 == Take(c, "DOC", c.DOC = 0 \/ sz >= 30 * c.DOC)
                 c2 == Take(c1, "MAN", c1.MAN = 0 \/ sz >= 10 * c1.MAN)
                 c3 == Take(c2, "BOM", c2.BOM = 0 \/ sz >= 15 * c2.MAN)
                 c4 == Take(c3, "KAT", c3.VAL > 0 /\ (c3.KAT = 0 \/ sz >= 20 * c3.KAT))
                 c5 == Take(c4, "VAL", c4.VAL = 0 \/ sz >= 30 * c4.VAL) IN
             share[Take(c5, "MIR", TRUE)] IN
  share

Deal(sz) ==
  LET mir == Max({1, (IF sz > 20 THEN sz * 45 ELSE sz * 40) \div 100})
      maf == Max({1, (sz * 25) \div 100}) IN
  ShareOut(sz)[[MIR |-> mir, MAF |-> maf, KAT |-> 1, DOC |-> 0, MAN |-> 0,
                BOM |-> 0, VAL |-> 0, left |-> sz - maf - 1 - mir]]

\* Dealing and declining change the roles and the scores of the players.
Recast(g) == [p \in Player |-> [gamer[p] EXCEPT !.role = g[p].role, !.score = g[p].score]]

\* assign_role: it draws ids from 1 to the number of players, so that a player
\* with a higher one is never drawn, and gives up when it finds no MIR.
Reachable(g) ==
  {p \in by_id : p <= Cardinality(by_id) /\ g[p].role = "MIR"}
assign_role(g, r) ==
  IF Reachable(g) = {} THEN {g}
  ELSE {[g EXCEPT ![p].role = r] : p \in Reachable(g)}

\* assign_roles: every outcome of the draws.
Draws(n, r, gs) ==
  FoldLeft(LAMBDA s, i : UNION {assign_role(g, r) : g \in s}, gs, [i \in 1..n |-> i])
assign_roles ==
  LET c == Deal(Cardinality(by_nick)) IN
  FoldLeft(LAMBDA s, r : Draws(c[r], r, s), {gamer},
           <<"DOC", "VAL", "BOM", "MAN", "KAT", "MAF">>)

registration_end ==
  /\ "registration" \in on
  /\ Cardinality(by_nick) >= 3
  /\ \E g \in assign_roles : gamer' = Recast(g)
  /\ on' = (on \ {"registration"}) \cup {"roles_assign"}
  /\ UNCHANGED <<counter, by_id, by_nick, asked, Votes, voice, ended, gone, moves, games>>

accept_role(p) ==
  /\ "roles_assign" \in on
  /\ Heard(p)
  /\ gamer[p].role # "MIR" /\ ~ gamer[p].accepted
  /\ gamer' = [gamer EXCEPT ![p].accepted = TRUE]
  /\ UNCHANGED <<on, counter, by_id, by_nick, asked, Votes, voice, ended, gone, moves, games>>

\* decline_role: the role goes to someone else first, then p is MIR and pays.
Declined_twice(g, p) ==
  IF p \notin by_nick \/ g[p].role = "MIR" THEN {g} ELSE assign_role(g, g[p].role)

Declined(g, p) ==
  IF p \notin by_nick \/ g[p].role = "MIR" THEN {g}
  ELSE {[h EXCEPT ![p].role = "MIR", ![p].score = (@ - 50) % W] :
          h \in assign_role(g, g[p].role)}

decline_role(p) ==
  /\ "roles_assign" \in on
  /\ Heard(p)
  /\ gamer[p].role # "MIR"
  /\ \E g \in Declined(gamer, p) : gamer' = Recast(g)
  /\ UNCHANGED <<on, counter, by_id, by_nick, asked, Votes, voice, ended, gone, moves, games>>

\* Who has not accepted loses the role, in the order of the ids.
decline_roles ==
  LET v == {p \in by_id : gamer[p].role # "MIR" /\ ~ gamer[p].accepted}
      after[n \in 0..MaxId] ==
        IF n = 0 THEN {gamer}
        ELSE UNION {IF n \in v THEN Declined(g, n) ELSE {g} : g \in after[n - 1]} IN
  after[MaxId]

\* process_game at half time.
roles_half ==
  /\ "roles_assign" \in on /\ "roles_half" \notin on
  /\ \E g \in decline_roles : gamer' = Recast(g)
  /\ on' = on \cup {"roles_half"}
  /\ UNCHANGED <<counter, by_id, by_nick, asked, Votes, voice, ended, gone, moves, games>>
-----------------------------------------------------------------------------
(* The shared steps: who has left, the main mafioso, night, the end.        *)

Buried(r) == [NewUser EXCEPT !.role = r.role, !.score = r.score, !.marked = TRUE]
remove_left_users(g) ==
  [p \in Player |-> IF p \in LivingIn(g) /\ g[p].left THEN Buried(g[p]) ELSE g[p]]

\* make_main_maf: maf_n is a random order of the mafia; its lowest number is
\* as good as any.
make_main_maf(g) ==
  IF Playing(g, "MAF") = {} THEN {g}
  ELSE {[g EXCEPT ![p].main = TRUE] : p \in Playing(g, "MAF")}
check_for_main_maf_blind(g) == make_main_maf(g)

check_for_main_maf(g) ==
  IF \E p \in LivingIn(g) : g[p].main THEN {g} ELSE make_main_maf(g)

\* do_night.  The orders it resets, the model resets when do_day has carried
\* them out: nobody reads them in between.
NightOf(g) == remove_left_users(g)
NightFlags(f) == (f \ {"day", "late"}) \cup {"night"}

\* check_roles, make_main_maf, do_night.  (accepted is not read any more.)
roles_end ==
  /\ "roles_assign" \in on
  /\ LET checked == [p \in Player |->
           [gamer[p] EXCEPT !.accepted = FALSE,
                            !.role = IF p \in by_nick /\ ~ gamer[p].accepted THEN "MIR" ELSE @]] IN
     \E g \in make_main_maf(checked) : gamer' = NightOf(g)
  /\ on' = NightFlags((on \ {"roles_assign", "roles_half"}) \cup {"game_started"})
  /\ UNCHANGED <<counter, by_id, by_nick, asked, Votes, voice, ended, gone, moves, games>>

\* process_for_end_game: the tests in their order, the later one prevailing.
Outcome(g) ==
  LET n(r) == Cardinality(Playing(g, r))
      tmir == n("MIR") + n("KAT") + n("DOC") + n("BOM")
      tbad == n("MAF") + n("MAN") IN
  IF \/ n("MAF") = 1 /\ n("KAT") = 1 /\ tmir = 1
     \/ n("MAF") = 1 /\ n("MAN") = 1 /\ tmir < 2
     \/ n("MAN") = 1 /\ n("KAT") = 1 /\ tmir = 1 /\ tbad = 1 THEN "draw"
  ELSE IF tmir < 2 /\ n("MAN") > 0 /\ n("MAF") = 0 /\ n("KAT") = 0 THEN "MAN"
  ELSE IF n("MAF") >= tmir /\ tmir < 3 /\ n("KAT") = 0 THEN "MAF"
  ELSE IF tbad = 0 THEN "MIR"
  ELSE "none"

\* What the end adds to a survivor's score.  (When MAN wins, the test of the
\* code names MAF twice.)
EndScore(winner, r) ==
  CASE winner = "draw" -> IF r = "VAL" THEN 0 ELSE 25
    [] winner = "MAF" -> IF r \in {"MAF", "MAN"} THEN 50 ELSE 0
    [] OTHER -> IF r \in {"MIR", "KAT", "DOC", "BOM"} THEN 50 ELSE 0

\* The end of a game: prizes are paid by score, and everyone is unregistered.
EndGame(g, v, f) ==
  /\ ended' = [winner |-> Outcome(g),
               prizes |-> {(g[p].score + IF g[p].marked THEN 0
                                         ELSE EndScore(Outcome(g), g[p].role)) % W : p \in by_id}]
  /\ clear_users(v)
  /\ ForgetVotes
  /\ on' = f \cap {"roles_half", "vote1", "vote_say", "vote2"}

-----------------------------------------------------------------------------
(* The night.                                                               *)

Silent(g, p) == g[p].role = "MIR" \/ (g[p].role = "MAF" /\ ~ g[p].main)
Done(g, p) == g[p].order # NoPlayer

check_all_orders(g) == \A p \in LivingIn(g) : Silent(g, p) \/ Done(g, p)

\* The order of a DOC or a VAL: the former one is taken back.
Reorder(g, u, z, field) ==
  LET h == IF Done(g, u) THEN [g EXCEPT ![g[u].order][field] = FALSE] ELSE g IN
  [h EXCEPT ![u].order = z, ![z][field] = TRUE]

Accepts(g, u, z) ==
  /\ {u, z} \subseteq LivingIn(g)
  /\ ~ Silent(g, u)
  /\ u = z => g[u].role = "DOC" /\ g[u].doc_self <= 2

Ordered(g, u, z, dbl) ==
  CASE g[u].role = "DOC" -> [Reorder(g, u, z, "doced") EXCEPT ![z].parent = u]
    [] g[u].role = "VAL" -> Reorder(g, u, z, "valed")
    [] OTHER -> [g EXCEPT ![u].order = z,
                          ![u].kill = (g[u].role = "KAT" => dbl) /\ g[u].role # "BOM"]

\* process_night, on the state a command has reached.
process_night(g, f, u, z, dbl) ==
  IF ~ Accepts(g, u, z) THEN gamer' = g /\ on' = f
  ELSE \E h \in {Ordered(g, u, z, dbl)} :
       /\ gamer' = h
       /\ on' = IF check_all_orders(h) THEN (f \ {"night"}) \cup {"morning"} ELSE f

\* A player gives an order: !id, or !!id.
order(u, z, dbl) ==
  /\ "night" \in on
  /\ Heard(u)
  /\ Accepts(gamer, u, z)
  /\ process_night(gamer, on, u, z, dbl)
  /\ UNCHANGED <<counter, by_id, by_nick, asked, Votes, voice, ended, gone, moves, games>>
-----------------------------------------------------------------------------
(* The day breaks: the orders are carried out.                              *)

MafScore == [MIR |-> 12, KAT |-> 60, MAF |-> -150, MAN |-> 49, BOM |-> 40, DOC |-> 40, VAL |-> 9]
ManScore == [MIR |-> 14, KAT |-> 61, MAF |-> 55, MAN |-> 39, BOM |-> 43, DOC |-> 43, VAL |-> 10]
KatScore == [MIR |-> -41, KAT |-> -70, MAF |-> 58, MAN |-> 61, BOM |-> -45, DOC |-> -45, VAL |-> 9]
ValScore == [MIR |-> 25, KAT |-> 35, MAF |-> 30, MAN |-> 35, BOM |-> 20, DOC |-> 35, VAL |-> 50]

\* Whose order do_day carries out: valed is what a VAL did to them.
Acts(u) == u \in Living /\ Done(gamer, u) /\ ~ gamer[u].valed
Target(u) == gamer[gamer[u].order]
Strikes(u) == Acts(u) /\ gamer[u].kill /\ ~ Silent(gamer, u)
Killed == {gamer[u].order : u \in {v \in Living : Strikes(v) /\ ~ Target(v).doced}}

\* What the order of u is worth to p.
Gain(u, p) ==
  LET z == Target(u)
      to_self(n) == IF p = u THEN n ELSE 0
      to_mafia(n) == IF gamer[p].role = "MAF" /\ p \in Living THEN n ELSE 0 IN
  IF ~ Acts(u) \/ Silent(gamer, u) THEN 0
  ELSE IF Strikes(u) /\ z.doced THEN IF p = z.parent THEN 20 ELSE 0
  ELSE
  CASE Strikes(u) /\ gamer[u].role = "MAF" ->
         IF z.role = "MAF" THEN to_self(MafScore["MAF"]) ELSE to_mafia(MafScore[z.role])
    [] Strikes(u) /\ gamer[u].role = "MAN" -> to_self(ManScore[z.role])
    [] Strikes(u) /\ gamer[u].role = "KAT" -> to_self(KatScore[z.role])
    [] gamer[u].role = "DOC" -> to_self(5)
    [] gamer[u].role = "VAL" -> to_self(ValScore[z.role])
    [] OTHER -> to_self(10)

Gains(p) ==
  LET sum[u \in 0..MaxId] ==
        IF u = 0 THEN 0 ELSE sum[u - 1] + IF u \in Living THEN Gain(u, p) ELSE 0 IN
  sum[MaxId]

\* do_day up to the count: scores, the dead, those who gave no order, and
\* those who have left.
Failed == {p \in Living : ~ Silent(gamer, p) /\ ~ Done(gamer, p)}

DayOf(dead) ==
  LET doc(p) == IF ~ (p \in Living /\ gamer[p].role = "DOC" /\ Done(gamer, p)) THEN gamer[p].doc_self
                ELSE IF gamer[p].order = p THEN gamer[p].doc_self + 1 ELSE 0 IN
  remove_left_users([p \in Player |->
    LET r == [gamer[p] EXCEPT !.score = (@ + Gains(p)) % W, !.doc_self = doc(p)] IN
    IF p \in dead THEN Buried(r)
    ELSE [r EXCEPT !.order = NoPlayer, !.kill = FALSE, !.doced = FALSE,
                   !.parent = NoPlayer, !.valed = FALSE]])

\* do_vote1
Vote1Flags_keeps(f) == f \cup {"vote1"}

Vote1Flags(f) == (f \ {"vote2", "vote_say"}) \cup {"vote1"}

\* set_mode("-v", ...) for those who die.
Silenced_not(dead) == voice

Silenced(dead) == voice \ dead

\* The night or the morning runs out.
DayBreaks_ordered == "morning" \in on

DayBreaks == on \cap {"night", "morning"} # {}

do_day ==
  /\ DayBreaks
  /\ LET f == (on \ {"night", "morning", "late"}) \cup {"day"} IN
     \E dead \in {Killed \cup Failed} : \E v \in {Silenced(dead)}, g \in {DayOf(dead)} :
     IF Outcome(g) # "none" THEN EndGame(g, v, f)
     ELSE /\ gamer' \in check_for_main_maf(g)
          /\ on' = Vote1Flags(f)
          /\ voice' = v
          /\ ForgetVotes
          /\ UNCHANGED <<by_id, by_nick, ended>>
  /\ UNCHANGED <<counter, asked, gone, moves, games>>
-----------------------------------------------------------------------------
(* The votes of the day.                                                    *)

Voices(z, v) == Cardinality({p \in Player : v[p] = z})
Leaders(v) ==
  {z \in Player : Voices(z, v) > 0 /\ \A y \in Player : Voices(y, v) <= Voices(z, v)}
Cast(v, none) == Cardinality({p \in Player : v[p] # none})

check_for_vote1_end(v) ==
  LET all == Cardinality(Living) IN
  \/ Cast(v, NoPlayer) >= all
  \/ \E z \in Player : Leaders(v) = {z} /\ Voices(z, v) > all \div 2

\* end_vote1 when nobody, or more than one, leads: the night comes.
Drawn(v) == Cardinality(Leaders(v)) # 1

ToNight(f) ==
  /\ gamer' = NightOf(gamer)
  /\ on' = NightFlags(f)
  /\ ForgetVotes
  /\ UNCHANGED <<by_id, by_nick, voice, ended>>

\* end_vote1 when one leads: the accused may speak.
Accuse(v) ==
  /\ \E z \in Leaders(v) : vote2_person' = z
  /\ on' = (on \ {"vote1"}) \cup {"vote_say"}
  /\ vote_info1' = NoVotes1
  /\ UNCHANGED <<gamer, vote_info2>>

\* process_day.  A vote that brings the night is then an order of that night:
\* process_day_or_night goes on to "if(night) process_night".
vote(u, z, dbl) ==
  /\ {"day", "vote1"} \subseteq on
  /\ Heard(u)
  /\ {u, z} \subseteq Living
  /\ Cast(vote_info1, NoPlayer) < MaxVotes
  /\ LET v == [vote_info1 EXCEPT ![u] = z]
         f == on \ {"vote1"} IN
     IF ~ check_for_vote1_end(v)
        THEN vote_info1' = v /\ voted' = voted \cup {u}
             /\ UNCHANGED <<on, gamer, vote_info2, vote2_person>>
        ELSE IF Drawn(v)
        THEN ForgetVotes /\ \E g \in {NightOf(gamer)} : process_night(g, NightFlags(f), u, z, dbl)
        ELSE Accuse(v) /\ voted' = voted \cup {u}
  /\ UNCHANGED <<counter, by_id, by_nick, asked, voice, ended, gone, moves, games>>

vote1_timeout ==
  /\ {"day", "vote1"} \subseteq on
  /\ IF Drawn(vote_info1) THEN ToNight(on \ {"vote1"})
     ELSE Accuse(vote_info1) /\ UNCHANGED <<by_id, by_nick, voted, voice, ended>>
  /\ UNCHANGED <<counter, asked, gone, moves, games>>

\* do_vote2, when the accused has said !all or the time is up.
do_vote2 ==
  /\ {"day", "vote_say"} \subseteq on
  /\ on' = (on \ {"vote_say"}) \cup {"vote2"}
  /\ UNCHANGED <<counter, by_id, by_nick, asked, gamer, Votes, voice, ended, gone, moves, games>>

KillScore == [
  MAF |-> [MAF |-> -13, MAN |-> 31, KAT |-> 39, BOM |-> 53, DOC |-> 39, MIR |-> 53, VAL |-> 0],
  MAN |-> [MAF |-> 28, MAN |-> 28, KAT |-> 36, BOM |-> 48, DOC |-> 36, MIR |-> 48, VAL |-> 0],
  KAT |-> [MAF |-> 55, MAN |-> 45, KAT |-> -70, BOM |-> -65, DOC |-> -55, MIR |-> -47, VAL |-> 0],
  BOM |-> [MAF |-> 23, MAN |-> 23, KAT |-> -32, BOM |-> -32, DOC |-> -32, MIR |-> -30, VAL |-> 0],
  DOC |-> [MAF |-> 30, MAN |-> 30, KAT |-> -46, BOM |-> -46, DOC |-> -46, MIR |-> -43, VAL |-> 0],
  VAL |-> [MAF |-> 11, MAN |-> 11, KAT |-> 9, BOM |-> 9, DOC |-> 9, MIR |-> 9, VAL |-> 0],
  MIR |-> [MAF |-> 10, MAN |-> 10, KAT |-> -35, BOM |-> -35, DOC |-> -25, MIR |-> -15, VAL |-> 0]]

\* The accused is executed and those who voted are paid.
Executed ==
  LET a == vote2_person
      g == [gamer EXCEPT ![a] = Buried(@)] IN
  [p \in Player |-> IF p \in LivingIn(g) \cap voted
                    THEN [g[p] EXCEPT !.score = (@ + KillScore[g[a].role][g[p].role]) % W]
                    ELSE g[p]]

\* Whether the day has time for another vote.
VotesAgain_always == TRUE

VotesAgain == "late" \notin on

\* end_vote2, on the votes v2.  A draw, and a vote that acquits, leave vote2
\* set unless the timer has brought it about.
end_vote2(v2, byTimer) ==
  LET cnt == Cardinality(Living) - 1
      n(a) == Cardinality({p \in Player : v2[p] = a})
      f == IF byTimer THEN on \ {"vote2"} ELSE on
      acquitted == \/ n("yes") + n("no") < (cnt * 40) \div 100
                   \/ n("no") > cnt \div 2
                   \/ n("yes") = n("no") IN
  CASE acquitted /\ VotesAgain ->
         /\ on' = Vote1Flags(on)
         /\ ForgetVotes
         /\ UNCHANGED <<by_id, by_nick, gamer, voice, ended>>
    [] ~ acquitted /\ n("yes") > cnt \div 2 ->
         LET v == Silenced({vote2_person}) IN
         \E x \in {Executed} :
         IF Outcome(x) # "none" THEN EndGame(x, v, on \ {"day", "vote2"})
         ELSE /\ \E g \in check_for_main_maf(x) : gamer' = NightOf(g)
              /\ on' = NightFlags(on \ {"vote2"})
              /\ voice' = v
              /\ ForgetVotes
              /\ UNCHANGED <<by_id, by_nick, ended>>
    [] OTHER -> ToNight(f)

check_for_vote2_end(v2) ==
  LET cnt == Cardinality(Living) - 1
      n(a) == Cardinality({p \in Player : v2[p] = a}) IN
  n("yes") + n("no") >= cnt \/ n("yes") > cnt \div 2 \/ n("no") > cnt \div 2

\* do_vote_yes, do_vote_no.  Neither looks whether the voter lives: in a
\* moderated channel only those with a voice are heard.
vote_yes_no(u, a) ==
  /\ {"day", "vote2"} \subseteq on /\ "vote_say" \notin on
  /\ u \in by_nick \cap voice
  /\ u # vote2_person
  /\ Cast(vote_info2, "-") < MaxVotes
  /\ LET v2 == [vote_info2 EXCEPT ![u] = a] IN
     IF check_for_vote2_end(v2)
     THEN end_vote2(v2, FALSE)
     ELSE /\ vote_info2' = v2
          /\ UNCHANGED <<on, by_id, by_nick, gamer, vote_info1, vote2_person, voted, voice, ended>>
  /\ UNCHANGED <<counter, asked, gone, moves, games>>

vote2_timeout ==
  /\ {"day", "vote2"} \subseteq on
  /\ end_vote2(vote_info2, TRUE)
  /\ UNCHANGED <<counter, asked, gone, moves, games>>

\* DAY_TIME has passed since the day broke.
day_time_passes ==
  /\ "day" \in on /\ "late" \notin on
  /\ on' = on \cup {"late"}
  /\ UNCHANGED <<counter, by_id, by_nick, asked, gamer, Votes, voice, ended, gone, moves, games>>
-----------------------------------------------------------------------------
(* Who comes and goes, and the administrator.                               *)

Moved(u) ==
  /\ moves < MaxMoves
  /\ moves' = moves + 1
  /\ UNCHANGED <<on, counter, by_id, asked, Votes, ended, games>>

\* QUIT, KICK.  The server takes the voice; the bot sees it unless it is
\* reconnecting.
quit(u) ==
  /\ Running
  /\ u \in by_nick \ gone /\ ~ gamer[u].marked /\ ~ gamer[u].left
  /\ Moved(u)
  /\ \E seen \in BOOLEAN : gamer' = [gamer EXCEPT ![u].left = seen]
  /\ voice' = voice \ {u}
  /\ gone' = gone \cup {u}
  /\ UNCHANGED by_nick

\* JOIN: the voice is given back to who was seen leaving.
join(u) ==
  /\ Running
  /\ u \in by_nick \cap gone /\ ~ gamer[u].marked /\ ~ gamer[u].chnick
  /\ Moved(u)
  /\ gamer' = [gamer EXCEPT ![u].left = FALSE]
  /\ voice' = IF gamer[u].left THEN voice \cup {u} ELSE voice
  /\ gone' = gone \ {u}
  /\ UNCHANGED by_nick

\* NICK: in the game one leaves it.  In the registration the new nick becomes
\* the key, and may be that of a player who is not there any more.
change_nick(u) ==
  /\ Running
  /\ u \in by_nick \ gone /\ ~ gamer[u].marked /\ ~ gamer[u].left
  /\ Moved(u)
  /\ IF "registration" \in on
     THEN /\ \E q \in by_nick \cap gone : by_nick' = by_nick \ {q}
          /\ UNCHANGED <<gamer, voice>>
     ELSE /\ gamer' = [gamer EXCEPT ![u].left = TRUE, ![u].chnick = TRUE]
          /\ voice' = voice \ {u}
          /\ UNCHANGED by_nick
  /\ UNCHANGED gone

\* !halt
halt ==
  /\ Running
  /\ clear_users(voice)
  /\ on' = on \cap {"roles_half", "vote1", "vote_say", "vote2"}
  /\ ForgetVotes
  /\ UNCHANGED <<counter, asked, ended, gone, moves, games>>

Timers ==
  \/ registration_timeout \/ registration_end
  \/ roles_half \/ roles_end
  \/ do_day
  \/ vote1_timeout \/ do_vote2 \/ vote2_timeout

Commands ==
  \/ start_game \/ ask_user \/ register_user \/ halt
  \/ \E p \in Player : unregister_user(p) \/ accept_role(p) \/ decline_role(p)
                       \/ quit(p) \/ join(p) \/ change_nick(p)
  \/ \E u, z \in Player, dbl \in BOOLEAN : order(u, z, dbl) \/ vote(u, z, dbl)
  \/ \E u \in Player, a \in {"yes", "no"} : vote_yes_no(u, a)

MafiaNext == Timers \/ day_time_passes \/ Commands

\* The loop looks at the timers whenever the channel is silent, and time goes on.
MafiaFairness ==
  /\ WF_mafiaVars(Timers)
  /\ WF_mafiaVars(day_time_passes)

MafiaSpec == MafiaInit /\ [][MafiaNext]_mafiaVars /\ MafiaFairness
-----------------------------------------------------------------------------
(* What the flags, the maps and the votes owe to each other.                *)

Phases == {"registration", "roles_assign", "night", "morning", "day"}

\* The flags of game.cpp tell one phase at a time, and a started game is in one
\* of its own; a day is in exactly one of its votes, so that a timer ends it,
\* and an accused is a living player.
PhasesAgree ==
  /\ Cardinality(on \cap Phases) <= 1
  /\ "game_started" \in on <=> on \cap {"night", "morning", "day"} # {}
  /\ "day" \in on =>
       /\ Cardinality(on \cap {"vote1", "vote_say", "vote2"}) = 1
       /\ "vote1" \in on \/ vote2_person \in Living

\* The mafia has one voice: never two living main mafiosi, and one by day as
\* long as there is a mafioso, whoever has died or left.
OneMainMafioso ==
  LET mains == {p \in Living : gamer[p].main} IN
  /\ Cardinality(mains) <= 1
  /\ "day" \in on /\ Playing(gamer, "MAF") # {} => mains # {}

\* Only players who are alive vote, though do_vote_yes and do_vote_no do not
\* look: whoever dies, leaves or changes nick has lost the voice.
OnlyTheLivingVote ==
  "day" \in on => \A p \in Player \ Living :
    vote_info1[p] = NoPlayer /\ vote_info2[p] = "-"

\* Who plays and is in the channel is found by nick: a change of nick during
\* the registration takes the entry of nobody who is there, seen leaving or not.
PlayersAreFound ==
  by_nick \subseteq by_id /\ by_id \ by_nick \subseteq gone

HoldersIn(r) == Cardinality({p \in by_id : gamer[p].role = r})

\* A role is dealt once: declining, refusing and losing one never doubles it.
RolesNeverDouble ==
  [][\A r \in Role \ {"MIR"} :
       HoldersIn(r)' <= HoldersIn(r) \/ "registration" \in on]_mafiaVars

\* No game hangs: every day and every night ends, by vote, order or timer.
NightsEnd == []<>(on \cap {"night", "morning"} = {})
DaysEnd == []<>("day" \notin on)

\* MAFIA.MESSAGES:38 takes 50 points from who gives a role back: nobody comes
\* out of a game of a few points with more than half of all there are.
DebtIsNoPrize == \A n \in ended.prizes : n < W \div 2

\* The flags, the roles, the votes and the maps of a game agree.
GameAgrees == PhasesAgree /\ OneMainMafioso /\ OnlyTheLivingVote /\ PlayersAreFound
=============================================================================
