------------------------------- MODULE Roulette -------------------------------
(* The roulette bot (bot/bot-roulette): stakes are bought from the chat       *)
(* server by UTTC, kept in memory and in a file, played when the timers of    *)
(* check_state have run, and won back by CTTU.  The bot is one loop over a    *)
(* connection that may break, and a program that may be started again.  A     *)
(* stake is of one credit.                                                    *)
EXTENDS Integers, Sequences, FiniteSets, FiniteSetsExt, SequencesExt

CONSTANTS
  Nick, Login,
  Tip,            \* kinds of stakes looked at, of "num", "odd" and "even"
  LoginOf,        \* whose nick it is (the server's table nicks)
  NoLogin, NoNick,
  Credits,        \* what every player and the bot own at first
  MaxStakes,      \* stakes asked for (bound)
  MaxFaults       \* restarts, broken connections and torn payouts (bound)

ASSUME RouletteAssumption ==
  /\ Tip \subseteq {"num", "odd", "even"}
  /\ LoginOf \in [Nick -> Login] /\ IsFiniteSet(Login)
  /\ NoLogin \notin Login /\ NoNick \notin Nick
  /\ {Credits, MaxStakes, MaxFaults} \subseteq Nat

\* What the numbers of the wheel let win: zero, an even and two odd numbers,
\* the stakes "num" being all on one of these.
Draw == {d \cap Tip : d \in {{}, {"even"}, {"odd"}, {"odd", "num"}}}
Payout == [num |-> 36, odd |-> 2, even |-> 2]

VARIABLES
  r_started,   \* game_started
  r_state,     \* game_state
  r_timer,     \* next_stoptime is set
  r_count,     \* stakes_count
  r_users,     \* users: nick -> the login of its user object
  r_nick,      \* user::nick, for each login that has an object
  r_pays,      \* user::pays
  r_id,        \* __id, counting on over restarts: it also tells stakes apart
  r_mem,       \* __stawki
  r_file,      \* FSTAWKI
  r_out, r_in, \* the two directions of the connection to the server
  r_bal, r_bank,
  r_taken,     \* ids the server has taken the money of (history)
  r_decided,   \* ids of the stakes the ball has decided (history)
  r_torn,      \* a payout was left in the middle (history)
  r_faults

r_game == <<r_started, r_state, r_timer, r_count>>
r_people == <<r_users, r_nick, r_pays, r_id>>
r_table == <<r_mem, r_file, r_decided>>
r_money == <<r_bal, r_bank, r_taken>>
rouletteVars == <<r_game, r_people, r_table, r_out, r_in, r_money, r_torn, r_faults>>

Stake == [id : 1..MaxStakes, login : Login, tip : Tip]

NewProcess ==
  [started |-> FALSE, state |-> "UNDEF", timer |-> FALSE, count |-> 0]

RouletteInit ==
  /\ r_started = FALSE /\ r_state = "UNDEF" /\ r_timer = FALSE /\ r_count = 0
  /\ r_users = [n \in Nick |-> NoLogin]
  /\ r_nick = [l \in Login |-> NoNick]
  /\ r_pays = [l \in Login |-> {}]
  /\ r_id = 0
  /\ r_mem = {} /\ r_file = {} /\ r_decided = {}
  /\ r_out = <<>> /\ r_in = <<>>
  /\ r_bal = [l \in Login |-> Credits] /\ r_bank = Credits
  /\ r_taken = {}
  /\ r_torn = FALSE /\ r_faults = 0
-----------------------------------------------------------------------------
(* Commands from the channel.                                               *)

Send(m) == r_out' = Append(r_out, m)
Asked(n) == \E i \in DOMAIN r_out : r_out[i] = [cmd |-> "EUI", nick |-> n]

\* !start
start_roulette ==
  /\ ~ r_started
  /\ r_started' = TRUE
  /\ UNCHANGED <<r_state, r_timer, r_count, r_people, r_table, r_out, r_in, r_money, r_torn, r_faults>>

\* A JOIN, or a stake, of a nick the bot does not know.  (A second request for
\* the same nick would bring the same answer.)
ask_who(n) ==
  /\ r_users[n] = NoLogin
  /\ ~ Asked(n)
  /\ Send([cmd |-> "EUI", nick |-> n])
  /\ UNCHANGED <<r_game, r_people, r_table, r_in, r_money, r_torn, r_faults>>

\* do_num_stawka, do_odd_even_stawka: the stake waits in pays for its money.
do_stawka(n, tip) ==
  /\ r_state = "ACCEPTING_STAKES"
  /\ r_users[n] # NoLogin
  /\ r_id < MaxStakes
  /\ r_id' = r_id + 1
  /\ r_pays' = [r_pays EXCEPT ![r_users[n]] = @ \cup {[id |-> r_id', tip |-> tip]}]
  /\ Send([cmd |-> "UTTC", nick |-> n, id |-> r_id'])
  /\ UNCHANGED <<r_game, r_users, r_nick, r_table, r_in, r_money, r_torn, r_faults>>
-----------------------------------------------------------------------------
(* The server: irc_cmd_UTTC, irc_cmd_CTTU and EUI, in the order they came.  *)

Reply(m) == r_in' = Append(r_in, m)

\* A transfer is refused when the account does not hold the sum.
server_UTTC(m, l) ==
  /\ Reply([cmd |-> "UTTC_REPLY", nick |-> m.nick, id |-> m.id, ok |-> r_bal[l] >= 1])
  /\ IF r_bal[l] >= 1
     THEN /\ r_bal' = [r_bal EXCEPT ![l] = @ - 1]
          /\ r_bank' = r_bank + 1
          /\ r_taken' = r_taken \cup {m.id}
     ELSE UNCHANGED r_money

\* The bot only passes the answer on to the player.
server_CTTU(m, l) ==
  /\ IF r_bank >= m.sum
     THEN /\ r_bal' = [r_bal EXCEPT ![l] = @ + m.sum]
          /\ r_bank' = r_bank - m.sum
          /\ UNCHANGED r_taken
     ELSE UNCHANGED r_money
  /\ UNCHANGED r_in

server_handles ==
  /\ r_out # <<>>
  /\ r_out' = Tail(r_out)
  /\ LET m == Head(r_out) IN
     CASE m.cmd = "EUI" -> Reply([cmd |-> "EUI_REPLY", nick |-> m.nick]) /\ UNCHANGED r_money
       [] m.cmd = "UTTC" -> server_UTTC(m, LoginOf[m.nick])
       [] m.cmd = "CTTU" -> server_CTTU(m, LoginOf[m.nick])
  /\ UNCHANGED <<r_game, r_people, r_table, r_torn, r_faults>>
-----------------------------------------------------------------------------
(* The answers.                                                             *)

Answered(cmd) == r_in # <<>> /\ Head(r_in).cmd = cmd /\ r_in' = Tail(r_in)

\* A nick of a login that has an object already becomes another key of it.
EUI_REPLY ==
  /\ Answered("EUI_REPLY")
  /\ LET n == Head(r_in).nick IN
     /\ r_users' = [r_users EXCEPT ![n] = LoginOf[n]]
     /\ r_nick' = [r_nick EXCEPT ![LoginOf[n]] = n]
  /\ UNCHANGED <<r_game, r_pays, r_id, r_table, r_out, r_money, r_torn, r_faults>>

\* load_stawki reads the file when the memory holds nothing.
Loaded == IF r_mem = {} THEN r_file ELSE r_mem

add_stawka_unloaded(s) ==
  /\ r_mem' = r_mem \cup {s}
  /\ r_file' = r_file \cup {s}

add_stawka(s) ==
  /\ r_mem' = Loaded \cup {s}
  /\ r_file' = r_file \cup {s}

\* do_UTTC_REPLY.  The state of the game is not looked at, and what is counted
\* is every answer that says OK.  The pay of a refused stake stays.
Accepted_any(m) == TRUE

Accepted(m) == m.ok

UTTC_REPLY ==
  /\ Answered("UTTC_REPLY")
  /\ LET m == Head(r_in)
         l == r_users[m.nick]
         found == {p \in IF l = NoLogin THEN {} ELSE r_pays[l] : p.id = m.id} IN
     /\ r_count' = IF Accepted(m) THEN r_count + 1 ELSE r_count
     /\ IF Accepted(m) /\ found # {}
        THEN \E p \in found :
               /\ add_stawka([id |-> p.id, login |-> l, tip |-> p.tip])
               /\ r_pays' = [r_pays EXCEPT ![l] = @ \ {p}]
        ELSE UNCHANGED <<r_mem, r_file, r_pays>>
     /\ r_out' = IF Accepted(m) /\ l = NoLogin
                 THEN Append(r_out, [cmd |-> "EUI", nick |-> m.nick]) ELSE r_out
  /\ UNCHANGED <<r_started, r_state, r_timer, r_users, r_nick, r_id, r_decided,
                 r_money, r_torn, r_faults>>

\* !stakes: it only shows the stakes, but loads them.
do_stawki(n) ==
  /\ r_state = "ACCEPTING_STAKES"
  /\ r_users[n] # NoLogin
  /\ r_mem' = Loaded
  /\ UNCHANGED <<r_game, r_people, r_file, r_decided, r_out, r_in, r_money, r_torn, r_faults>>
-----------------------------------------------------------------------------
(* check_state.                                                             *)

\* The ifs it ends with: no stake, no game; the first stake starts the timer.
Settle(state, timer, count) ==
  LET s == IF count = 0 THEN "ACCEPTING_STAKES" ELSE state IN
  /\ r_state' = s
  /\ r_timer' = (timer \/ (count # 0 /\ s = "ACCEPTING_STAKES"))
  /\ r_count' = count
  /\ UNCHANGED r_started

Expired(state) == r_started /\ r_state = state /\ r_timer

next_game_count_kept == r_count

next_game_count == 0

wait_next_game ==
  /\ Expired("WAIT_NEXT_GAME")
  /\ Settle("UNDEF", FALSE, next_game_count)
  /\ UNCHANGED <<r_people, r_table, r_out, r_in, r_money, r_torn, r_faults>>

\* Who wins what: only logins with a user object are looked at.
Winners(st, draw) == {l \in Login : r_nick[l] # NoNick /\ \E s \in st : s.login = l /\ s.tip \in draw}
Win(st, draw, l) ==
  MapThenSumSet(LAMBDA s : Payout[s.tip], {s \in st : s.login = l /\ s.tip \in draw})
Prizes(st, draw, ls) ==
  SetToSeq({[cmd |-> "CTTU", nick |-> r_nick[l], sum |-> Win(st, draw, l)] : l \in ls})

remove_stawki_memory == r_mem' = {} /\ UNCHANGED r_file

remove_stawki == r_mem' = {} /\ r_file' = {}

throw_ball ==
  /\ Expired("THROW_BALL")
  /\ \E draw \in Draw : r_out' = r_out \o Prizes(Loaded, draw, Winners(Loaded, draw))
  /\ r_decided' = r_decided \cup {s.id : s \in Loaded}
  /\ remove_stawki
  /\ Settle("WAIT_NEXT_GAME", TRUE, r_count)
  /\ UNCHANGED <<r_people, r_in, r_money, r_torn, r_faults>>

Expire(from, to) ==
  /\ Expired(from)
  /\ Settle(to, TRUE, r_count)
  /\ UNCHANGED <<r_people, r_table, r_out, r_in, r_money, r_torn, r_faults>>

\* check_state when no timer has run out.
settle ==
  /\ r_started
  /\ \/ r_count = 0 /\ r_state # "ACCEPTING_STAKES"
     \/ r_count # 0 /\ r_state = "ACCEPTING_STAKES" /\ ~ r_timer
  /\ Settle(r_state, r_timer, r_count)
  /\ UNCHANGED <<r_people, r_table, r_out, r_in, r_money, r_torn, r_faults>>

check_state ==
  \/ wait_next_game
  \/ throw_ball
  \/ Expire("RUNNING_WHEEL", "THROW_BALL")
  \/ Expire("STAKES_STOPPED", "RUNNING_WHEEL")
  \/ Expire("ACCEPTING_STAKES", "STAKES_STOPPED")
  \/ settle
-----------------------------------------------------------------------------
(* What goes wrong.                                                         *)

Fault == r_faults < MaxFaults /\ r_faults' = r_faults + 1

\* The connection breaks: what is under way is lost; the bot connects again.
reconnect ==
  /\ Fault
  /\ r_out' = <<>> /\ r_in' = <<>>
  /\ UNCHANGED <<r_game, r_people, r_table, r_money, r_torn>>

restart ==
  /\ Fault
  /\ r_started' = NewProcess.started /\ r_state' = NewProcess.state
  /\ r_timer' = NewProcess.timer /\ r_count' = NewProcess.count
  /\ r_users' = [n \in Nick |-> NoLogin]
  /\ r_nick' = [l \in Login |-> NoNick]
  /\ r_pays' = [l \in Login |-> {}]
  /\ r_mem' = {}
  /\ r_out' = <<>> /\ r_in' = <<>>
  /\ UNCHANGED <<r_id, r_file, r_decided, r_money, r_torn>>

\* fmtstr asks the database between two prizes and may throw, up to the main
\* loop, which connects again: what was sent is sent, the stakes stay, and the
\* ball is thrown again.
torn_payout ==
  /\ Fault
  /\ Expired("THROW_BALL")
  /\ \E draw \in Draw : \E some \in SUBSET Winners(Loaded, draw) :
       r_out' = Prizes(Loaded, draw, some)
  /\ r_in' = <<>>
  /\ r_decided' = r_decided \cup {s.id : s \in Loaded}
  /\ r_torn' = TRUE
  /\ r_mem' = Loaded
  /\ UNCHANGED <<r_game, r_people, r_file, r_money>>

Players == \E n \in Nick : ask_who(n) \/ do_stawki(n) \/ \E tip \in Tip : do_stawka(n, tip)
Faults == reconnect \/ restart \/ torn_payout

RouletteNext ==
  start_roulette \/ Players \/ server_handles \/ EUI_REPLY \/ UTTC_REPLY
  \/ check_state \/ Faults

\* The loop looks at the timers whenever the channel is silent.
RouletteFairness == WF_rouletteVars(check_state)
RouletteSpec == RouletteInit /\ [][RouletteNext]_rouletteVars /\ RouletteFairness
-----------------------------------------------------------------------------
\* Nobody plays for nothing: a stake lies on the table, in memory or in the
\* file, only when the server has taken its money, over every restart, broken
\* connection and late answer; and it lies there once.
StakesWerePaid ==
  \A t \in {r_mem, r_file} :
    /\ {s.id : s \in t} \subseteq r_taken
    /\ \A s1, s2 \in t : s1.id = s2.id => s1 = s2

\* The ball decides a stake once: what it has decided is neither in memory nor
\* in the file it would be loaded from again.  (A payout torn in the middle is
\* repeated, by the code as it is.)
DecidedOnce ==
  ~ r_torn => {s.id : s \in r_mem \cup r_file} \cap r_decided = {}

\* Memory and file agree whenever the memory is in use: no stake made since a
\* restart hides those the file had.
FileAgrees == r_mem = {} \/ r_mem = r_file

\* A game that has counted a stake comes to its end and counts from zero again,
\* whenever late answers come in between.
RoundEnds == []<>(r_count = 0)

\* A stake is paid for, decided once and not forgotten by the file.
StakesKept == StakesWerePaid /\ DecidedOnce /\ FileAgrees
=============================================================================
