-------------------------------- MODULE MCMafia --------------------------------
(* Small games of the mafia bot: of three players who come and go; of four,   *)
(* the least number that deals a DOC, who stay; and the end of a game of      *)
(* eight, the least number that deals two mafiosi.                            *)
EXTENDS Mafia, TLC

VARIABLE game

Eight == INSTANCE Mafia WITH MaxId <- 8

\* A game of eight, of whom the nights have left two mafiosi and three others.
Dealt == <<"MAF", "MAF", "MIR", "MIR", "KAT", "MIR", "DOC", "MAN">>
LateGame ==
  /\ on = {"game_started", "day", "vote1"}
  /\ counter = 8 /\ by_id = 1..8 /\ by_nick = 1..8 /\ asked = 0
  /\ gamer = [p \in 1..8 |-> [NewUser EXCEPT !.role = Dealt[p], !.main = (p = 1),
                                             !.marked = (p > 5)]]
  /\ vote_info1 = Eight!NoVotes1 /\ vote_info2 = Eight!NoVotes2 /\ vote2_person = NoPlayer
  /\ voted = {}
  /\ voice = 1..5 /\ gone = {}
  /\ ended = [winner |-> "none", prizes |-> {}]
  /\ moves = 0 /\ games = 1

\* Ids are dealt alike: of the deals of four players one stands for all, and
\* everyone keeps the role.
Played ==
  CASE game = "three" -> counter' + asked' <= 3
    [] game = "four" ->
         /\ moves' = 0 /\ asked' <= 1 /\ asked' + counter' <= 4
         /\ by_id' # {} => by_id' = 1..counter'
         /\ "registration" \notin on' => counter' = 4
         /\ on' \cap {"roles_assign", "game_started"} # {} =>
              /\ gamer'[1].role = "MAF" /\ gamer'[2].role = "DOC"
              /\ gamer'[3].role = "KAT" /\ gamer'[4].role = "MIR"

\* The accused is the main mafioso or one of the others.
LatePlayed ==
  /\ moves' = 0 /\ "registration" \notin on'
  /\ \A p \in 1..8 : vote_info1'[p] \in {NoPlayer, 1, 3}

PlayedNext ==
  /\ IF game = "late" THEN Eight!MafiaNext /\ LatePlayed ELSE MafiaNext /\ Played
  /\ UNCHANGED game

GameInit == IF game = "late" THEN LateGame ELSE MafiaInit

\* The timers of the game of four, and that each of its nights and days ends.
GameFairness ==
  /\ WF_mafiaVars(game = "four" /\ Timers)
  /\ WF_mafiaVars(game = "four" /\ day_time_passes)

PlayedNightsEnd == []<>(game = "four" => on \cap {"night", "morning"} = {})
PlayedDaysEnd == []<>(game = "four" => "day" \notin on)

ThreeSpec == game = "three" /\ MafiaInit /\ [][PlayedNext]_<<mafiaVars, game>> /\ GameFairness
===============================================================================
