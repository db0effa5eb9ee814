-------------------------------- MODULE MCBots --------------------------------
(* The bots, which know nothing of each other, one at a time: load says which *)
(* program is looked at.                                                      *)
EXTENDS MCMafia, Roulette, Quiz

CONSTANTS n1, n2, la, lb

VARIABLE load

MCLoginOf == n1 :> la @@ n2 :> lb

Init ==
  /\ RouletteInit /\ QuizInit
  /\ \/ load = "mafia" /\ game \in {"three", "four", "late"} /\ GameInit
     \/ load \in {"roulette", "quiz"} /\ game = "none" /\ MafiaInit

\* Three lines at most are under way between the roulette and the server.
Next ==
  /\ UNCHANGED load
  /\ \/ /\ load = "mafia"
        /\ PlayedNext
        /\ UNCHANGED <<rouletteVars, quizVars>>
     \/ /\ load = "roulette"
        /\ RouletteNext /\ Len(r_out') + Len(r_in') <= 3
        /\ UNCHANGED <<mafiaVars, game, quizVars>>
     \/ /\ load = "quiz"
        /\ QuizNext
        /\ UNCHANGED <<mafiaVars, game, rouletteVars>>

Spec ==
  /\ Init /\ [][Next]_<<mafiaVars, game, rouletteVars, quizVars, load>>
  /\ GameFairness /\ RouletteFairness /\ QuizFairness

\* No game of a bot hangs: nights and days of the mafia end, a round of the
\* roulette ends, the quiz comes to its next question or stops.
GamesGoOn == PlayedNightsEnd /\ PlayedDaysEnd /\ RoundEnds /\ QuestionsGoOn

\* A role of the mafia is dealt once, and the quiz stops only when it is ignored.
RulesKept == RolesNeverDouble /\ StopsWhenIgnored
===============================================================================
