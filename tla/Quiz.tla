--------------------------------- MODULE Quiz ---------------------------------
(* The quiz bot (bot/bot-quiz-oscar): it asks a question, gives hints, takes  *)
(* the first right answer or none, and asks again; a question nobody tried to *)
(* answer ends the game.  One loop, as in the other bots; its database may    *)
(* fail at any query, and the connection at any line sent to the server: an   *)
(* error leaves the handler where it stands, and the bot connects again.      *)
EXTENDS Integers, Sequences, FiniteSets

CONSTANTS
  QNick,         \* players, who keep their nicks
  MaxQuestions,  \* questions (bound)
  MaxAnswers,    \* answers to one question (bound)
  MaxErrors      \* failures of the database or of the connection (bound)

ASSUME QuizAssumption == {MaxQuestions, MaxAnswers, MaxErrors} \subseteq Nat

VARIABLES
  q_started,   \* game_started
  q_asked,     \* question_asked
  q_due,       \* next_question_time has been set and not reached yet
  q_hints,     \* hint1 and hint2: how many hints were given
  q_answers,   \* answers_count
  q_users,     \* users
  q_wanted,    \* EUI requests not answered
  q_score,     \* quiz_rating
  q_paid,      \* CTTU sent: the question and the player
  q_unpaid,    \* answers whose point is stored and whose CTTU failed (history)
  q_number,    \* questions asked so far (history)
  q_tried,     \* the present question was answered, rightly or not (history)
  q_errors

quizVars == <<q_started, q_asked, q_due, q_hints, q_answers, q_users, q_wanted,
              q_score, q_paid, q_unpaid, q_number, q_tried, q_errors>>

QuizInit ==
  /\ q_started = FALSE /\ q_asked = FALSE /\ q_due = FALSE /\ q_hints = 0
  /\ q_answers = 0
  /\ q_users = {} /\ q_wanted = {}
  /\ q_score = [n \in QNick |-> 0] /\ q_paid = {} /\ q_unpaid = {}
  /\ q_number = 0 /\ q_tried = FALSE
  /\ q_errors = 0

\* A failure goes up to the main loop, which connects again: the answers of
\* the server that were under way are lost.
Fails == q_errors < MaxErrors /\ q_errors' = q_errors + 1 /\ q_wanted' = {}

\* It fails between two steps, or in a line sent when all else has been done.
connection_fails ==
  /\ Fails
  /\ UNCHANGED <<q_started, q_asked, q_due, q_hints, q_answers, q_users, q_score,
                 q_paid, q_unpaid, q_number, q_tried>>
-----------------------------------------------------------------------------
(* check_state.                                                             *)

\* The time set for the next question, or for the limit, is reached.
next_question_time ==
  /\ q_due
  /\ q_due' = FALSE
  /\ UNCHANGED <<q_started, q_asked, q_hints, q_answers, q_users, q_wanted,
                 q_score, q_paid, q_unpaid, q_number, q_tried, q_errors>>

forgotten_answers_kept == q_answers

forgotten_answers == 0

ask_question ==
  /\ q_started /\ ~ q_asked /\ ~ q_due
  /\ q_number < MaxQuestions
  /\ q_asked' = TRUE /\ q_hints' = 0 /\ q_answers' = forgotten_answers
  /\ q_number' = q_number + 1
  /\ q_tried' = FALSE
  /\ UNCHANGED <<q_started, q_due, q_users, q_wanted, q_score, q_paid, q_unpaid, q_errors>>

\* get_question throws before anything is set.
ask_question_fails ==
  /\ q_started /\ ~ q_asked /\ ~ q_due
  /\ Fails
  /\ UNCHANGED <<q_started, q_asked, q_due, q_hints, q_answers, q_users, q_score,
                 q_paid, q_unpaid, q_number, q_tried>>

give_hint ==
  /\ q_started /\ q_asked
  /\ q_hints < 2
  /\ q_hints' = q_hints + 1
  /\ UNCHANGED <<q_started, q_asked, q_due, q_answers, q_users, q_wanted, q_score,
                 q_paid, q_unpaid, q_number, q_tried, q_errors>>

\* TIME_LIMIT comes after both hints, and closes the question.
expired_open == TRUE

expired == FALSE

time_limit ==
  /\ q_started /\ q_asked
  /\ q_hints = 2
  /\ q_asked' = expired
  /\ q_due' = TRUE
  /\ q_started' = (q_answers # 0)
  /\ UNCHANGED <<q_hints, q_answers, q_users, q_wanted, q_score, q_paid, q_unpaid,
                 q_number, q_tried, q_errors>>
-----------------------------------------------------------------------------
(* Commands.                                                                *)

\* !start: question_asked is FALSE whenever no game is on.
start_quiz ==
  /\ ~ q_started
  /\ q_started' = TRUE /\ q_due' = TRUE
  /\ UNCHANGED <<q_asked, q_hints, q_answers, q_users, q_wanted, q_score, q_paid, q_unpaid,
                 q_number, q_tried, q_errors>>

\* The announcement fails before the time of the first question is set.
start_quiz_fails ==
  /\ Fails
  /\ ~ q_started
  /\ q_started' = TRUE
  /\ UNCHANGED <<q_asked, q_due, q_hints, q_answers, q_users, q_score, q_paid,
                 q_unpaid, q_number, q_tried>>

\* on_greeting, at a JOIN.
greet(n) ==
  /\ n \notin q_users \cup q_wanted
  /\ q_wanted' = q_wanted \cup {n}
  /\ UNCHANGED <<q_started, q_asked, q_due, q_hints, q_answers, q_users, q_score,
                 q_paid, q_unpaid, q_number, q_tried, q_errors>>

EUI_REPLY_quiz(n) ==
  /\ n \in q_wanted
  /\ q_wanted' = q_wanted \ {n}
  /\ q_users' = q_users \cup {n}
  /\ UNCHANGED <<q_started, q_asked, q_due, q_hints, q_answers, q_score, q_paid, q_unpaid,
                 q_number, q_tried, q_errors>>

\* check_answer: the answer of a nick that is not known is counted and dropped.
wrong_answer(n) ==
  /\ q_asked /\ q_answers < MaxAnswers
  /\ q_answers' = q_answers + 1
  /\ q_tried' = TRUE
  /\ q_wanted' = IF n \in q_users THEN q_wanted ELSE q_wanted \cup {n}
  /\ UNCHANGED <<q_started, q_asked, q_due, q_hints, q_users, q_score, q_paid, q_unpaid,
                 q_number, q_errors>>

\* A right answer closes the question before the database is asked for the
\* score: the second of two right answers finds it closed.
answered_open == TRUE

answered == FALSE

Answer(n) ==
  /\ q_asked /\ q_answers < MaxAnswers
  /\ n \in q_users
  /\ q_answers' = q_answers + 1
  /\ q_tried' = TRUE
  /\ q_asked' = answered

Point(n) ==
  /\ q_score' = [q_score EXCEPT ![n] = @ + 1]
  /\ q_due' = TRUE

right_answer(n) ==
  /\ Answer(n) /\ Point(n)
  /\ q_paid' = q_paid \cup {[question |-> q_number, nick |-> n]}
  /\ UNCHANGED <<q_started, q_hints, q_users, q_wanted, q_unpaid, q_number, q_errors>>

\* The announcement or the CTTU fails: the point stays without its prize.
prize_fails(n) ==
  /\ Fails
  /\ Answer(n) /\ Point(n)
  /\ q_unpaid' = q_unpaid \cup {[question |-> q_number, nick |-> n]}
  /\ UNCHANGED <<q_started, q_hints, q_users, q_paid, q_number>>

\* The query, or the update after it, throws: the question is closed, there is
\* no prize, and next_question_time is in the past.
right_answer_fails(n) ==
  /\ Fails
  /\ Answer(n)
  /\ UNCHANGED <<q_started, q_due, q_hints, q_users, q_score, q_paid, q_unpaid, q_number>>

QuizTimers == next_question_time \/ ask_question \/ give_hint \/ time_limit

QuizNext ==
  \/ QuizTimers \/ ask_question_fails \/ start_quiz \/ start_quiz_fails
  \/ connection_fails
  \/ \E n \in QNick : \/ greet(n) \/ EUI_REPLY_quiz(n) \/ wrong_answer(n)
                      \/ right_answer(n) \/ right_answer_fails(n) \/ prize_fails(n)

\* Time goes on and the loop looks at it.
QuizFairness == WF_quizVars(QuizTimers)
QuizSpec == QuizInit /\ [][QuizNext]_quizVars /\ QuizFairness
-----------------------------------------------------------------------------
Wins(won, n) == Cardinality({x \in won : x.nick = n})

\* A question is won once, by one player, whoever answers it at the same time.
\* A prize is paid for every point of the rating, but for those whose line was
\* lost with the connection, and there are no more of these than failures.
WonOnce ==
  /\ \A x, y \in q_paid \cup q_unpaid : x.question = y.question => x = y
  /\ q_paid \cap q_unpaid = {}
  /\ \A n \in QNick : q_score[n] = Wins(q_paid, n) + Wins(q_unpaid, n)
  /\ Cardinality(q_unpaid) <= q_errors

\* The game stops only after a question that nobody has tried to answer, and
\* answers to the one before do not keep it on.
StopsWhenIgnored ==
  [][(q_started /\ ~ q_started') <=> (q_asked /\ ~ q_asked' /\ ~ q_tried')]_quizVars

\* A game goes on to its next question, or stops: no answer, hint or failure
\* leaves it without either.
QuestionsGoOn ==
  \A k \in 0..(MaxQuestions - 1) :
    []<>~(q_started /\ q_number = k)
=============================================================================
