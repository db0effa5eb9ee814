------------------------------- MODULE Credits -------------------------------
(* Credits: transfers between a player and a bot over IRC (UTTC, CTTU), what *)
(* the application server adds, and the log of both (user_credits.cpp).      *)
(* A balance is a column of the database that every thread reads and updates *)
(* with queries of its own, no transaction around them: each query is one    *)
(* step.  A query may throw; the exception ends the command without an       *)
(* answer, except where the code catches it.                                 *)
EXTENDS Integers, Sequences, FiniteSets, FiniteSetsExt, SequencesExt

CONSTANTS
  Account,      \* user ids
  Teller,       \* IRC threads that handle a command of a bot
  BotOf,        \* the account of the bot each of them serves
  Sums,         \* the sums named in commands
  Opening,      \* what everybody starts with
  MaxMoves,     \* commands (bound)
  MaxFailures   \* failing queries (bound)

ASSUME CreditsAssumption ==
  /\ IsFiniteSet(Account) /\ 0 \notin Account
  /\ BotOf \in [Teller -> Account] /\ IsFiniteSet(Teller) /\ Teller # {}
  /\ Sums \subseteq Nat /\ \E m \in Sums : \A s \in Sums : s <= m
  /\ {Opening, MaxMoves, MaxFailures} \subseteq Nat

VARIABLES
  k_bal,       \* tbl_users.credit_summa
  k_work,      \* what each teller is doing: the transfer and its next query
  k_queue,     \* credit_transactions
  k_dumping,   \* the transactions dump_credits_log has taken out, one at most
  k_log,       \* table credit_log
  k_answers,   \* the answers sent to the bots: "OK" or "FAIL" (history)
  k_moves, k_failures

creditVars == <<k_bal, k_work, k_queue, k_dumping, k_log, k_answers, k_moves, k_failures>>

Transfer == [from : Account, to : Account, sum : Sums]
Idle == [next |-> "idle"]

CreditInit ==
  /\ k_bal = [a \in Account |-> Opening]
  /\ k_work = [t \in Teller |-> Idle]
  /\ k_queue = <<>> /\ k_dumping = {} /\ k_log = <<>>
  /\ k_answers = <<>>
  /\ k_moves = 0 /\ k_failures = 0
-----------------------------------------------------------------------------
Fails == k_failures < MaxFailures /\ k_failures' = k_failures + 1
Going(t, q) == k_work[t].next = q
GoOn(t, q) == k_work' = [k_work EXCEPT ![t].next = q]
Answer(t, a) == k_answers' = Append(k_answers, a)
Push(tr) == k_queue' = Append(k_queue, tr)

\* irc_cmd_UTTC (the bot takes) and irc_cmd_CTTU (the bot gives), with the
\* first tests of buy_thing: a sum of nothing and a transfer to oneself fail.
command(t, a, sum, takes) ==
  LET tr == IF takes THEN [from |-> a, to |-> BotOf[t], sum |-> sum]
                     ELSE [from |-> BotOf[t], to |-> a, sum |-> sum] IN
  /\ Going(t, "idle")
  /\ k_moves < MaxMoves
  /\ k_moves' = k_moves + 1
  /\ IF sum = 0 \/ a = BotOf[t]
     THEN Answer(t, "FAIL") /\ UNCHANGED k_work
     ELSE /\ k_work' = [k_work EXCEPT ![t] = [from |-> tr.from, to |-> tr.to, sum |-> tr.sum,
                                             next |-> "check", have |-> 0]]
          /\ UNCHANGED k_answers
  /\ UNCHANGED <<k_bal, k_queue, k_dumping, k_log, k_failures>>

\* Mutant: the balance is not looked at.
Affords_always(t) == TRUE

Affords(t) == k_bal[k_work[t].from] >= k_work[t].sum

\* from_summa: refused, or on to the two updates.
check_summa(t) ==
  /\ Going(t, "check")
  /\ IF Affords(t)
     THEN /\ k_work' = [k_work EXCEPT ![t].next = "minus", ![t].have = k_bal[k_work[t].from]]
          /\ UNCHANGED k_answers
     ELSE k_work' = [k_work EXCEPT ![t] = Idle] /\ Answer(t, "FAIL")
  /\ UNCHANGED <<k_bal, k_queue, k_dumping, k_log, k_moves, k_failures>>

Minus(t) == [k_bal EXCEPT ![k_work[t].from] = @ - k_work[t].sum]
Plus(t) == [k_bal EXCEPT ![k_work[t].to] = @ + k_work[t].sum]

\* Mutant: the updates in the other order.
Updates_swapped(t) == <<Plus(t), Minus(t)>>

\* Mutant: the new balance is computed from the one that was read.
Updates_stale(t) ==
  <<[k_bal EXCEPT ![k_work[t].from] = k_work[t].have - k_work[t].sum], Plus(t)>>

Updates(t) == <<Minus(t), Plus(t)>>

take_from(t) ==
  /\ Going(t, "minus")
  /\ k_bal' = Updates(t)[1]
  /\ GoOn(t, "plus")
  /\ UNCHANGED <<k_queue, k_dumping, k_log, k_answers, k_moves, k_failures>>

give_to(t) ==
  /\ Going(t, "plus")
  /\ k_bal' = Updates(t)[2]
  /\ GoOn(t, "log")
  /\ UNCHANGED <<k_queue, k_dumping, k_log, k_answers, k_moves, k_failures>>

\* The rest of buy_thing and the answer.  The reminders it names are read
\* here, and a failure to read them is caught.
log_move(t) ==
  /\ Going(t, "log")
  /\ Push([from |-> k_work[t].from, to |-> k_work[t].to, sum |-> k_work[t].sum])
  /\ k_work' = [k_work EXCEPT ![t] = Idle]
  /\ Answer(t, "OK")
  /\ UNCHANGED <<k_bal, k_dumping, k_log, k_moves, k_failures>>

\* A query of buy_thing throws, or a profile is not to be loaded: the command
\* ends where it is.
command_fails(t) ==
  /\ ~ Going(t, "idle")
  /\ Fails
  /\ k_work' = [k_work EXCEPT ![t] = Idle]
  /\ UNCHANGED <<k_bal, k_queue, k_dumping, k_log, k_answers, k_moves>>

\* inc_credit_summa: a failing update is swallowed, and logged as if done.
inc_credit_summa(a, sum) ==
  /\ k_moves < MaxMoves
  /\ k_moves' = k_moves + 1
  /\ \/ k_bal' = [k_bal EXCEPT ![a] = @ + sum] /\ UNCHANGED k_failures
     \/ Fails /\ UNCHANGED k_bal
  /\ Push([from |-> 0, to |-> a, sum |-> sum])
  /\ UNCHANGED <<k_work, k_dumping, k_log, k_answers>>
-----------------------------------------------------------------------------
(* dump_credits_log, in the loop that looks after the sessions.             *)

extract_transaction ==
  /\ k_dumping = {} /\ k_queue # <<>>
  /\ k_dumping' = {Head(k_queue)}
  /\ k_queue' = Tail(k_queue)
  /\ UNCHANGED <<k_bal, k_work, k_log, k_answers, k_moves, k_failures>>

\* Mutant: a transaction whose insert failed is queued again, after an insert
\* that did reach the table.
Requeued_after_insert(tr) == Push(tr) /\ k_log' = Append(k_log, tr)

Requeued(tr) == UNCHANGED <<k_queue, k_log>>

insert_log ==
  /\ \E tr \in k_dumping :
       \/ k_log' = Append(k_log, tr) /\ UNCHANGED <<k_queue, k_failures>>
       \/ Fails /\ Requeued(tr)
  /\ k_dumping' = {}
  /\ UNCHANGED <<k_bal, k_work, k_answers, k_moves>>

CreditNext ==
  \/ \E t \in Teller :
       \/ \E a \in Account, sum \in Sums, takes \in BOOLEAN : command(t, a, sum, takes)
       \/ check_summa(t) \/ take_from(t) \/ give_to(t) \/ log_move(t) \/ command_fails(t)
  \/ \E a \in Account, sum \in Sums : inc_credit_summa(a, sum)
  \/ extract_transaction \/ insert_log
CreditSpec == CreditInit /\ [][CreditNext]_creditVars
-----------------------------------------------------------------------------
\* The sum of v over the elements of a sequence.
SumAlong(s, v) ==
  LET upto[n \in 0..Len(s)] == IF n = 0 THEN 0 ELSE upto[n - 1] + v[s[n]] IN
  upto[Len(s)]

Transaction == [from : Account \cup {0}, to : Account, sum : Sums]
Accounted == k_log \o SetToSeq(k_dumping) \o k_queue

\* What a transaction brings an account, and all those in the log or on their way
\* to it.  What is added comes from account 0.
Brings(tr, a) == (IF tr.to = a THEN tr.sum ELSE 0) - (IF tr.from = a THEN tr.sum ELSE 0)
Balance(a) == SumAlong(Accounted, [tr \in Transaction |-> Brings(tr, a)])
Added == 0 - Balance(0)
Total == SumAlong(SetToSeq(Account), k_bal)

\* Failing queries lose money and lines of the log, but never make money: all
\* accounts together hold no more than was there, and what the log, or those on
\* their way to it, say was added.  (A log entry that was lost leaves one sum
\* unexplained.)
NothingMadeUp ==
  Total <= Cardinality(Account) * Opening + Added + k_failures * Max(Sums)

\* The check and the update are two queries: tellers that check the same
\* account together overdraw it, each but one by its sum, and nobody more.
OverdraftBounded ==
  \A a \in Account : k_bal[a] >= 0 - (Cardinality(Teller) - 1) * Max(Sums)

\* With no failure and no transfer half done, every balance is what the log
\* says it is.
BooksBalance ==
  k_failures = 0 /\ (\A t \in Teller : Going(t, "idle"))
    => \A a \in Account : k_bal[a] = Opening + Balance(a)

\* The log tells of no transfer that did not happen and tells of none twice:
\* it holds no more transfers than the bots were told of.
LoggedOnce ==
  SumAlong(Accounted, [tr \in Transaction |-> IF tr.from = 0 THEN 0 ELSE 1])
    <= SumAlong(k_answers, [a \in {"OK", "FAIL"} |-> IF a = "OK" THEN 1 ELSE 0])

\* No money, no entry and no sum comes from nowhere.
CreditsAddUp == NothingMadeUp /\ BooksBalance /\ LoggedOnce
=============================================================================
