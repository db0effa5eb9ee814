------------------------------ MODULE ExtEvents -------------------------------
(* What other programs ask of the chat server: they insert rows into the      *)
(* table ext_events, and users_handler reads the table once a second, does    *)
(* what each row says and deletes it.  A row and its handling are several     *)
(* queries; each may fail, and the server may be restarted between any two.   *)
(* One user; the bans that are asked for in this way are in Bans.             *)
EXTENDS Integers, Sequences, SequencesExt

CONSTANTS
  MaxEvents,    \* rows inserted (bound)
  MaxFaults     \* failing queries and restarts (bound)

ASSUME ExtEventsAssumption == {MaxEvents, MaxFaults} \subseteq Nat

VARIABLES
  x_table,     \* ext_events: the ids of the rows
  x_asked,     \* what each row inserted so far says
  x_writer,    \* the program that changes tbl_users is to ask for a flush
  x_rows,      \* the rows selected that are not done yet
  x_todo,      \* what is left of the first; then it is deleted
  x_online,    \* whether the user has a session
  x_stored,    \* tbl_users: the version of the user's row
  x_cache,     \* user$profiles: the version of the object, or 0
  x_load,      \* a page that loads the object: the version it read, or 0
  x_done,      \* how many times each part of each event was done (history)
  x_failed,    \* events with a failed query (history)
  x_again,     \* events done before a failed delete or a restart (history)
  x_old,       \* the object was being read when it was last flushed (history)
  x_faults

extVars ==
  <<x_table, x_asked, x_writer, x_rows, x_todo, x_online, x_stored, x_cache, x_load,
    x_done, x_failed, x_again, x_old, x_faults>>
tableVars == <<x_table, x_asked, x_writer>>
loopVars == <<x_rows, x_todo>>
profileVars == <<x_stored, x_cache, x_load, x_old>>
historyVars == <<x_done, x_failed, x_again>>

\* The parts of an event: changes of the database, of a cache, or events for
\* other threads.
inc_credit_summa == <<"summa", "note", "told">>
systemnote == <<"note">>
sysmsg == <<"told">>
set_topic == <<"topic">>
chat_exit == <<"part">>
flush == <<"clear">>
klap_channel == <<"klap">>

\* A row that cannot be understood has none.
Parts ==
  [inc_credit_summa |-> inc_credit_summa, systemnote |-> systemnote, sysmsg |-> sysmsg,
   set_topic |-> set_topic, chat_exit |-> chat_exit, flush |-> flush,
   klap_channel |-> klap_channel, invalid |-> <<>>]

Part == {"summa", "note", "told", "topic", "part", "clear", "klap"}
RowId == 1..MaxEvents

ExtEventsInit ==
  /\ x_table = {} /\ x_asked = <<>> /\ x_writer = FALSE
  /\ x_rows = <<>> /\ x_todo = <<>>
  /\ x_online = FALSE
  /\ x_stored = 1 /\ x_cache = 0 /\ x_load = 0
  /\ x_done = [e \in RowId |-> [p \in Part |-> 0]]
  /\ x_failed = {} /\ x_again = {} /\ x_old = FALSE
  /\ x_faults = 0
-----------------------------------------------------------------------------
(* Other programs, and pages.                                                *)

insert_event(cmd) ==
  /\ Len(x_asked) < MaxEvents
  /\ cmd = "flush" <=> x_writer
  /\ x_asked' = Append(x_asked, cmd)
  /\ x_table' = x_table \cup {Len(x_asked')}
  /\ x_writer' = FALSE
  /\ UNCHANGED <<loopVars, x_online, profileVars, historyVars, x_faults>>

\* A change of tbl_users that the chat server is to hear of.
update_profile ==
  /\ ~x_writer /\ Len(x_asked) < MaxEvents
  /\ x_writer' = TRUE /\ x_stored' = x_stored + 1
  /\ UNCHANGED <<x_table, x_asked, loopVars, x_online, x_cache, x_load, x_old, historyVars, x_faults>>

\* FindByID: the object is read without the lock, and kept if none has come.
load_profile ==
  /\ x_load = 0 /\ x_cache = 0
  /\ x_load' = x_stored
  /\ UNCHANGED <<tableVars, loopVars, x_online, x_stored, x_cache, x_old, historyVars, x_faults>>

keep_profile ==
  /\ x_load # 0
  /\ x_cache' = (IF x_cache = 0 THEN x_load ELSE x_cache) /\ x_load' = 0
  /\ UNCHANGED <<tableVars, loopVars, x_online, x_stored, x_old, historyVars, x_faults>>

user_comes_or_goes ==
  /\ x_online' = ~x_online
  /\ UNCHANGED <<tableVars, loopVars, profileVars, historyVars, x_faults>>
-----------------------------------------------------------------------------
(* iterate_ext_events.                                                       *)

\* The query names no order.
select_events ==
  /\ x_rows = <<>> /\ x_table # {}
  /\ \E rows \in SetToSeqs(x_table) :
       /\ x_rows' = rows
       /\ x_todo' = Parts[x_asked[Head(rows)]]
  /\ UNCHANGED <<tableVars, x_online, profileVars, historyVars, x_faults>>

\* Who is not there is not told, and sets no topic.
Reaches(part) == part \in {"told", "topic"} => x_online

\* Mutant: a flush leaves the object.
Cleared_not(part) == x_cache

\* clear_key.
Cleared(part) == IF part = "clear" THEN 0 ELSE x_cache

do_part ==
  /\ x_todo # <<>>
  /\ x_todo' = Tail(x_todo)
  /\ x_done' = [x_done EXCEPT ![Head(x_rows)][Head(x_todo)] = @ + IF Reaches(Head(x_todo)) THEN 1 ELSE 0]
  /\ x_cache' = Cleared(Head(x_todo))
  /\ x_old' = IF Head(x_todo) = "clear" THEN x_load # 0 ELSE x_old
  /\ UNCHANGED <<tableVars, x_rows, x_online, x_stored, x_load, x_failed, x_again, x_faults>>

\* A query of a handler fails.  inc_credit_summa goes on as if it had not; from
\* send_system_note the exception ends the handler.
part_fails ==
  /\ x_todo # <<>> /\ Head(x_todo) \in {"summa", "note"}
  /\ x_faults < MaxFaults /\ x_faults' = x_faults + 1
  /\ x_failed' = x_failed \cup {Head(x_rows)}
  /\ x_todo' = IF Head(x_todo) = "summa" THEN Tail(x_todo) ELSE <<>>
  /\ UNCHANGED <<tableVars, x_rows, x_online, profileVars, x_done, x_again>>

\* Mutants: all rows go, also those inserted meanwhile; an event whose handler
\* failed stays.
Deleted_all(e) == x_table
Deleted_done(e) == IF e \in x_failed THEN {} ELSE {e}

\* Whatever came of it, the row is deleted.
Deleted(e) == {e}

delete_event ==
  /\ x_rows # <<>> /\ x_todo = <<>>
  /\ x_table' = x_table \ Deleted(Head(x_rows))
  /\ x_rows' = Tail(x_rows)
  /\ x_todo' = IF x_rows' = <<>> THEN <<>> ELSE Parts[x_asked[Head(x_rows')]]
  /\ UNCHANGED <<x_asked, x_writer, x_online, profileVars, historyVars, x_faults>>

\* The query is outside the try: the loop ends, and the rows are read again.
delete_fails ==
  /\ x_rows # <<>> /\ x_todo = <<>>
  /\ x_faults < MaxFaults /\ x_faults' = x_faults + 1
  /\ x_again' = x_again \cup {Head(x_rows)}
  /\ x_rows' = <<>>
  /\ UNCHANGED <<tableVars, x_todo, x_online, profileVars, x_done, x_failed>>

\* The server stops, wherever it is, and is started again.
restart ==
  /\ x_faults < MaxFaults /\ x_faults' = x_faults + 1
  /\ x_again' = IF x_rows = <<>> THEN x_again ELSE x_again \cup {Head(x_rows)}
  /\ x_rows' = <<>> /\ x_todo' = <<>>
  /\ x_online' = FALSE
  /\ x_cache' = 0 /\ x_load' = 0 /\ x_old' = FALSE
  /\ UNCHANGED <<tableVars, x_stored, x_done, x_failed>>

iterate_ext_events == select_events \/ do_part \/ delete_event

ExtEventsNext ==
  \/ iterate_ext_events \/ part_fails \/ delete_fails \/ restart
  \/ \E cmd \in DOMAIN Parts : insert_event(cmd)
  \/ update_profile \/ load_profile \/ keep_profile \/ user_comes_or_goes
ExtEventsSpec == ExtEventsInit /\ [][ExtEventsNext]_extVars
-----------------------------------------------------------------------------
(* Properties.                                                               *)

\* No part of an event is done twice - no credits are given twice - unless its
\* row could not be deleted or the server was restarted meanwhile
\* (iterate_ext_events).
DoneOnce == \A e \in RowId \ x_again : \A p \in Part : x_done[e][p] <= 1

\* An event that is not in the table any more has been done, all of it, unless a
\* query of it failed or the user was not there.
NoneForgotten ==
  \A e \in DOMAIN x_asked \ (x_table \cup x_failed) :
    \A i \in DOMAIN Parts[x_asked[e]] :
      Parts[x_asked[e]][i] \in {"told", "topic"} \/ x_done[e][Parts[x_asked[e]][i]] > 0

\* When no flush is waiting, the cached profile is the one in the database,
\* unless it was being read when the flush was done.
FlushedIsFresh ==
  (~x_writer /\ \A e \in x_table : x_asked[e] # "flush") => x_cache \in {0, x_stored} \/ x_old

\* What other programs ask for is done, and once.
EventsDone == DoneOnce /\ NoneForgotten
=============================================================================
