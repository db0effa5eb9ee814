------------------------------ MODULE Profiles -------------------------------
(* What is kept of one user in the database and cached: who is ignored, the   *)
(* contacts, the nicks, the settings.  Each is a set; table says which one a  *)
(* behaviour is about.  db_map holds the objects; find_by_id_create loads an  *)
(* object outside the lock; pages change it and collect commands; the update  *)
(* processor sends each command to the chat thread, changes the cached object *)
(* once more, and then the table.                                             *)
EXTENDS Integers, Sequences, FiniteSets, FiniteSetsExt, SequencesExt

CONSTANTS
  Item,         \* ids, nicks or settings
  Stored,       \* those in the table at first
  WebPage,      \* web threads
  MaxObjects,   \* objects (bound)
  MaxChanges,   \* handlers run (bound)
  MaxLost       \* failing commands (bound)

ChatThread == "chat thread"

ASSUME ProfilesAssumption ==
  /\ Stored \subseteq Item /\ ChatThread \notin WebPage
  /\ {MaxObjects, MaxChanges, MaxLost} \subseteq Nat /\ MaxObjects > 0

Worker == WebPage \cup {ChatThread}
Object == 1..MaxObjects
NoObject == 0

VARIABLES
  d_table,     \* "ignores", "contacts", "nicks" or "settings"
  d_rows,      \* the table
  d_map,       \* the object db_map holds
  d_obj,       \* what is in each object
  d_session,   \* chat_user::__user_profile (settings)
  d_work,      \* what each thread is doing, and the object it has
  d_queue,     \* update_commands
  d_batch,     \* the commands update_processor has taken out
  d_step,      \* what it does next with the first: "event", "cache", "query"
  d_events,    \* __chat_events of the user
  d_user,      \* chat_stuff_user: whether it is loaded, and its copy
  d_told,      \* what the user was told (history)
  d_odd,       \* items changed while somebody was reading, or lost (history)
  d_changes, d_lost

cacheVars == <<d_map, d_obj, d_session>>
boundVars == <<d_changes, d_lost>>
profilesVars ==
  <<d_table, d_rows, cacheVars, d_work, d_queue, d_batch, d_step, d_events, d_user,
    d_told, d_odd, boundVars>>

AtEase == [at |-> "idle", does |-> "nothing", item |-> "none", adds |-> FALSE, obj |-> NoObject]

ProfilesInit ==
  /\ d_table \in {"ignores", "contacts", "nicks", "settings"}
  /\ d_rows = Stored
  /\ d_obj = [o \in Object |-> IF o = 1 THEN Stored ELSE {}]
  /\ d_map = (IF d_table = "settings" THEN 1 ELSE NoObject)
  /\ d_session = d_map
  /\ d_work = [w \in Worker |-> AtEase]
  /\ d_queue = <<>> /\ d_batch = <<>> /\ d_step = "event"
  /\ d_events = <<>>
  /\ d_user = [loaded |-> FALSE, has |-> {}]
  /\ d_told = Stored /\ d_odd = {}
  /\ d_changes = 0 /\ d_lost = 0
-----------------------------------------------------------------------------
\* A command: the item is put into the set, or taken out.
Apply(c, S) == IF c.adds THEN S \cup {c.item} ELSE S \ {c.item}
Command(w) == [item |-> d_work[w].item, adds |-> d_work[w].adds]

WorkerAt(w, step) == d_work[w].at = step
GoTo(w, step) == d_work' = [d_work EXCEPT ![w].at = step]

Held == {d_map, d_session} \cup {d_work[w].obj : w \in Worker}
NewObject == {o \in Object \ Held : \A p \in Object \ Held : o <= p}

\* The command whose object has been changed but whose row has not.
Updating == IF d_step = "query" THEN {Head(d_batch).item} ELSE {}
InFlight == IF d_batch # <<>> /\ d_step # "event" THEN {Head(d_batch).item} ELSE {}
-----------------------------------------------------------------------------
(* db_map.                                                                   *)

\* find_by_id_create: the lookup under the lock.
find(w) ==
  /\ WorkerAt(w, "find")
  /\ d_work' = [d_work EXCEPT ![w].at = IF d_map = NoObject THEN "load" ELSE "look", ![w].obj = d_map]
  /\ UNCHANGED <<d_table, d_rows, cacheVars, d_queue, d_batch, d_step, d_events, d_user, d_told, d_odd, boundVars>>

\* load_from_db of a new object.
load_from_db(w) ==
  /\ WorkerAt(w, "load")
  /\ \E o \in NewObject :
       /\ d_obj' = [d_obj EXCEPT ![o] = d_rows]
       /\ d_work' = [d_work EXCEPT ![w].at = "insert", ![w].obj = o]
  /\ d_odd' = d_odd \cup Updating
  /\ UNCHANGED <<d_table, d_rows, d_map, d_session, d_queue, d_batch, d_step, d_events, d_user, d_told, boundVars>>

\* container.insert: an object that is there stays, and the caller keeps its own.
Inserted(o) == IF d_map = NoObject THEN o ELSE d_map

insert(w) ==
  /\ WorkerAt(w, "insert")
  /\ d_map' = Inserted(d_work[w].obj)
  /\ GoTo(w, "look")
  /\ UNCHANGED <<d_table, d_rows, d_obj, d_session, d_queue, d_batch, d_step, d_events, d_user, d_told, d_odd, boundVars>>

\* purge: an object nobody else holds, after a while; clear_key and
\* clear_containers: any.
drop(flushes) ==
  /\ d_map # NoObject
  /\ flushes \/ (d_session # d_map /\ \A w \in Worker : d_work[w].obj # d_map)
  /\ d_map' = NoObject
  /\ UNCHANGED <<d_table, d_rows, d_obj, d_session, d_work, d_queue, d_batch, d_step, d_events, d_user, d_told, d_odd, boundVars>>
-----------------------------------------------------------------------------
(* Pages.                                                                    *)

\* Two pages of the user about the same item at once.
Crowded(i) == IF \E w \in WebPage : d_work[w].item = i THEN {i} ELSE {}

start_page(w, what, i) ==
  /\ WorkerAt(w, "idle")
  /\ d_changes < MaxChanges /\ d_changes' = d_changes + 1
  /\ d_work' = [d_work EXCEPT ![w] = [AtEase EXCEPT !.at = "find", !.does = what, !.item = i]]
  /\ d_odd' = d_odd \cup Crowded(i)
  /\ UNCHANGED <<d_table, d_rows, cacheVars, d_queue, d_batch, d_step, d_events, d_user, d_told, d_lost>>

url_ignore_user(w, i) == d_table = "ignores" /\ start_page(w, "toggle", i)
url_remove_nick(w, i) == d_table = "nicks" /\ start_page(w, "remove", i)

\* url_New_nick: nobody has the nick.
url_New_nick(w, i) ==
  /\ d_table = "nicks" /\ i \notin d_rows
  /\ \A v \in WebPage : d_work[v].does # "add"
  /\ start_page(w, "add", i)

\* The object is read under its lock, what is to be done decided, and the lock
\* given back.
look(w) ==
  LET k == d_work[w]
      has == d_obj[k.obj] IN
  /\ WorkerAt(w, "look") /\ w # ChatThread
  /\ \/ /\ k.does = "toggle"
        /\ d_work' = [d_work EXCEPT ![w].at = "write", ![w].adds = k.item \notin has]
     \/ /\ k.does = "remove"
        /\ d_work' = [d_work EXCEPT ![w] = IF Cardinality(has) > 1 THEN [k EXCEPT !.at = "write"] ELSE AtEase]
     \/ /\ k.does = "add"
        /\ d_work' = [d_work EXCEPT ![w].at = "row", ![w].adds = TRUE]
  /\ UNCHANGED <<d_table, d_rows, cacheVars, d_queue, d_batch, d_step, d_events, d_user, d_told, d_odd, boundVars>>

\* url_New_nick stores the row itself.
insert_row(w) ==
  /\ WorkerAt(w, "row")
  /\ d_rows' = d_rows \cup {d_work[w].item}
  /\ GoTo(w, "write")
  /\ UNCHANGED <<d_table, cacheVars, d_queue, d_batch, d_step, d_events, d_user, d_told, d_odd, boundVars>>

\* The object is changed, and the user told.  What is not there is not removed.
write(w) ==
  LET k == d_work[w] IN
  /\ WorkerAt(w, "write")
  /\ IF k.does = "remove" /\ k.item \notin d_obj[k.obj]
     THEN d_work' = [d_work EXCEPT ![w] = AtEase] /\ UNCHANGED <<d_obj, d_told>>
     ELSE /\ d_obj' = [d_obj EXCEPT ![k.obj] = Apply(Command(w), @)]
          /\ d_told' = Apply(Command(w), d_told)
          /\ GoTo(w, "end")
  /\ UNCHANGED <<d_table, d_rows, d_map, d_session, d_queue, d_batch, d_step, d_events, d_user, d_odd, boundVars>>

\* Mutant: commands get before those that wait.
Queued_first(c) == <<c>> \o d_queue

Queued(c) == Append(d_queue, c)

\* ~st_update
end(w) ==
  /\ WorkerAt(w, "end")
  /\ d_queue' = Queued(Command(w))
  /\ d_work' = [d_work EXCEPT ![w] = AtEase]
  /\ UNCHANGED <<d_table, d_rows, cacheVars, d_batch, d_step, d_events, d_user, d_told, d_odd, boundVars>>

\* url_change_male_mode and its like turn a setting over in the session's own
\* object, under one lock, and tell the chat thread at once.
url_change_mode(w, i) ==
  /\ d_table = "settings"
  /\ WorkerAt(w, "idle")
  /\ d_changes < MaxChanges /\ d_changes' = d_changes + 1
  /\ LET c == [item |-> i, adds |-> i \notin d_obj[d_session]] IN
       /\ d_obj' = [d_obj EXCEPT ![d_session] = Apply(c, @)]
       /\ d_told' = Apply(c, d_told)
       /\ d_events' = Append(d_events, c)
       /\ d_work' = [d_work EXCEPT ![w] = [AtEase EXCEPT !.at = "end", !.item = i, !.adds = c.adds]]
  /\ d_odd' = d_odd \cup Crowded(i)
  /\ UNCHANGED <<d_table, d_rows, d_map, d_session, d_queue, d_batch, d_step, d_user, d_lost>>
-----------------------------------------------------------------------------
(* The chat thread.                                                          *)

preload_user ==
  /\ WorkerAt(ChatThread, "idle") /\ ~ d_user.loaded
  /\ GoTo(ChatThread, "find")
  /\ UNCHANGED <<d_table, d_rows, cacheVars, d_queue, d_batch, d_step, d_events, d_user, d_told, d_odd, boundVars>>

\* The object is copied.
preloaded ==
  /\ WorkerAt(ChatThread, "look")
  /\ d_user' = [loaded |-> TRUE, has |-> d_obj[d_work[ChatThread].obj]]
  /\ d_odd' = d_odd \cup InFlight
  /\ d_work' = [d_work EXCEPT ![ChatThread] = AtEase]
  /\ UNCHANGED <<d_table, d_rows, cacheVars, d_queue, d_batch, d_step, d_events, d_told, boundVars>>

unload_user ==
  /\ WorkerAt(ChatThread, "idle") /\ d_user.loaded
  /\ d_user' = [loaded |-> FALSE, has |-> {}]
  /\ UNCHANGED <<d_table, d_rows, cacheVars, d_work, d_queue, d_batch, d_step, d_events, d_told, d_odd, boundVars>>

\* on_UPDATE_DATA, and CHANGE_CONTACT_MODE of on_SET_user_state.
on_UPDATE_DATA ==
  /\ WorkerAt(ChatThread, "idle") /\ d_events # <<>>
  /\ d_user' = IF d_user.loaded THEN [d_user EXCEPT !.has = Apply(Head(d_events), @)] ELSE d_user
  /\ d_events' = Tail(d_events)
  /\ UNCHANGED <<d_table, d_rows, cacheVars, d_work, d_queue, d_batch, d_step, d_told, d_odd, boundVars>>

\* user_process_send_message_priv: who is written to becomes a contact.
send_message_priv(i) ==
  /\ d_table = "contacts"
  /\ WorkerAt(ChatThread, "idle") /\ d_user.loaded /\ i \notin d_user.has
  /\ d_changes < MaxChanges /\ d_changes' = d_changes + 1
  /\ d_user' = [d_user EXCEPT !.has = @ \cup {i}]
  /\ d_queue' = Queued([item |-> i, adds |-> TRUE])
  /\ d_told' = d_told \cup {i}
  /\ UNCHANGED <<d_table, d_rows, cacheVars, d_work, d_batch, d_step, d_events, d_odd, d_lost>>
-----------------------------------------------------------------------------
(* update_processor.                                                         *)

extract_all ==
  /\ d_batch = <<>> /\ d_queue # <<>>
  /\ d_batch' = d_queue /\ d_queue' = <<>>
  /\ UNCHANGED <<d_table, d_rows, cacheVars, d_work, d_step, d_events, d_user, d_told, d_odd, boundVars>>

\* Mutant: the chat thread is not told.
Notified_not(c) == d_events

Notified(c) == Append(d_events, c)

send_event ==
  /\ d_batch # <<>> /\ d_step = "event"
  /\ d_events' = Notified(Head(d_batch))
  /\ d_step' = "cache"
  /\ UNCHANGED <<d_table, d_rows, cacheVars, d_work, d_queue, d_batch, d_user, d_told, d_odd, boundVars>>

\* Mutant: the cached object is left as it is.
Refreshed_not(c) == d_obj

Refreshed(c) == IF d_map = NoObject THEN d_obj ELSE [d_obj EXCEPT ![d_map] = Apply(c, @)]

\* A load that has read the table and not yet inserted its object misses this,
\* and the chat thread may, when it is about to copy an object.
update_cache ==
  /\ d_step = "cache"
  /\ d_obj' = Refreshed(Head(d_batch))
  /\ d_odd' = IF ~ WorkerAt(ChatThread, "idle") \/ \E w \in WebPage : WorkerAt(w, "insert") THEN d_odd \cup {Head(d_batch).item} ELSE d_odd
  /\ d_step' = "query"
  /\ UNCHANGED <<d_table, d_rows, d_map, d_session, d_work, d_queue, d_batch, d_events, d_user, d_told, boundVars>>

update_row ==
  /\ d_step = "query"
  /\ d_rows' = Apply(Head(d_batch), d_rows)
  /\ d_batch' = Tail(d_batch)
  /\ d_step' = "event"
  /\ UNCHANGED <<d_table, cacheVars, d_work, d_queue, d_events, d_user, d_told, d_odd, boundVars>>

Unsaved(batch) == {batch[i].item : i \in DOMAIN batch}

\* The query throws: the rest of the batch goes with the command.
update_fails ==
  /\ d_step = "query" /\ d_lost < MaxLost
  /\ d_lost' = d_lost + 1
  /\ d_odd' = d_odd \cup Unsaved(d_batch)
  /\ d_batch' = <<>>
  /\ d_step' = "event"
  /\ UNCHANGED <<d_table, d_rows, cacheVars, d_work, d_queue, d_events, d_user, d_told, d_changes>>

WorkerSteps(w) ==
  find(w) \/ load_from_db(w) \/ insert(w) \/ look(w) \/ insert_row(w) \/ write(w) \/ end(w)
ChatSteps ==
  \/ preload_user \/ preloaded \/ unload_user \/ on_UPDATE_DATA
  \/ \E i \in Item : send_message_priv(i)
Updater == extract_all \/ send_event \/ update_cache \/ update_row \/ update_fails
Requests(w) ==
  \E i \in Item : url_ignore_user(w, i) \/ url_remove_nick(w, i) \/ url_New_nick(w, i) \/ url_change_mode(w, i)

ProfilesNext ==
  \/ \E w \in Worker : WorkerSteps(w)
  \/ \E w \in WebPage : Requests(w)
  \/ \E flushes \in BOOLEAN : drop(flushes)
  \/ ChatSteps \/ Updater
ProfilesSpec == ProfilesInit /\ [][ProfilesNext]_profilesVars
-----------------------------------------------------------------------------
Settled ==
  /\ d_queue = <<>> /\ d_batch = <<>> /\ d_events = <<>>
  /\ \A w \in Worker : WorkerAt(w, "idle")

Differ(S, T) == (S \ T) \cup (T \ S)

\* When all is done, the cached object differs from the table only in what was
\* changed while somebody was loading it, or was lost with a failing command.
CacheFollows == Settled /\ d_map # NoObject => Differ(d_obj[d_map], d_rows) \subseteq d_odd

\* So does the chat thread's copy.
ChatFollows == Settled /\ d_user.loaded => Differ(d_user.has, d_rows) \subseteq d_odd

\* What the user was told last is what the table says, but for changes that were
\* lost, or that two pages made at once.
ToldIsStored == Settled => Differ(d_told, d_rows) \subseteq d_odd

\* When all is done the cache, the chat thread and what the user was told agree
\* with the table, but for what overlapped or was lost.
ProfileFollows == CacheFollows /\ ChatFollows /\ ToldIsStored
=============================================================================
