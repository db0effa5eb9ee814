-------------------------------- MODULE Klaps --------------------------------
(* Klaps (a user may not speak on a channel) and the moderators who lay them, *)
(* for one channel.  _klap_stuff holds the klaps by id and, rebuilt after     *)
(* each change, the id for a user; chat_channels holds the moderators the     *)
(* pages ask for; the chat thread has its own copy of both.  All of them      *)
(* follow the commands of the update processor, which adds and removes in     *)
(* _klap_stuff once more.                                                     *)
EXTENDS Integers, Sequences, FiniteSets, FiniteSetsExt, SequencesExt

CONSTANTS
  Offender,    \* users under klaps
  Moder,       \* users who may be moderators
  Moderator,   \* those who are at first
  KlapPage,    \* web threads
  MaxKlaps,    \* klaps laid (bound)
  MaxEdits     \* changes of the channel and of its moderators (bound)

ASSUME KlapsAssumption == Moderator \subseteq Moder /\ "nobody" \notin Offender /\ {MaxKlaps, MaxEdits} \subseteq Nat

KlapId == 1..MaxKlaps
NoKlap == [n |-> 0, id |-> 0, uid |-> "nobody"]
EmptyItem(id) == [NoKlap EXCEPT !.id = id]

VARIABLES
  kl_items,     \* klap_stuff::items: the klap, or an empty item, by id
  kl_by_uid,    \* klap_stuff::by_uid
  kl_moders,    \* the moderators: [rows, pages, chat], chat_channels' in pages
  kl_klaped,    \* the chat thread's klaped_logins_stuff
  kl_page,      \* what each web thread is doing, and what it has read
  kl_queue, kl_batch, kl_step, kl_events,   \* as in Profiles
  kl_laid,      \* the klaps laid (history)
  kl_lifted,    \* those somebody lifted (history)
  kl_lapsed,    \* those whose time is over
  kl_blurred,   \* klaps that met another of the same user or id (history)
  kl_wiped,     \* klaps and moderators a change of the channel met (history)
  kl_edits

klapVars == <<kl_items, kl_by_uid, kl_laid, kl_lifted, kl_lapsed, kl_blurred>>
commandVars == <<kl_queue, kl_batch, kl_step, kl_events>>
channelVars == <<kl_moders, kl_klaped, kl_wiped, kl_edits>>
allKlapVars == <<klapVars, commandVars, channelVars, kl_page>>

PageAtRest == [at |-> "idle", klap |-> NoKlap, moders |-> {}, uid |-> "nobody"]

KlapsInit ==
  /\ kl_items = <<>>
  /\ kl_by_uid = <<>>
  /\ kl_moders = [rows |-> Moderator, pages |-> Moderator, chat |-> Moderator]
  /\ kl_klaped = <<>>
  /\ kl_page = [p \in KlapPage |-> PageAtRest]
  /\ kl_queue = <<>> /\ kl_batch = <<>> /\ kl_step = "event" /\ kl_events = <<>>
  /\ kl_laid = {} /\ kl_lifted = {} /\ kl_lapsed = {}
  /\ kl_blurred = {} /\ kl_wiped = {} /\ kl_edits = 0
-----------------------------------------------------------------------------
WithKlap(f, x, y) == [z \in {x} \cup DOMAIN f |-> IF z = x THEN y ELSE f[z]]
WithoutKlap(f, x) == [z \in DOMAIN f \ {x} |-> f[z]]
PageAt(p, step) == kl_page[p].at = step
PageGoes(p, step) == kl_page' = [kl_page EXCEPT ![p].at = step]

\* rebuild_NM: the last unexpired klap of each user, in the order of the ids.
InForce(items) == {i \in DOMAIN items : items[i].n # 0 /\ items[i] \notin kl_lapsed}
rebuild_NM(items) ==
  [u \in {items[i].uid : i \in InForce(items)} |-> Max({i \in InForce(items) : items[i].uid = u})]

SetItems(items) == kl_items' = items /\ kl_by_uid' = rebuild_NM(items)

add__klap(k) == IF k \in kl_lapsed THEN UNCHANGED <<kl_items, kl_by_uid>> ELSE SetItems(WithKlap(kl_items, k.id, k))

InHand == {kl_page[p].klap : p \in KlapPage}
BeingLaid == {kl_page[p].klap : p \in {q \in KlapPage : PageAt(q, "add") \/ PageAt(q, "queue add")}}
Pending == kl_queue \o kl_batch \o kl_events
Known == kl_laid \cup InHand
Akin(k, j) == j.n # 0 /\ j # k /\ (j.uid = k.uid \/ j.id = k.id)

\* Klaps a command to remove k may hit instead.
Near(k) == {j \in Known : Akin(k, j)}

\* Klaps of the user that are in force or being laid.
Rivals(u) == {j \in {kl_items[i] : i \in InForce(kl_items)} \cup BeingLaid : j.uid = u}

\* A klap that comes while an akin one is in force, in hand or in a command.
Blurs(k) ==
  (IF \E j \in InHand \cup {Pending[i].klap : i \in DOMAIN Pending} : Akin(k, j) THEN {k} ELSE {})
  \cup (IF Rivals(k.uid) # {} THEN Rivals(k.uid) \cup {k} ELSE {})
-----------------------------------------------------------------------------
(* Pages: url_admin_ban, url_admin_ban_uid, url_klap_user.                   *)

\* Mutant: the id is taken but not reserved.
Reserved_not(id) == kl_items

Reserved(id) == WithKlap(kl_items, id, EmptyItem(id))

\* The id after the largest, which is reserved.
get_next_klap_id(p, u) ==
  LET id == Max({0} \cup DOMAIN kl_items) + 1
      k == [n |-> Max({0} \cup {j.n : j \in Known}) + 1, id |-> id, uid |-> u] IN
  /\ PageAt(p, "idle")
  /\ k.n <= MaxKlaps /\ id <= MaxKlaps
  /\ kl_items' = Reserved(id)
  /\ kl_page' = [kl_page EXCEPT ![p] = [PageAtRest EXCEPT !.at = "add", !.klap = k]]
  /\ kl_blurred' = kl_blurred \cup Blurs(k)
  /\ UNCHANGED <<kl_by_uid, kl_laid, kl_lifted, kl_lapsed, commandVars, channelVars>>

\* add_klap$$: by a moderator of the channel only; otherwise the reserved id stays.
add_klap(p) ==
  /\ PageAt(p, "add")
  /\ \/ /\ kl_moders.pages # {}
        /\ add__klap(kl_page[p].klap)
        /\ kl_laid' = kl_laid \cup {kl_page[p].klap}
        /\ PageGoes(p, "queue add")
     \/ /\ kl_moders.pages # Moder
        /\ kl_page' = [kl_page EXCEPT ![p] = PageAtRest]
        /\ UNCHANGED <<kl_items, kl_by_uid, kl_laid>>
  /\ UNCHANGED <<kl_lifted, kl_lapsed, kl_blurred, commandVars, channelVars>>

\* ~st_update of add_klap$$.
queue_add(p) ==
  /\ PageAt(p, "queue add")
  /\ kl_queue' = Append(kl_queue, [cmd |-> "ban$add", klap |-> kl_page[p].klap])
  /\ kl_page' = [kl_page EXCEPT ![p] = PageAtRest]
  /\ UNCHANGED <<klapVars, kl_batch, kl_step, kl_events, channelVars>>

\* remove_klap_NOLOCK of the id of a klap, its st_update included: what has the
\* id by now is removed.
Lifted(k) ==
  IF k.id \in DOMAIN kl_items
  THEN LET hit == kl_items[k.id] IN
       /\ SetItems(WithoutKlap(kl_items, k.id))
       /\ kl_queue' = Append(kl_queue, [cmd |-> "ban$remove", klap |-> hit])
       /\ kl_blurred' = kl_blurred \cup Near(hit) \cup (IF hit # k \/ hit \in BeingLaid THEN {hit} ELSE {})
  ELSE UNCHANGED <<kl_items, kl_by_uid, kl_queue, kl_blurred>>

\* remove_klap: the klap is looked up; the levels are read from the database.
get_item(p, id) ==
  /\ PageAt(p, "idle")
  /\ id \in DOMAIN kl_items
  /\ kl_page' = [kl_page EXCEPT ![p] = [PageAtRest EXCEPT !.at = "lift", !.klap = kl_items[id]]]
  /\ UNCHANGED <<klapVars, commandVars, channelVars>>

remove_klap(p) ==
  /\ PageAt(p, "lift")
  /\ Lifted(kl_page[p].klap)
  /\ kl_lifted' = kl_lifted \cup ({kl_page[p].klap} \cap kl_laid)
  /\ kl_page' = [kl_page EXCEPT ![p] = PageAtRest]
  /\ UNCHANGED <<kl_laid, kl_lapsed, kl_batch, kl_step, kl_events, channelVars>>

\* check_ban_by_uid, on a message of the user or a join: a klap whose time is
\* over is removed.
check_ban_by_uid(u) ==
  /\ u \in DOMAIN kl_by_uid
  /\ kl_items[kl_by_uid[u]] \in kl_lapsed
  /\ Lifted(kl_items[kl_by_uid[u]])
  /\ kl_lifted' = kl_lifted \cup {kl_items[kl_by_uid[u]]}
  /\ UNCHANGED <<kl_page, kl_laid, kl_lapsed, kl_batch, kl_step, kl_events, channelVars>>

lapse(k) ==
  /\ kl_lapsed' = kl_lapsed \cup {k}
  /\ UNCHANGED <<kl_items, kl_by_uid, kl_laid, kl_lifted, kl_blurred, kl_page, commandVars, channelVars>>
-----------------------------------------------------------------------------
(* Pages: url_admin_moders, url_admin_channels_edit.                         *)

CountEdit == kl_edits < MaxEdits /\ kl_edits' = kl_edits + 1

\* Moderators somebody changes while another page has read the table.
Overtaken(m) == IF \E p \in KlapPage : PageAt(p, "update") THEN {m} ELSE {}

\* Mutant: the row is not stored.
ModeratorRows_not(m, adds) == kl_moders

ModeratorRows(m, adds) == [kl_moders EXCEPT !.rows = IF adds THEN @ \cup {m} ELSE @ \ {m}]

\* add_moderator, remove_moderator: the row, then ~st_update.
change_moderator(p, m, adds) ==
  /\ PageAt(p, "idle")
  /\ CountEdit
  /\ kl_moders' = ModeratorRows(m, adds)
  /\ kl_page' = [kl_page EXCEPT ![p] = [PageAtRest EXCEPT !.at = IF adds THEN "queue moderator$add" ELSE "queue moderator$remove", !.uid = m]]
  /\ kl_wiped' = kl_wiped \cup (IF \E q \in KlapPage \ {p} : kl_page[q].uid = m THEN {m} ELSE {}) \cup Overtaken(m)
  /\ UNCHANGED <<klapVars, commandVars, kl_klaped>>

queue_moderator(p, adds) ==
  /\ PageAt(p, IF adds THEN "queue moderator$add" ELSE "queue moderator$remove")
  /\ kl_queue' = Append(kl_queue, [cmd |-> IF adds THEN "moderator$add" ELSE "moderator$remove", klap |-> NoKlap, uid |-> kl_page[p].uid])
  /\ kl_page' = [kl_page EXCEPT ![p] = PageAtRest]
  /\ UNCHANGED <<klapVars, kl_batch, kl_step, kl_events, channelVars>>

\* load_channels: the moderators are those of the table; the klaps are not, for
\* ban$add stores the columns of a klap in the wrong order.
load_channels(p) ==
  /\ PageAt(p, "idle")
  /\ CountEdit
  /\ kl_page' = [kl_page EXCEPT ![p] = [PageAtRest EXCEPT !.at = "update", !.moders = kl_moders.rows]]
  /\ UNCHANGED <<klapVars, commandVars, kl_moders, kl_klaped, kl_wiped>>

update_channel(p) ==
  /\ PageAt(p, "update")
  /\ kl_queue' = Append(kl_queue, [cmd |-> "channel$update", klap |-> NoKlap, moders |-> kl_page[p].moders])
  /\ kl_page' = [kl_page EXCEPT ![p] = PageAtRest]
  /\ UNCHANGED <<klapVars, kl_batch, kl_step, kl_events, channelVars>>
-----------------------------------------------------------------------------
(* update_processor.                                                         *)

take_commands ==
  /\ kl_batch = <<>> /\ kl_queue # <<>>
  /\ kl_batch' = kl_queue /\ kl_queue' = <<>>
  /\ UNCHANGED <<klapVars, kl_step, kl_events, channelVars, kl_page>>

push_event ==
  /\ kl_batch # <<>> /\ kl_step = "event"
  /\ kl_events' = Append(kl_events, Head(kl_batch))
  /\ kl_step' = "datum"
  /\ UNCHANGED <<klapVars, kl_queue, kl_batch, channelVars, kl_page>>

\* The moderators after a command.
Changed(c, M) ==
  CASE c.cmd = "moderator$add" -> M \cup {c.uid}
    [] c.cmd = "moderator$remove" -> M \ {c.uid}
    [] c.cmd = "channel$update" -> c.moders
    [] OTHER -> M

\* Mutant: a klap is added again, but not removed again.
Again_not(c) ==
  IF c.cmd = "ban$add" THEN add__klap(c.klap) /\ UNCHANGED <<kl_queue, kl_blurred>>
  ELSE UNCHANGED <<kl_items, kl_by_uid, kl_queue, kl_blurred>>

\* ban$add adds the klap once more, ban$remove removes what has its id.
Again(c) ==
  CASE c.cmd = "ban$add" -> add__klap(c.klap) /\ UNCHANGED <<kl_queue, kl_blurred>>
    [] c.cmd = "ban$remove" -> Lifted(c.klap)
    [] OTHER -> UNCHANGED <<kl_items, kl_by_uid, kl_queue, kl_blurred>>

update_klap_datum ==
  /\ kl_step = "datum"
  /\ Again(Head(kl_batch))
  /\ kl_moders' = [kl_moders EXCEPT !.pages = Changed(Head(kl_batch), @)]
  /\ kl_batch' = Tail(kl_batch)
  /\ kl_step' = "event"
  /\ UNCHANGED <<kl_laid, kl_lifted, kl_lapsed, kl_events, kl_klaped, kl_wiped, kl_edits, kl_page>>
-----------------------------------------------------------------------------
(* The chat thread.                                                          *)

\* Mutant: removing one klap clears those of the channel.
KlapedAfter_clears(c) ==
  CASE c.cmd = "ban$add" -> WithKlap(kl_klaped, c.klap.uid, c.klap)
    [] c.cmd = "ban$remove" -> <<>>
    [] OTHER -> kl_klaped

KlapedAfter(c) ==
  CASE c.cmd = "ban$add" -> WithKlap(kl_klaped, c.klap.uid, c.klap)
    [] c.cmd = "ban$remove" -> WithoutKlap(kl_klaped, c.klap.uid)
    [] c.cmd = "channel$update" -> <<>>
    [] OTHER -> kl_klaped

on_ban_and_channel ==
  /\ kl_events # <<>>
  /\ LET c == Head(kl_events) IN
       /\ kl_klaped' = KlapedAfter(c)
       /\ kl_moders' = [kl_moders EXCEPT !.chat = Changed(c, @)]
       /\ kl_wiped' = IF c.cmd = "channel$update" THEN kl_wiped \cup kl_laid ELSE kl_wiped
  /\ kl_events' = Tail(kl_events)
  /\ UNCHANGED <<klapVars, kl_queue, kl_batch, kl_step, kl_edits, kl_page>>

\* On a message or a topic of the user: a klap whose time is over is forgotten.
check_klaped(u) ==
  /\ u \in DOMAIN kl_klaped /\ kl_klaped[u] \in kl_lapsed
  /\ kl_klaped' = WithoutKlap(kl_klaped, u)
  /\ UNCHANGED <<klapVars, commandVars, kl_moders, kl_wiped, kl_edits, kl_page>>

KlapPageSteps(p) ==
  \/ \E u \in Offender : get_next_klap_id(p, u)
  \/ add_klap(p) \/ queue_add(p)
  \/ \E id \in KlapId : get_item(p, id)
  \/ remove_klap(p)
  \/ \E m \in Moder, adds \in BOOLEAN : change_moderator(p, m, adds)
  \/ \E adds \in BOOLEAN : queue_moderator(p, adds)
  \/ load_channels(p) \/ update_channel(p)

KlapsNext ==
  \/ \E p \in KlapPage : KlapPageSteps(p)
  \/ \E u \in Offender : check_ban_by_uid(u) \/ check_klaped(u)
  \/ \E k \in kl_laid \ kl_lapsed : lapse(k)
  \/ take_commands \/ push_event \/ update_klap_datum \/ on_ban_and_channel
KlapsSpec == KlapsInit /\ [][KlapsNext]_allKlapVars
-----------------------------------------------------------------------------
KlapsSettled ==
  /\ kl_queue = <<>> /\ kl_batch = <<>> /\ kl_events = <<>>
  /\ \A p \in KlapPage : PageAt(p, "idle")

Standing == kl_laid \ (kl_lifted \cup kl_lapsed \cup kl_blurred)

\* When all is done, a klap nobody lifted holds for the pages: no other user's
\* klap took its id, whichever threads were laying and lifting klaps.
KlapStands == KlapsSettled => \A k \in Standing : k.uid \in DOMAIN kl_by_uid /\ kl_items[kl_by_uid[k.uid]] = k

\* It holds in the chat thread too, unless the channel was changed.
ChatKlaps == KlapsSettled => \A k \in Standing \ kl_wiped : k.uid \in DOMAIN kl_klaped /\ kl_klaped[k.uid] = k

\* A lifted klap does not come back with the commands still under way.
LiftedGone ==
  KlapsSettled => \A k \in kl_lifted \ kl_blurred :
    /\ \A i \in DOMAIN kl_items : kl_items[i] # k
    /\ \A u \in DOMAIN kl_klaped : kl_klaped[u] # k

\* When all is done the pages and the chat thread have the moderators of the
\* table, but for those changed between the reading and the storing of a channel.
ModeratorsAgree ==
  KlapsSettled => \A s \in {"pages", "chat"} :
    (kl_moders[s] \ kl_moders.rows) \cup (kl_moders.rows \ kl_moders[s]) \subseteq kl_wiped

\* Klaps and moderators are the same everywhere when all is done.
KlapsAgree == KlapStands /\ ChatKlaps /\ LiftedGone /\ ModeratorsAgree
=============================================================================
