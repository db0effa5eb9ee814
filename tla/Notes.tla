-------------------------------- MODULE Notes --------------------------------
(* Notes: the folders and notes of one user, cached in __notes; the web pages *)
(* that change the cache under its lock and collect commands for the update  *)
(* processor, which get into its queue when the handler returns; and the     *)
(* update processor, which does every command again, on the cache and on the *)
(* database.  A scope of a lock is one step; a page is a list of steps.      *)
EXTENDS Integers, Sequences, FiniteSets, FiniteSetsExt, SequencesExt, Functions, TLC

CONSTANTS
  Incoming,     \* notes another user sends
  Outgoing,     \* notes the user sends
  System,       \* notes of send_system_note
  Page,         \* web threads
  MaxId,        \* note ids (bound)
  MaxFolder,    \* folder ids (bound)
  MaxPages      \* handlers run (bound)

ASSUME NotesAssumption == {MaxId, MaxFolder, MaxPages} \subseteq Nat

Id == 1..MaxId
Fid == 1..MaxFolder
Side == {"in", "out"}
Anyone == "anyone"     \* 0 in the filters
Friend == "friend"     \* the other user

VARIABLES
  n_folders,   \* u_notes::map_folders
  n_heads,     \* u_notes::map_msgs
  n_texts,     \* note_texts
  n_db,        \* tables note_folders, filters_in, filters_out, notes, note_texts
  n_queue,     \* update_commands
  n_page,      \* steps each thread still has to do, commands it has collected
  n_sent,      \* notes sent (history)
  n_deleted,   \* notes deleted by the user (history)
  n_moved,     \* notes moved by the user (history)
  n_pages      \* handlers started

boxVars == <<n_folders, n_heads, n_texts>>
notesVars == <<n_folders, n_heads, n_texts, n_db, n_queue, n_page, n_sent, n_deleted, n_moved, n_pages>>

EmptyFolder == [in |-> {}, out |-> {}, msgs |-> {}]
NewHead(m) == [note |-> m, unread |-> m \notin Outgoing, status |-> "sent"]
NoHead == [note |-> "none", unread |-> TRUE, status |-> "read"]

\* own: st_update of the handler.  cfg: st_update of check_notes_config.
\* fid, id: what it has chosen.
NoPage == [todo |-> <<>>, own |-> <<>>, cfg |-> <<>>, fid |-> 0, id |-> 0]

NotesInit ==
  /\ n_folders = (1 :> [EmptyFolder EXCEPT !.in = {Anyone}]) @@ (2 :> [EmptyFolder EXCEPT !.out = {Anyone}])
  /\ n_heads = <<>> /\ n_texts = <<>>
  /\ n_db = [folders |-> {1, 2}, in |-> {<<1, Anyone>>}, out |-> {<<2, Anyone>>}, notes |-> {}, texts |-> {}]
  /\ n_queue = <<>>
  /\ n_page = [p \in Page |-> NoPage]
  /\ n_sent = {} /\ n_deleted = {} /\ n_moved = {}
  /\ n_pages = 0
-----------------------------------------------------------------------------
\* u_notes::resort: no note twice in a folder, a head for every note.
resort(folders, heads) ==
  heads @@ [i \in UNION {folders[f].msgs : f \in DOMAIN folders} |-> NoHead]

\* map::operator[]
FolderIn(folders, f) == IF f \in DOMAIN folders THEN folders[f] ELSE EmptyFolder

\* Mutant: ids are counted.
NextId_count(S) == Cardinality(S) + 1

\* rbegin()->first + 1
NextId(S) == IF S = {} THEN 1 ELSE Max(S) + 1

\* The last folder with a filter, 0 without.
FolderFor(side, who) ==
  Max({0} \cup {f \in DOMAIN n_folders : who \in n_folders[f][side]})

Without(f, S) == Restrict(f, DOMAIN f \ S)
InFolders == UNION {n_folders[f].msgs : f \in DOMAIN n_folders}

\* Steps of pages.
Next1(p, s) == n_page[p].todo # <<>> /\ Head(n_page[p].todo).do = s
Arg(p) == Head(n_page[p].todo)
Done(p, cmds) == n_page' = [n_page EXCEPT ![p].todo = Tail(@), ![p].own = @ \o cmds]
Abort(p) == n_page' = [n_page EXCEPT ![p].todo = <<[do |-> "flush"]>>]
Look == <<[do |-> "check"], [do |-> "queue"]>>

start(p, steps) ==
  /\ n_page[p] = NoPage
  /\ n_pages < MaxPages /\ n_pages' = n_pages + 1
  /\ n_page' = [n_page EXCEPT ![p].todo = steps]
  /\ UNCHANGED <<boxVars, n_db, n_queue, n_sent, n_deleted, n_moved>>

\* A note nobody has sent yet.
Fresh(m) ==
  m \notin n_sent /\ \A p \in Page : \A i \in DOMAIN n_page[p].todo :
    "note" \in DOMAIN n_page[p].todo[i] => n_page[p].todo[i].note # m

\* ~st_update at the end of the handler.
flush(p) ==
  /\ Next1(p, "flush")
  /\ n_queue' = n_queue \o n_page[p].own
  /\ n_page' = [n_page EXCEPT ![p] = NoPage]
  /\ UNCHANGED <<boxVars, n_db, n_sent, n_deleted, n_moved, n_pages>>

queue_check(p) ==
  /\ Next1(p, "queue")
  /\ n_queue' = n_queue \o n_page[p].cfg
  /\ n_page' = [n_page EXCEPT ![p].todo = Tail(@), ![p].cfg = <<>>]
  /\ UNCHANGED <<boxVars, n_db, n_sent, n_deleted, n_moved, n_pages>>

\* check_notes_config: makes the folders notes go to and drops the notes of no
\* folder.
check_notes_config(p) ==
  LET With(folders, side) ==
        IF FolderFor(side, Anyone) # 0 THEN folders
        ELSE folders @@ (NextId(DOMAIN folders) :> [EmptyFolder EXCEPT ![side] = {Anyone}])
      folders == With(With(n_folders, "in"), "out")
      Made(side) == {f \in DOMAIN folders \ DOMAIN n_folders : Anyone \in folders[f][side]}
      Created(side) == FlattenSeq([i \in 1..Cardinality(Made(side)) |->
        << [cmd |-> "folder_create", fid |-> Max(Made(side))],
           [cmd |-> "filter_insert", side |-> side, fid |-> Max(Made(side)), who |-> Anyone] >>])
      lost == SetToSortSeq(DOMAIN n_heads \ InFolders, <) IN
  /\ Next1(p, "check")
  /\ DOMAIN folders \subseteq Fid
  /\ n_folders' = folders
  /\ n_heads' = Restrict(n_heads, InFolders)
  /\ n_page' = [n_page EXCEPT ![p].todo = Tail(@), ![p].cfg = Created("in") \o Created("out")
       \o [i \in DOMAIN lost |-> [cmd |-> "remove", id |-> lost[i]]]]
  /\ UNCHANGED <<n_texts, n_db, n_queue, n_sent, n_deleted, n_moved, n_pages>>
-----------------------------------------------------------------------------
(* Sending.                                                                  *)

\* url_notes_send, on the side of the receiver and on that of the sender.
url_notes_send(p, m, side) ==
  /\ Fresh(m)
  /\ start(p, Look \o << [do |-> "choose", side |-> side], [do |-> "insert", note |-> m],
                         [do |-> "text", note |-> m], [do |-> "flush"] >>)

choose_folder(p) ==
  LET own == FolderFor(Arg(p).side, Friend)
      default == FolderFor(Arg(p).side, Anyone) IN
  /\ Next1(p, "choose")
  /\ IF default = 0 THEN Abort(p)
     ELSE n_page' = [n_page EXCEPT ![p].todo = Tail(@), ![p].fid = IF own = 0 THEN default ELSE own]
  /\ UNCHANGED <<boxVars, n_db, n_queue, n_sent, n_deleted, n_moved, n_pages>>

insert_note(p) ==
  LET fid == n_page[p].fid
      id == NextId(DOMAIN n_heads)
      head == NewHead(Arg(p).note) IN
  /\ Next1(p, "insert")
  /\ id \in Id
  /\ IF fid \notin DOMAIN n_folders
     THEN Abort(p) /\ UNCHANGED <<n_folders, n_heads, n_sent>>
     ELSE LET folders == [n_folders EXCEPT ![fid].msgs = @ \cup {id}] IN
          /\ n_folders' = folders
          /\ n_heads' = resort(folders, (id :> head) @@ n_heads)
          /\ n_sent' = n_sent \cup {Arg(p).note}
          /\ n_page' = [n_page EXCEPT ![p].todo = Tail(@), ![p].id = id,
               ![p].own = Append(@, [cmd |-> "set_head", fid |-> fid, id |-> id, head |-> head])]
  /\ UNCHANGED <<n_texts, n_db, n_queue, n_deleted, n_moved, n_pages>>

\* note_texts has a lock of its own.
set_text(p) ==
  LET id == n_page[p].id IN
  /\ Next1(p, "text")
  /\ n_texts' = (id :> Arg(p).note) @@ n_texts
  /\ Done(p, <<[cmd |-> "set_msg", id |-> id, note |-> Arg(p).note]>>)
  /\ UNCHANGED <<n_folders, n_heads, n_db, n_queue, n_sent, n_deleted, n_moved, n_pages>>

\* send_system_note: the cache is left to the update processor.
send_system_note(p, m) ==
  /\ Fresh(m)
  /\ start(p, << [do |-> "system", note |-> m], [do |-> "flush"] >>)

system_note(p) ==
  LET fid == FolderFor("in", Anyone)
      id == NextId(DOMAIN n_heads) IN
  /\ Next1(p, "system")
  /\ id \in Id
  /\ IF fid = 0 THEN Abort(p) /\ UNCHANGED n_sent
     ELSE /\ n_sent' = n_sent \cup {Arg(p).note}
          /\ Done(p, << [cmd |-> "set_head", fid |-> fid, id |-> id, head |-> NewHead(Arg(p).note)],
                        [cmd |-> "set_msg", id |-> id, note |-> Arg(p).note] >>)
  /\ UNCHANGED <<boxVars, n_db, n_queue, n_deleted, n_moved, n_pages>>
-----------------------------------------------------------------------------
(* Reading, answering, deleting, moving.                                     *)

\* A note in a folder; if it is unread it is marked.
url_notes_read(p, id) ==
  /\ id \in InFolders
  /\ start(p, (IF n_heads[id].unread THEN << [do |-> "mark", id |-> id, answers |-> FALSE], [do |-> "own"] >> ELSE <<>>)
       \o Look \o << [do |-> "flush"] >>)

\* The form of an answer.
url_notes_write(p, id) ==
  start(p, << [do |-> "mark", id |-> id, answers |-> TRUE], [do |-> "own"] >> \o Look \o << [do |-> "flush"] >>)

\* mark_msg_read, mark_msg_answered.  The note that notify_read names in the
\* sender's folders is never there: notify_read stays 0.
mark_msg(p) ==
  LET id == Arg(p).id
      from == IF Arg(p).answers THEN "read" ELSE "sent"
      to == IF Arg(p).answers THEN "answered" ELSE "read" IN
  /\ Next1(p, "mark")
  /\ IF /\ id \in DOMAIN n_heads
        /\ n_heads[id].note \notin Outgoing \cup {"none"}
     THEN /\ n_heads' = [n_heads EXCEPT ![id].unread = FALSE, ![id].status = IF @ = from THEN to ELSE @]
          /\ Done(p, <<[cmd |-> "set_unread", id |-> id]>>
               \o IF n_heads[id].status = from THEN <<[cmd |-> "set_status", id |-> id, status |-> to]>> ELSE <<>>)
     ELSE Done(p, <<>>) /\ UNCHANGED n_heads
  /\ UNCHANGED <<n_folders, n_texts, n_db, n_queue, n_sent, n_deleted, n_moved, n_pages>>

\* The text a reader sees: note_texts, or else the rows of the database.
body(id) == IF id \in DOMAIN n_texts THEN {n_texts[id]} ELSE {r[2] : r \in {x \in n_db.texts : x[1] = id}}

\* The page of a folder, with the change its form asks for.
url_notes_index(p, change) ==
  start(p, Look \o change \o Look \o << [do |-> "flush"] >>)

mk_del(id) == << [do |-> "delete", id |-> id], [do |-> "own"] >>

\* delete_message: the head stays until the command is done, or until
\* check_notes_config finds it.
delete_message(p) ==
  LET id == Arg(p).id
      folders == [f \in DOMAIN n_folders |-> [n_folders[f] EXCEPT !.msgs = @ \ {id}]] IN
  /\ Next1(p, "delete")
  /\ IF id \in DOMAIN n_heads
     THEN /\ n_folders' = folders
          /\ n_heads' = resort(folders, n_heads)
          /\ n_deleted' = n_deleted \cup {n_heads[id].note}
          /\ Done(p, IF id \in InFolders THEN <<[cmd |-> "remove", id |-> id]>> ELSE <<>>)
     ELSE Done(p, <<>>) /\ UNCHANGED <<n_folders, n_heads, n_deleted>>
  /\ UNCHANGED <<n_texts, n_db, n_queue, n_sent, n_moved, n_pages>>

\* ~st_update of mark_msg_read, delete_message, move_message: the page goes on.
queue_own(p) ==
  /\ Next1(p, "own")
  /\ n_queue' = n_queue \o n_page[p].own
  /\ n_page' = [n_page EXCEPT ![p].todo = Tail(@), ![p].own = <<>>]
  /\ UNCHANGED <<boxVars, n_db, n_sent, n_deleted, n_moved, n_pages>>

mk_move(id, from, to, save) ==
  << [do |-> "move", id |-> id, from |-> from, to |-> to, save |-> save], [do |-> "own"] >>

\* move_message: out of one folder; the update processor puts it into the other.
\* save_filter: the other user's notes go there from now on.
move_message(p) ==
  LET a == Arg(p)
      taken == [(a.from :> FolderIn(n_folders, a.from)) @@ n_folders EXCEPT ![a.from].msgs = @ \ {a.id}]
      side == IF n_heads[a.id].note \in Outgoing THEN "out" ELSE "in"
      had == SetToSortSeq({f \in DOMAIN taken : Friend \in taken[f][side]}, <)
      cleared == [f \in DOMAIN taken |-> [taken[f] EXCEPT ![side] = @ \ {Friend}]]
      filtered == [(a.to :> FolderIn(cleared, a.to)) @@ cleared EXCEPT ![a.to][side] = @ \cup {Friend}]
      folders == IF a.save THEN filtered ELSE taken IN
  /\ Next1(p, "move")
  /\ IF a.id \notin DOMAIN n_heads
     THEN Done(p, <<>>) /\ UNCHANGED <<n_folders, n_heads, n_moved>>
     ELSE /\ n_folders' = folders
          /\ n_heads' = resort(folders, n_heads)
          /\ n_moved' = n_moved \cup {n_heads[a.id].note}
          /\ Done(p, <<[cmd |-> "move", id |-> a.id, from |-> a.from, to |-> a.to]>>
               \o IF ~ a.save THEN <<>> ELSE
                    [i \in DOMAIN had |-> [cmd |-> "filter_delete", side |-> side, fid |-> had[i], who |-> Friend]]
                    \o <<[cmd |-> "filter_insert", side |-> side, fid |-> a.to, who |-> Friend]>>)
  /\ UNCHANGED <<n_texts, n_db, n_queue, n_sent, n_deleted, n_pages>>
-----------------------------------------------------------------------------
(* Settings.                                                                 *)

url_notes_settings(p, change) ==
  start(p, change \o Look \o << [do |-> "flush"] >>)

\* send_to_folder, recv_from_folder
set_default_folder(p) ==
  LET a == Arg(p)
      olds == {f \in DOMAIN n_folders \ {a.fid} : Anyone \in n_folders[f][a.side]}
      old == Min(olds) IN
  /\ Next1(p, "default")
  /\ IF a.fid \notin DOMAIN n_folders \/ olds = {}
     THEN Done(p, <<>>) /\ UNCHANGED n_folders
     ELSE /\ n_folders' = [n_folders EXCEPT ![old][a.side] = @ \ {Anyone}, ![a.fid][a.side] = @ \cup {Anyone}]
          /\ Done(p, << [cmd |-> "filter_delete", side |-> a.side, fid |-> old, who |-> Anyone],
                        [cmd |-> "filter_insert", side |-> a.side, fid |-> a.fid, who |-> Anyone] >>)
  /\ UNCHANGED <<n_heads, n_texts, n_db, n_queue, n_sent, n_deleted, n_moved, n_pages>>

\* new_folder: the id is chosen under one lock and used under another.
choose_folder_id(p) ==
  /\ Next1(p, "new_id")
  /\ NextId(DOMAIN n_folders) \in Fid
  /\ n_page' = [n_page EXCEPT ![p].todo = Tail(@), ![p].fid = NextId(DOMAIN n_folders)]
  /\ UNCHANGED <<boxVars, n_db, n_queue, n_sent, n_deleted, n_moved, n_pages>>

new_folder(p) ==
  /\ Next1(p, "new_folder")
  /\ n_folders' = (n_page[p].fid :> EmptyFolder) @@ n_folders
  /\ Done(p, <<[cmd |-> "folder_create", fid |-> n_page[p].fid]>>)
  /\ UNCHANGED <<n_heads, n_texts, n_db, n_queue, n_sent, n_deleted, n_moved, n_pages>>

remove_folder(p) ==
  LET f == Arg(p).fid IN
  /\ Next1(p, "remove_folder")
  /\ IF f \in DOMAIN n_folders => n_folders[f].msgs = {}
     THEN n_folders' = Without(n_folders, {f}) /\ Done(p, <<[cmd |-> "folder_remove", fid |-> f]>>)
     ELSE Abort(p) /\ UNCHANGED n_folders
  /\ UNCHANGED <<n_heads, n_texts, n_db, n_queue, n_sent, n_deleted, n_moved, n_pages>>
-----------------------------------------------------------------------------
(* update_processor: the cache, then the database.                           *)

\* Where the filters of a folder go.
Toggle(c, S, x) == IF c.cmd = "filter_insert" THEN S \cup {x} ELSE S \ {x}

\* Mutant: the page has put the note into its folder already.
Refiled_not(c) == n_folders

\* note$set_head$4
Refiled(c) == [(c.fid :> FolderIn(n_folders, c.fid)) @@ n_folders EXCEPT ![c.fid].msgs = @ \cup {c.id}]

FoldersAfter(c) ==
  CASE c.cmd = "folder_create" -> (c.fid :> FolderIn(n_folders, c.fid)) @@ n_folders
    [] c.cmd = "folder_remove" -> Without(n_folders, {c.fid})
    [] c.cmd \in {"filter_insert", "filter_delete"} ->
         [(c.fid :> FolderIn(n_folders, c.fid)) @@ n_folders EXCEPT ![c.fid][c.side] = Toggle(c, @, c.who)]
    [] c.cmd = "set_head" -> Refiled(c)
    [] c.cmd = "remove" ->
         [f \in DOMAIN n_folders |-> [n_folders[f] EXCEPT !.msgs = @ \ {c.id}]]
    [] c.cmd = "move" ->
         LET from == [(c.from :> FolderIn(n_folders, c.from)) @@ n_folders EXCEPT ![c.from].msgs = @ \ {c.id}] IN
         [(c.to :> FolderIn(from, c.to)) @@ from EXCEPT ![c.to].msgs = @ \cup {c.id}]
    [] OTHER -> n_folders

HeadsAfter(c) ==
  CASE c.cmd = "set_head" -> resort(FoldersAfter(c), (c.id :> c.head) @@ n_heads)
    [] c.cmd = "remove" -> resort(FoldersAfter(c), Without(n_heads, {c.id}))
    [] c.cmd = "move" -> resort(FoldersAfter(c), n_heads)
    [] c.cmd = "set_unread" /\ c.id \in DOMAIN n_heads -> [n_heads EXCEPT ![c.id].unread = FALSE]
    [] c.cmd = "set_status" /\ c.id \in DOMAIN n_heads -> [n_heads EXCEPT ![c.id].status = c.status]
    [] OTHER -> n_heads

\* Mutant: the page has set the text already.
TextsAfter_not(c) == n_texts

TextsAfter(c) == IF c.cmd = "set_msg" /\ c.id \in DOMAIN n_texts THEN [n_texts EXCEPT ![c.id] = c.note] ELSE n_texts

\* Mutant: the note of the deleted text stays.
Kept_all(c, r) == TRUE

Kept(c, r) == r.id # c.id

DbAfter(c) ==
  LET Rows(Op(_)) == [n_db EXCEPT !.notes = {IF r.id = c.id THEN Op(r) ELSE r : r \in @}] IN
  CASE c.cmd = "folder_create" -> [n_db EXCEPT !.folders = @ \cup {c.fid}]
    [] c.cmd = "folder_remove" -> [n_db EXCEPT !.folders = @ \ {c.fid}]
    [] c.cmd \in {"filter_insert", "filter_delete"} -> [n_db EXCEPT ![c.side] = Toggle(c, @, <<c.fid, c.who>>)]
    [] c.cmd = "set_head" -> [n_db EXCEPT !.notes = @ \cup {[id |-> c.id, folder |-> c.fid, head |-> c.head]}]
    [] c.cmd = "remove" -> [n_db EXCEPT !.notes = {r \in @ : Kept(c, r)}, !.texts = {r \in @ : r[1] # c.id}]
    [] c.cmd = "move" -> Rows(LAMBDA r : [r EXCEPT !.folder = c.to])
    [] c.cmd = "set_unread" -> Rows(LAMBDA r : [r EXCEPT !.head.unread = FALSE])
    [] c.cmd = "set_status" -> Rows(LAMBDA r : [r EXCEPT !.head.status = c.status])
    [] c.cmd = "set_msg" -> [n_db EXCEPT !.texts = @ \cup {<<c.id, c.note>>}]

update_datum ==
  LET c == Head(n_queue) IN
  /\ n_queue # <<>>
  /\ n_folders' = FoldersAfter(c) /\ n_heads' = HeadsAfter(c) /\ n_texts' = TextsAfter(c)
  /\ n_db' = DbAfter(c)
  /\ n_queue' = Tail(n_queue)
  /\ UNCHANGED <<n_page, n_sent, n_deleted, n_moved, n_pages>>

AtRest == n_queue = <<>> /\ \A p \in Page : n_page[p] = NoPage

\* The user's notes are dropped from the cache and loaded again: load_notes.
load_notes ==
  /\ AtRest
  /\ n_db.folders # {}
  /\ n_folders' = [f \in n_db.folders \cup {x[1] : x \in n_db.in \cup n_db.out} \cup {r.folder : r \in n_db.notes} |->
       [in |-> {x[2] : x \in {y \in n_db.in : y[1] = f}}, out |-> {x[2] : x \in {y \in n_db.out : y[1] = f}},
        msgs |-> {r.id : r \in {s \in n_db.notes : s.folder = f}}]]
  /\ n_heads' = [i \in {r.id : r \in n_db.notes} |-> (CHOOSE r \in n_db.notes : r.id = i).head]
  /\ n_texts' = [i \in {x[1] : x \in n_db.texts} |-> (CHOOSE x \in n_db.texts : x[1] = i)[2]]
  /\ UNCHANGED <<n_db, n_queue, n_page, n_sent, n_deleted, n_moved, n_pages>>
-----------------------------------------------------------------------------
Steps(p) ==
  \/ flush(p) \/ queue_check(p) \/ queue_own(p) \/ check_notes_config(p)
  \/ choose_folder(p) \/ insert_note(p) \/ set_text(p) \/ system_note(p)
  \/ mark_msg(p) \/ delete_message(p) \/ move_message(p)
  \/ set_default_folder(p) \/ choose_folder_id(p) \/ new_folder(p) \/ remove_folder(p)

Sends(p) ==
  \/ \E m \in Incoming : url_notes_send(p, m, "in")
  \/ \E m \in Outgoing : url_notes_send(p, m, "out")

Reads(p) == \E i \in DOMAIN n_heads : url_notes_read(p, i) \/ url_notes_write(p, i)

Picks(p) == Reads(p) \/ \E i \in DOMAIN n_heads : url_notes_index(p, mk_del(i))

Settings(p) ==
  \/ \E f \in Fid, s \in Side : url_notes_settings(p, <<[do |-> "default", side |-> s, fid |-> f]>>)
  \/ url_notes_settings(p, << [do |-> "new_id"], [do |-> "new_folder"] >>)

Removals(p) == \E f \in DOMAIN n_folders : url_notes_settings(p, <<[do |-> "remove_folder", fid |-> f]>>)

SystemNotes(p) == \E m \in System : send_system_note(p, m)

Moves(p) ==
  \E i \in DOMAIN n_heads, f, g \in DOMAIN n_folders, save \in BOOLEAN :
    i \in n_folders[f].msgs /\ url_notes_index(p, mk_move(i, f, g, save))

NotesNext == (\E p \in Page : Sends(p) \/ Settings(p) \/ Steps(p)) \/ update_datum
-----------------------------------------------------------------------------
\* The note is in one folder, with its head.
InItsFolder(m) ==
  \E i \in DOMAIN n_heads :
    n_heads[i].note = m /\ Cardinality({f \in DOMAIN n_folders : i \in n_folders[f].msgs}) = 1

\* When the pages are done and the update processor has caught up, a note that
\* was sent and neither deleted nor moved is there, in one folder
\* (url_notes_send, update_cmd.cpp note$set_head$4).
NoneLost == AtRest => \A m \in n_sent \ (n_deleted \cup n_moved) : InItsFolder(m)

\* A deleted note is in no folder, nor in the database: no later command and no
\* new note with its id brings it back (delete_message, note$remove$1).
DeletedStay ==
  AtRest => /\ \A i \in InFolders : n_heads[i].note \notin n_deleted
            /\ \A r \in n_db.notes : r.head.note \notin n_deleted

\* What the cache says of the notes, changed by pages and by the update
\* processor, is what the database says.
NotesStored ==
  AtRest => n_db.notes = UNION {{[id |-> i, folder |-> f, head |-> n_heads[i]] : i \in n_folders[f].msgs} : f \in DOMAIN n_folders}

\* Every note shows its own text, though ids are used again and the texts have
\* a lock and a command of their own (note$set_msg$2).
TextsBelong ==
  AtRest => \A i \in InFolders : body(i) = {n_heads[i].note}

\* folder.html:160 offers "move the chosen notes into the folder": a moved note
\* is in a folder once the commands are done (mk_move, move_message).
MovedArrive == AtRest => \A m \in n_moved \ n_deleted : InItsFolder(m)

\* Notes that were sent are kept, those deleted are gone, and the cache and the
\* database agree on both, with each note's own text.
NotesKept == NoneLost /\ DeletedStay /\ NotesStored /\ TextsBelong
=============================================================================
