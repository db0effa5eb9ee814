----------------------------- MODULE MCChatLists -----------------------------
(* Two loads on the user lists, checked side by side: web clients with status *)
(* and mode changes, and web and IRC clients of the same users.  (A mode      *)
(* change rebuilds the list of the web client only: see README.)  And, on     *)
(* tables of their own, the bans.                                             *)
EXTENDS MCChatServer, Bans

CONSTANTS a1, a2, v1

MCLevel == a1 :> 10 @@ a2 :> 8 @@ v1 :> 1

VARIABLE load

WebRequest(t, u) ==
  /\ load = "web"
  /\ requests < 3
  /\ requests = 2 => chat_events = << >> /\ updates = << >>
  /\ \/ \E ch \in Channel : WwwJoin(t, u, ch)
     \/ WwwExit(t, u)
     \/ Kick(t, u)
     \/ \E st \in Status : SetStatus(t, u, st)
     \/ \E mode \in Modes : ChangeMode(t, u, mode)

BothRequest(t, u) ==
  /\ load = "both"
  /\ \/ \E ch \in Channel : IrcJoin(t, u, ch)
     \/ \E ch \in Channel : WwwJoin(t, u, ch) /\ UNCHANGED last_status
     \/ Kick(t, u)

ListsNext ==
  /\ \/ ChatLoop /\ UNCHANGED requestVars
     \/ \E t \in Thread, u \in Uid : WebRequest(t, u) \/ BothRequest(t, u)
     \/ \E t \in Thread : Step(t)
     \/ UpdateProcessor
  /\ UNCHANGED <<load, bansVars>>

BansLoad == load = "bans" /\ BansNext /\ UNCHANGED <<vars, load>>

ListsInit == Init /\ BansInit /\ load \in {"web", "both", "bans"}
ListsSpec == ListsInit /\ [][ListsNext \/ BansLoad]_<<vars, load, bansVars>>
=============================================================================
