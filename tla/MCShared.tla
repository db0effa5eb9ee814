------------------------------- MODULE MCShared ------------------------------
(* The data the threads of the server share, one store at a time: the states *)
(* of users, credits, a profile and its caches, notes, klaps.                *)
EXTENDS GlobalState, Credits, Profiles, Klaps, MCNotes

VARIABLES store, kload

\* Teller t1 serves the bot with account 2, t2 that with 3.
Bots == [t1 |-> 2, t2 |-> 3]

StaysUnless(s, t, v) == IF s = t THEN TRUE ELSE UNCHANGED v

others(s) ==
  /\ UNCHANGED <<store, kload>>
  /\ StaysUnless(s, "global", vars)
  /\ StaysUnless(s, "credits", creditVars)
  /\ StaysUnless(s, "profile", profilesVars)
  /\ StaysUnless(s, "notes", <<notesVars, nload>>)
  /\ StaysUnless(s, "klaps", allKlapVars)

SharedInit ==
  /\ store \in {"global", "credits", "profile", "notes", "klaps"}
  /\ kload \in IF store = "klaps" THEN {"klaps", "channel"} ELSE {"klaps"}
  /\ nload \in IF store = "notes" THEN NotesLoads ELSE {"calm"}
  /\ Init /\ CreditInit /\ ProfilesInit /\ NotesInit /\ KlapsInit
  /\ store # "profile" => d_table = "settings"

\* Klaps that come and go, one of them by itself, while one page lifts; or a klap
\* while the channel is edited.
KlapLoad ==
  /\ KlapsNext
  /\ Len(Pending') <= 3
  /\ Cardinality({p \in KlapPage : kl_page'[p].at = "lift"}) <= 1
  /\ kload = "klaps" => kl_edits' = 0 /\ Cardinality(kl_lapsed') <= 1
  /\ kload = "channel" => kl_lapsed' = {} /\ \A k \in Known' : k.n <= 1 /\ k.id <= 1

SharedNext ==
  \/ store = "global" /\ Next /\ others("global")
  \/ store = "credits" /\ CreditNext /\ others("credits")
  \/ store = "profile" /\ ProfilesNext /\ others("profile")
  \/ store = "notes" /\ NotesLoadNext /\ others("notes")
  \/ store = "klaps" /\ KlapLoad /\ others("klaps")

SharedSpec == SharedInit /\ [][SharedNext]_<<vars, creditVars, profilesVars, notesVars, allKlapVars, store, kload, nload>>

\* Users are interchangeable, and so are channels and pages.
Symmetry == Permutations(Uid) \cup Permutations(Channel)
=============================================================================
