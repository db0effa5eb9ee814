------------------------------ MODULE Bots_proofs ------------------------------
(***************************************************************************)
(* Proofs about the bots, for any number of players and faults.            *)
(* Mafia: flags, roles, votes and maps of a game agree, and a role is not  *)
(* dealt twice.  Quiz: a question is won once, and the game stops when it  *)
(* is ignored.  Roulette: a stake on the table is paid for, decided once,  *)
(* and never hidden from the file.                                         *)
(***************************************************************************)
EXTENDS MCBots, FiniteSetTheorems, WellFoundedInduction, TLAPS
-----------------------------------------------------------------------------
(* The mafia.                                                              *)

\* The c_user objects, of which the flags that decide about life are read.
User(u) ==
  /\ DOMAIN u = DOMAIN NewUser
  /\ {u.main, u.marked, u.left} \subseteq BOOLEAN
Gamers(g) == DOMAIN g = Player /\ \A p \in Player : User(g[p])

MafiaTypeOK ==
  /\ counter \in 0..MaxId
  /\ by_id \subseteq Player /\ voice \subseteq Player
  /\ Gamers(gamer)
  /\ vote_info1 \in [Player -> Player \cup {NoPlayer}]
  /\ vote_info2 \in [Player -> {"yes", "no", "-"}]

\* The phases, and the votes of a day, exclude each other.
OnePhase ==
  /\ \A x, y \in on \cap Phases : x = y
  /\ "game_started" \in on <=> on \cap {"night", "morning", "day"} # {}
  /\ "day" \in on =>
       /\ on \cap {"vote1", "vote_say", "vote2"} # {}
       /\ \A x, y \in on \cap {"vote1", "vote_say", "vote2"} : x = y

\* By day voters, candidates and the accused live.
VotesOfLiving ==
  "day" \in on =>
    /\ "vote1" \in on \/ vote2_person \in Living
    /\ \A p \in Player : vote_info1[p] \in Living \cup {NoPlayer}

\* Who has a voice lives, and has not been seen leaving.
VoicesLive == \A p \in voice : gamer[p].marked = FALSE /\ gamer[p].left = FALSE

\* There is no main mafioso before the game, and not a second one in it.
MainsOf(g) == {p \in LivingIn(g) : g[p].main = TRUE}
OneMain ==
  /\ "game_started" \notin on => \A p \in Player : gamer[p].main = FALSE
  /\ \A p, q \in MainsOf(gamer) : p = q
  /\ "day" \in on /\ Playing(gamer, "MAF") # {} => MainsOf(gamer) # {}

MafiaInv ==
  /\ MafiaTypeOK /\ OnePhase /\ VotesOfLiving /\ VoicesLive /\ OneMain
  /\ OnlyTheLivingVote /\ PlayersAreFound
-----------------------------------------------------------------------------
(* What the steps of a game do to the players.                             *)

LEMMA NewUserIsUser == User(NewUser) /\ NewUser.main = FALSE /\ NewUser.marked = FALSE /\ NewUser.left = FALSE
BY DEF User, NewUser

LEMMA BuriedIsUser ==
  ASSUME NEW r PROVE User(Buried(r)) /\ Buried(r).main = FALSE /\ Buried(r).marked = TRUE /\ Buried(r).left = FALSE
BY DEF User, Buried, NewUser

LEMMA BuriedKeepRoles == ASSUME NEW r PROVE Buried(r).role = r.role
BY DEF Buried, NewUser

\* Players of h are those of g, but for orders, scores and the like.
Alike(g, h) ==
  /\ Gamers(h)
  /\ \A p \in Player : h[p].main = g[p].main /\ h[p].marked = g[p].marked /\ h[p].left = g[p].left
SameRoles(g, h) == \A p \in Player : h[p].role = g[p].role

\* From g to h nobody but dead and those who have left are buried, and all keep
\* their roles.
Buries(g, h, dead) ==
  /\ Gamers(h)
  /\ \A p \in Player :
       /\ h[p].role = g[p].role
       /\ \/ h[p].marked = TRUE /\ h[p].main = FALSE /\ h[p].left = FALSE /\ (p \in dead \/ g[p].left = TRUE)
          \/ h[p].marked = g[p].marked /\ h[p].main = g[p].main /\ h[p].left = g[p].left

LEMMA LeftAreBuried == ASSUME NEW g, Gamers(g) PROVE Buries(g, remove_left_users(g), {})
<1> DEFINE h == remove_left_users(g)
<1>1. ASSUME NEW p \in Player PROVE (h[p] = Buried(g[p]) /\ g[p].left = TRUE) \/ h[p] = g[p]
  BY DEF remove_left_users, LivingIn, Gamers, User
<1>2. DOMAIN h = Player
  BY DEF remove_left_users
<1> HIDE DEF h
<1>3. ASSUME NEW p \in Player PROVE User(h[p])
  BY <1>1, BuriedIsUser DEF Gamers
<1>4. ASSUME NEW p \in Player
      PROVE  /\ h[p].role = g[p].role
             /\ \/ h[p].marked = TRUE /\ h[p].main = FALSE /\ h[p].left = FALSE /\ g[p].left = TRUE
                \/ h[p].marked = g[p].marked /\ h[p].main = g[p].main /\ h[p].left = g[p].left
  BY <1>1, BuriedIsUser, BuriedKeepRoles
<1>5. Buries(g, h, {})
  BY <1>2, <1>3, <1>4 DEF Buries, Gamers
<1> QED
  BY <1>5 DEF h

LEMMA BurialsAdd ==
  ASSUME NEW g, NEW h, NEW i, NEW dead, Buries(g, h, dead), Buries(h, i, {})
  PROVE  Buries(g, i, dead)
BY DEF Buries

LEMMA NobodyIsBuried == ASSUME NEW g, Gamers(g) PROVE Buries(g, g, {}) /\ Alike(g, g) /\ SameRoles(g, g)
BY DEF Buries, Alike, SameRoles

LEMMA DealingKeeps == ASSUME NEW g, Gamers(gamer) PROVE Alike(gamer, Recast(g))
<1>1. ASSUME NEW p \in Player
      PROVE  LET u == [gamer[p] EXCEPT !.role = g[p].role, !.score = g[p].score] IN
             User(u) /\ u.main = gamer[p].main /\ u.marked = gamer[p].marked /\ u.left = gamer[p].left
  <2>1. User(gamer[p])
    BY DEF Gamers
  <2> QED
    BY <2>1 DEF User, NewUser
<1> QED
  BY <1>1 DEF Alike, Gamers, Recast

\* Who becomes the main mafioso is one of the living mafiosi.
LEMMA MainIsMade ==
  ASSUME NEW g, Gamers(g), NEW h \in make_main_maf(g)
  PROVE  /\ Gamers(h)
         /\ \A p \in Player : h[p].marked = g[p].marked /\ h[p].left = g[p].left /\ h[p].role = g[p].role
         /\ \/ Playing(g, "MAF") = {} /\ h = g
            \/ \E q \in Playing(g, "MAF") : \A p \in Player : h[p].main = IF p = q THEN TRUE ELSE g[p].main
<1>1. CASE Playing(g, "MAF") = {}
  BY <1>1 DEF make_main_maf
<1>2. ASSUME NEW q \in Playing(g, "MAF"), h = [g EXCEPT ![q].main = TRUE]
      PROVE  /\ Gamers(h)
             /\ \A p \in Player : h[p].marked = g[p].marked /\ h[p].left = g[p].left /\ h[p].role = g[p].role
             /\ \A p \in Player : h[p].main = IF p = q THEN TRUE ELSE g[p].main
  <2>1. ASSUME NEW p \in Player
        PROVE  /\ User(h[p]) /\ h[p].marked = g[p].marked /\ h[p].left = g[p].left /\ h[p].role = g[p].role
               /\ h[p].main = IF p = q THEN TRUE ELSE g[p].main
    <3>1. User(g[p])
      BY DEF Gamers
    <3>2. h[p] = IF p = q THEN [g[p] EXCEPT !.main = TRUE] ELSE g[p]
      BY <1>2 DEF Gamers
    <3> QED
      BY <3>1, <3>2 DEF User, NewUser
  <2>2. DOMAIN h = Player
    BY <1>2 DEF Gamers
  <2> QED
    BY <2>1, <2>2 DEF Gamers
<1>3. CASE Playing(g, "MAF") # {}
  BY <1>2, <1>3 DEF make_main_maf
<1> QED
  BY <1>1, <1>3

\* An order changes neither life nor roles.
LEMMA FieldIsSet ==
  ASSUME NEW g, Gamers(g), NEW z, NEW x, NEW field \in {"order", "kill", "doced", "valed", "parent"}
  PROVE  Alike(g, [g EXCEPT ![z][field] = x]) /\ SameRoles(g, [g EXCEPT ![z][field] = x])
<1> DEFINE h == [g EXCEPT ![z][field] = x]
<1>1. ASSUME NEW p \in Player
      PROVE  /\ User(h[p]) /\ h[p].marked = g[p].marked /\ h[p].left = g[p].left
             /\ h[p].role = g[p].role /\ h[p].main = g[p].main
  <2>1. User(g[p])
    BY DEF Gamers
  <2>2. h[p] = IF p = z THEN [g[p] EXCEPT ![field] = x] ELSE g[p]
    BY DEF Gamers
  <2> HIDE DEF h
  <2> QED
    BY <2>1, <2>2 DEF User, NewUser
<1>2. DOMAIN h = Player
  BY DEF Gamers
<1> HIDE DEF h
<1>3. Alike(g, h) /\ SameRoles(g, h)
  BY <1>1, <1>2 DEF Alike, SameRoles, Gamers
<1> QED
  BY <1>3 DEF h

LEMMA AlikeAdds ==
  ASSUME NEW g, NEW h, NEW i, Alike(g, h), SameRoles(g, h), Alike(h, i), SameRoles(h, i)
  PROVE  Alike(g, i) /\ SameRoles(g, i)
BY DEF Alike, SameRoles

LEMMA ReorderKeeps ==
  ASSUME NEW g, Gamers(g), NEW u, NEW z, NEW field \in {"doced", "valed"}
  PROVE  Alike(g, Reorder(g, u, z, field)) /\ SameRoles(g, Reorder(g, u, z, field))
<1> DEFINE h == IF Done(g, u) THEN [g EXCEPT ![g[u].order][field] = FALSE] ELSE g
           i == [h EXCEPT ![u]["order"] = z]
           j == [i EXCEPT ![z][field] = TRUE]
<1>1. Alike(g, h) /\ SameRoles(g, h)
  <2>1. Alike(g, [g EXCEPT ![g[u].order][field] = FALSE]) /\ SameRoles(g, [g EXCEPT ![g[u].order][field] = FALSE])
    BY FieldIsSet
  <2> QED
    BY <2>1, NobodyIsBuried
<1>2. Gamers(h)
  BY <1>1 DEF Alike
<1>3. Reorder(g, u, z, field) = j
  BY DEF Reorder
<1> HIDE DEF h
<1>4. Alike(h, i) /\ SameRoles(h, i)
  BY <1>2, FieldIsSet
<1>5. Gamers(i)
  BY <1>4 DEF Alike
<1> HIDE DEF i
<1>6. Alike(i, j) /\ SameRoles(i, j)
  BY <1>5, FieldIsSet
<1> HIDE DEF j
<1>7. Alike(g, i) /\ SameRoles(g, i)
  BY <1>1, <1>4, AlikeAdds
<1>8. Alike(g, j) /\ SameRoles(g, j)
  BY <1>6, <1>7, AlikeAdds
<1> QED
  BY <1>3, <1>8

LEMMA OrderedKeeps ==
  ASSUME NEW g, Gamers(g), NEW u, NEW z, NEW dbl
  PROVE  Alike(g, Ordered(g, u, z, dbl)) /\ SameRoles(g, Ordered(g, u, z, dbl))
<1>1. CASE g[u].role = "DOC"
  <2> DEFINE h == Reorder(g, u, z, "doced")
             i == [h EXCEPT ![z]["parent"] = u]
  <2>1. Alike(g, h) /\ SameRoles(g, h)
    BY ReorderKeeps
  <2>2. Ordered(g, u, z, dbl) = i
    BY <1>1 DEF Ordered
  <2> HIDE DEF h
  <2>3. Gamers(h)
    BY <2>1 DEF Alike
  <2>4. Alike(h, i) /\ SameRoles(h, i)
    BY <2>3, FieldIsSet
  <2> HIDE DEF i
  <2> QED
    BY <2>1, <2>2, <2>4, AlikeAdds
<1>2. CASE g[u].role = "VAL"
  <2>1. Ordered(g, u, z, dbl) = Reorder(g, u, z, "valed")
    BY <1>2 DEF Ordered
  <2> QED
    BY <2>1, ReorderKeeps
<1>3. CASE g[u].role # "DOC" /\ g[u].role # "VAL"
  <2> DEFINE k == (g[u].role = "KAT" => dbl) /\ g[u].role # "BOM"
             h == [g EXCEPT ![u]["order"] = z]
             i == [h EXCEPT ![u]["kill"] = k]
  <2>1. Ordered(g, u, z, dbl) = i
    BY <1>3 DEF Ordered
  <2> HIDE DEF k
  <2>2. Alike(g, h) /\ SameRoles(g, h)
    BY FieldIsSet
  <2> HIDE DEF h
  <2>3. Gamers(h)
    BY <2>2 DEF Alike
  <2>4. Alike(h, i) /\ SameRoles(h, i)
    BY <2>3, FieldIsSet
  <2> HIDE DEF i
  <2> QED
    BY <2>1, <2>2, <2>4, AlikeAdds
<1> QED
  BY <1>1, <1>2, <1>3

\* The night buries who has left, the day also those who die.
LEMMA DayBuries == ASSUME Gamers(gamer), NEW dead PROVE Buries(gamer, DayOf(dead), dead)
<1> DEFINE doc(p) == IF ~ (p \in Living /\ gamer[p].role = "DOC" /\ Done(gamer, p)) THEN gamer[p].doc_self
                     ELSE IF gamer[p].order = p THEN gamer[p].doc_self + 1 ELSE 0
           paid(p) == (gamer[p].score + Gains(p)) % W
           r(p) == [gamer[p] EXCEPT !.score = paid(p), !.doc_self = doc(p)]
           rest(p) == [r(p) EXCEPT !.order = NoPlayer, !.kill = FALSE, !.doced = FALSE,
                                   !.parent = NoPlayer, !.valed = FALSE]
           h == [p \in Player |-> IF p \in dead THEN Buried(r(p)) ELSE rest(p)]
<1>1. DayOf(dead) = remove_left_users(h)
  BY DEF DayOf
<1> HIDE DEF doc, paid
<1>2. ASSUME NEW p \in Player
      PROVE  /\ User(rest(p)) /\ rest(p).main = gamer[p].main /\ rest(p).marked = gamer[p].marked
             /\ rest(p).left = gamer[p].left /\ rest(p).role = gamer[p].role
             /\ r(p).role = gamer[p].role
  <2>1. User(gamer[p])
    BY DEF Gamers
  <2> QED
    BY <2>1 DEF User, NewUser
<1> HIDE DEF r, rest
<1>3. Buries(gamer, h, dead)
  <2>1. ASSUME NEW p \in Player PROVE User(h[p])
    BY <1>2, BuriedIsUser
  <2> QED
    BY <1>2, <2>1, BuriedIsUser, BuriedKeepRoles DEF Buries, Gamers
<1>4. Gamers(h)
  BY <1>3 DEF Buries
<1> HIDE DEF h
<1>5. Buries(h, remove_left_users(h), {})
  BY <1>4, LeftAreBuried
<1> QED
  BY <1>1, <1>3, <1>5, BurialsAdd

LEMMA ExecutionBuries == ASSUME Gamers(gamer) PROVE Buries(gamer, Executed, {vote2_person})
<1> DEFINE a == vote2_person
           g == [gamer EXCEPT ![a] = Buried(@)]
           paid(p) == (g[p].score + KillScore[g[a].role][g[p].role]) % W
           h == [p \in Player |-> IF p \in LivingIn(g) \cap voted THEN [g[p] EXCEPT !.score = paid(p)] ELSE g[p]]
<1>1. Executed = h
  BY DEF Executed
<1>2. Buries(gamer, g, {a})
  <2>1. ASSUME NEW p \in Player PROVE g[p] = IF p = a THEN Buried(gamer[p]) ELSE gamer[p]
    BY DEF Gamers
  <2>2. DOMAIN g = Player
    BY DEF Gamers
  <2> HIDE DEF g, a
  <2>3. ASSUME NEW p \in Player
        PROVE  /\ User(g[p]) /\ g[p].role = gamer[p].role
               /\ \/ g[p].marked = TRUE /\ g[p].main = FALSE /\ g[p].left = FALSE /\ p = a
                  \/ g[p].marked = gamer[p].marked /\ g[p].main = gamer[p].main /\ g[p].left = gamer[p].left
    BY <2>1, BuriedIsUser, BuriedKeepRoles DEF Gamers
  <2> QED
    BY <2>2, <2>3 DEF Buries, Gamers
<1>3. Gamers(g)
  BY <1>2 DEF Buries
<1> HIDE DEF g, paid
<1>4. Alike(g, h) /\ SameRoles(g, h)
  <2>1. ASSUME NEW p \in Player
        PROVE  /\ User(h[p]) /\ h[p].marked = g[p].marked /\ h[p].left = g[p].left
               /\ h[p].role = g[p].role /\ h[p].main = g[p].main
    <3>1. User(g[p])
      BY <1>3 DEF Gamers
    <3> QED
      BY <3>1 DEF User, NewUser
  <2> HIDE DEF h
  <2>2. DOMAIN h = Player
    BY DEF h
  <2> QED
    BY <2>1, <2>2 DEF Alike, SameRoles, Gamers
<1> HIDE DEF h
<1>5. Buries(gamer, h, {a})
  BY <1>2, <1>4 DEF Buries, Alike, SameRoles
<1> QED
  BY <1>1, <1>5

\* By day there is a main mafioso as long as there is a mafioso.
LEMMA MainIsThere ==
  ASSUME MafiaTypeOK, NEW g, Gamers(g), \A p, q \in MainsOf(g) : p = q, NEW h \in check_for_main_maf(g)
  PROVE  /\ Gamers(h)
         /\ \A p \in Player : h[p].marked = g[p].marked /\ h[p].left = g[p].left /\ h[p].role = g[p].role
         /\ \A p, q \in MainsOf(h) : p = q
         /\ Playing(h, "MAF") # {} => MainsOf(h) # {}
<1>1. CASE MainsOf(g) # {}
  <2>1. \E p \in LivingIn(g) : g[p].main
    BY <1>1 DEF MainsOf
  <2>2. h = g
    BY <2>1 DEF check_for_main_maf
  <2> QED
    BY <1>1, <2>2
<1>2. CASE MainsOf(g) = {}
  <2>1. \A p \in LivingIn(g) : g[p].main = FALSE /\ p \in Player
    BY <1>2 DEF MainsOf, LivingIn, MafiaTypeOK, Gamers, User
  <2>2. h \in make_main_maf(g)
    BY <2>1 DEF check_for_main_maf
  <2>3. /\ Gamers(h)
        /\ \A p \in Player : h[p].marked = g[p].marked /\ h[p].left = g[p].left /\ h[p].role = g[p].role
        /\ \/ Playing(g, "MAF") = {} /\ h = g
           \/ \E q \in Playing(g, "MAF") : \A p \in Player : h[p].main = IF p = q THEN TRUE ELSE g[p].main
    BY <2>2, MainIsMade
  <2>4. LivingIn(h) = LivingIn(g) /\ Playing(h, "MAF") = Playing(g, "MAF")
    BY <2>3 DEF LivingIn, Playing, MafiaTypeOK
  <2>5. CASE Playing(g, "MAF") = {} /\ h = g
    BY <1>2, <2>3, <2>5
  <2>6. ASSUME NEW q \in Playing(g, "MAF"), \A p \in Player : h[p].main = IF p = q THEN TRUE ELSE g[p].main
        PROVE  MainsOf(h) = {q}
    BY <2>1, <2>4, <2>6 DEF MainsOf, Playing
  <2> QED
    BY <2>3, <2>5, <2>6
<1> QED
  BY <1>1, <1>2

LEMMA MainsStay ==
  ASSUME MafiaTypeOK, NEW g, NEW h, NEW dead, Buries(g, h, dead), \A p, q \in MainsOf(g) : p = q
  PROVE  \A p, q \in MainsOf(h) : p = q
<1>1. MainsOf(h) \subseteq MainsOf(g)
  BY DEF Buries, MainsOf, LivingIn, MafiaTypeOK
<1> QED
  BY <1>1

LEMMA MafiaInitKeeps == MafiaInit => MafiaInv
<1> SUFFICES ASSUME MafiaInit PROVE MafiaInv
  OBVIOUS
<1>1. MafiaTypeOK
  BY MafiaAssumption, NewUserIsUser DEF MafiaInit, MafiaTypeOK, Gamers, NoVotes1, NoVotes2
<1>2. OnePhase /\ VotesOfLiving /\ VoicesLive /\ OnlyTheLivingVote /\ PlayersAreFound
  BY DEF MafiaInit, OnePhase, VotesOfLiving, VoicesLive, OnlyTheLivingVote, PlayersAreFound, Phases
<1>3. OneMain
  BY NewUserIsUser DEF MafiaInit, OneMain, MainsOf, LivingIn
<1> QED
  BY <1>1, <1>2, <1>3 DEF MafiaInv

\* A game that is cleared away.
LEMMA ClearedKeeps ==
  ASSUME MafiaInv, NEW v \in SUBSET Player, clear_users(v), counter' \in 0..MaxId,
         on' \cap (Phases \cup {"game_started"}) = {},
         vote_info1' \in [Player -> Player \cup {NoPlayer}],
         vote_info2' \in [Player -> {"yes", "no", "-"}]
  PROVE  MafiaInv'
<1>1. by_id' = {} /\ by_nick' = {} /\ gamer' = [p \in Player |-> NewUser] /\ voice' \subseteq Player
  BY DEF clear_users
<1>2. MafiaTypeOK'
  BY <1>1, NewUserIsUser DEF MafiaTypeOK, Gamers
<1>3. OnePhase' /\ VotesOfLiving' /\ OnlyTheLivingVote'
  BY DEF OnePhase, VotesOfLiving, OnlyTheLivingVote, Phases
<1>4. VoicesLive' /\ PlayersAreFound'
  BY <1>1, NewUserIsUser DEF VoicesLive, PlayersAreFound
<1>5. OneMain'
  BY <1>1, NewUserIsUser DEF OneMain, MainsOf, LivingIn, Phases
<1> QED
  BY <1>2, <1>3, <1>4, <1>5 DEF MafiaInv

\* A step in which nobody dies, and no main mafioso is made.
LEMMA LifeAlone ==
  ASSUME MafiaInv, UNCHANGED <<by_id, vote_info1, vote_info2>>,
         counter' \in 0..MaxId, voice' \subseteq Player, Gamers(gamer'),
         \A p \in Player : gamer'[p].main = gamer[p].main /\ gamer'[p].marked = gamer[p].marked,
         SameRoles(gamer, gamer') \/ "day" \notin on',
         VoicesLive', PlayersAreFound', OnePhase',
         "day" \in on' => "day" \in on /\ ("vote1" \in on' \/ vote2_person' \in Living),
         "game_started" \in on => "game_started" \in on'
  PROVE  MafiaInv'
<1>1. MafiaTypeOK'
  BY DEF MafiaInv, MafiaTypeOK
<1>2. Living' = Living
  BY DEF MafiaInv, MafiaTypeOK, Living, LivingIn
<1>3. VotesOfLiving' /\ OnlyTheLivingVote'
  BY <1>2 DEF MafiaInv, VotesOfLiving, OnlyTheLivingVote
<1>4. OneMain'
  <2>1. MainsOf(gamer)' = MainsOf(gamer)
    BY DEF MafiaInv, MafiaTypeOK, MainsOf, LivingIn
  <2>2. "day" \in on' => Playing(gamer, "MAF")' = Playing(gamer, "MAF")
    BY DEF MafiaInv, MafiaTypeOK, Playing, LivingIn, SameRoles
  <2>3. "game_started" \notin on' => \A p \in Player : gamer'[p].main = FALSE
    BY DEF MafiaInv, OneMain
  <2> QED
    BY <2>1, <2>2, <2>3 DEF MafiaInv, OneMain
<1> QED
  BY <1>1, <1>3, <1>4 DEF MafiaInv

LEMMA PlayersAlone ==
  ASSUME MafiaInv, UNCHANGED <<by_id, by_nick, voice, gone, vote_info1, vote_info2>>,
         counter' \in 0..MaxId,
         Alike(gamer, gamer'), SameRoles(gamer, gamer') \/ "day" \notin on',
         OnePhase',
         "day" \in on' => "day" \in on /\ ("vote1" \in on' \/ vote2_person' \in Living),
         "game_started" \in on => "game_started" \in on'
  PROVE  MafiaInv'
<1>1. VoicesLive' /\ voice' \subseteq Player
  BY DEF MafiaInv, MafiaTypeOK, VoicesLive, Alike
<1>2. PlayersAreFound'
  BY DEF MafiaInv, PlayersAreFound
<1> QED
  BY <1>1, <1>2, LifeAlone DEF Alike

\* A night falls, or a day breaks with the first vote.
LEMMA NightOrDay ==
  ASSUME MafiaInv, UNCHANGED <<counter, by_id, by_nick, gone>>,
         Gamers(gamer'), voice' \subseteq voice, VoicesLive', OneMain', OnePhase',
         "day" \in on' => "vote1" \in on',
         \/ vote_info1' = NoVotes1 /\ vote_info2' = NoVotes2
         \/ UNCHANGED <<vote_info1, vote_info2>> /\ "day" \notin on'
  PROVE  MafiaInv'
<1>1. MafiaTypeOK'
  BY DEF MafiaInv, MafiaTypeOK, NoVotes1, NoVotes2
<1>2. VotesOfLiving' /\ OnlyTheLivingVote'
  BY DEF VotesOfLiving, OnlyTheLivingVote, NoVotes1, NoVotes2
<1>3. PlayersAreFound'
  BY DEF MafiaInv, PlayersAreFound
<1> QED
  BY <1>1, <1>2, <1>3 DEF MafiaInv
-----------------------------------------------------------------------------
(* The registration and the dealing.                                       *)

LEMMA RegistrationKeeps ==
  ASSUME MafiaInv,
         \/ start_game \/ ask_user \/ register_user
         \/ \E p \in Player : unregister_user(p)
  PROVE  MafiaInv'
<1>1. CASE start_game
  <2>1. OnePhase' /\ "day" \notin on' /\ "game_started" \notin on /\ 0 \in 0..MaxId
    BY <1>1, MafiaAssumption DEF start_game, OnePhase, Phases, Running
  <2>2. Alike(gamer, gamer')
    BY <1>1, NobodyIsBuried DEF start_game, MafiaInv, MafiaTypeOK
  <2> QED
    BY <1>1, <2>1, <2>2, PlayersAlone DEF start_game, Votes
<1>2. CASE ask_user
  <2>1. OnePhase' /\ on' = on
    BY <1>2 DEF ask_user, MafiaInv, OnePhase
  <2>2. Alike(gamer, gamer') /\ SameRoles(gamer, gamer')
    BY <1>2, NobodyIsBuried DEF ask_user, MafiaInv, MafiaTypeOK
  <2>3. "day" \in on' => "vote1" \in on' \/ vote2_person' \in Living
    BY <1>2 DEF ask_user, Votes, MafiaInv, VotesOfLiving
  <2> QED
    BY <1>2, <2>1, <2>2, <2>3, PlayersAlone DEF ask_user, Votes, MafiaInv, MafiaTypeOK
<1>3. CASE register_user
  <2>1. CASE UNCHANGED <<counter, by_id, by_nick, gamer, voice, gone>>
    <3>1. OnePhase' /\ on' = on
      BY <1>3 DEF register_user, MafiaInv, OnePhase
    <3>2. Alike(gamer, gamer') /\ SameRoles(gamer, gamer')
      BY <2>1, NobodyIsBuried DEF MafiaInv, MafiaTypeOK
    <3>3. "day" \in on' => "vote1" \in on' \/ vote2_person' \in Living
      BY <1>3 DEF register_user, Votes, MafiaInv, VotesOfLiving
    <3> QED
      BY <1>3, <2>1, <3>1, <3>2, <3>3, PlayersAlone DEF register_user, Votes, MafiaInv, MafiaTypeOK
  <2>2. CASE ~ UNCHANGED <<counter, by_id, by_nick, gamer, voice, gone>>
    <3>1. /\ "registration" \in on /\ on' = on /\ counter < MaxId /\ counter' = counter + 1
          /\ by_id' = by_id \cup {counter'} /\ by_nick' = by_nick \cup {counter'}
          /\ gamer' = [gamer EXCEPT ![counter'] = NewUser]
          /\ voice' = voice \cup {counter'} /\ gone' = gone \ {counter'}
          /\ UNCHANGED <<vote_info1, vote_info2>>
      BY <1>3, <2>2 DEF register_user, Votes
    <3> DEFINE c == counter'
    <3>2. c \in Player
      BY <3>1, MafiaAssumption DEF MafiaInv, MafiaTypeOK, Player
    <3>3. "day" \notin on /\ "game_started" \notin on
      BY <3>1 DEF MafiaInv, OnePhase, Phases
    <3>4. \A p \in Player : gamer'[p] = IF p = c THEN NewUser ELSE gamer[p]
      BY <3>1, <3>2 DEF MafiaInv, MafiaTypeOK, Gamers
    <3>5. Gamers(gamer')
      BY <3>1, <3>4, NewUserIsUser DEF MafiaInv, MafiaTypeOK, Gamers
    <3>6. MafiaTypeOK'
      BY <3>1, <3>2, <3>5, MafiaAssumption DEF MafiaInv, MafiaTypeOK
    <3>7. OnePhase' /\ VotesOfLiving' /\ OnlyTheLivingVote'
      BY <3>1, <3>3 DEF MafiaInv, OnePhase, VotesOfLiving, OnlyTheLivingVote
    <3>8. VoicesLive'
      <4>1. voice \subseteq Player /\ voice' = voice \cup {c}
        BY <3>1 DEF MafiaInv, MafiaTypeOK
      <4> HIDE DEF c
      <4>2. \A p \in voice' : gamer'[p].marked = FALSE /\ gamer'[p].left = FALSE
        BY <3>2, <3>4, <4>1, NewUserIsUser DEF MafiaInv, VoicesLive
      <4> QED
        BY <4>2 DEF VoicesLive
    <3>9. OneMain'
      <4>1. \A p \in Player : gamer'[p].main = FALSE
        BY <3>3, <3>4, NewUserIsUser DEF MafiaInv, OneMain
      <4>2. MainsOf(gamer)' = {}
        BY <3>6, <4>1 DEF MainsOf, LivingIn, MafiaTypeOK
      <4> QED
        BY <3>1, <3>3, <4>1, <4>2 DEF OneMain
    <3>10. PlayersAreFound'
      BY <3>1 DEF MafiaInv, PlayersAreFound
    <3> QED
      BY <3>6, <3>7, <3>8, <3>9, <3>10 DEF MafiaInv
  <2> QED
    BY <2>1, <2>2
<1>4. ASSUME NEW q \in Player, unregister_user(q) PROVE MafiaInv'
  <2>1. /\ "registration" \in on /\ on' = on /\ counter' = counter
        /\ by_id' = by_id \ {q} /\ by_nick' = by_nick \ {q}
        /\ gamer' = [gamer EXCEPT ![q] = NewUser]
        /\ voice' = voice \ {q} /\ gone' = gone
        /\ UNCHANGED <<vote_info1, vote_info2>>
    BY <1>4 DEF unregister_user, Votes
  <2>2. "day" \notin on /\ "game_started" \notin on
    BY <2>1 DEF MafiaInv, OnePhase, Phases
  <2>3. \A p \in Player : gamer'[p] = IF p = q THEN NewUser ELSE gamer[p]
    BY <2>1 DEF MafiaInv, MafiaTypeOK, Gamers
  <2>4. Gamers(gamer')
    BY <2>1, <2>3, NewUserIsUser DEF MafiaInv, MafiaTypeOK, Gamers
  <2>5. MafiaTypeOK'
    BY <2>1, <2>4 DEF MafiaInv, MafiaTypeOK
  <2>6. OnePhase' /\ VotesOfLiving' /\ OnlyTheLivingVote'
    BY <2>1, <2>2 DEF MafiaInv, OnePhase, VotesOfLiving, OnlyTheLivingVote
  <2>7. VoicesLive'
    BY <2>1, <2>3, NewUserIsUser DEF MafiaInv, MafiaTypeOK, VoicesLive
  <2>8. OneMain'
    <3>1. \A p \in Player : gamer'[p].main = FALSE
      BY <2>2, <2>3, NewUserIsUser DEF MafiaInv, OneMain
    <3>2. MainsOf(gamer)' = {}
      BY <2>5, <3>1 DEF MainsOf, LivingIn, MafiaTypeOK
    <3> QED
      BY <2>1, <2>2, <3>1, <3>2 DEF OneMain
  <2>9. PlayersAreFound'
    BY <2>1 DEF MafiaInv, PlayersAreFound
  <2> QED
    BY <2>5, <2>6, <2>7, <2>8, <2>9 DEF MafiaInv
<1> QED
  BY <1>1, <1>2, <1>3, <1>4

LEMMA ClearingKeeps == ASSUME MafiaInv, registration_timeout \/ halt PROVE MafiaInv'
<1>1. voice \in SUBSET Player
  BY DEF MafiaInv, MafiaTypeOK
<1>2. CASE registration_timeout
  <2>1. on' \cap (Phases \cup {"game_started"}) = {}
    BY <1>2 DEF registration_timeout, MafiaInv, OnePhase, Phases
  <2> QED
    BY <1>1, <1>2, <2>1, ClearedKeeps DEF registration_timeout, Votes, MafiaInv, MafiaTypeOK
<1>3. CASE halt
  <2>1. on' \cap (Phases \cup {"game_started"}) = {}
    BY <1>3 DEF halt, Phases
  <2>2. /\ vote_info1' \in [Player -> Player \cup {NoPlayer}]
        /\ vote_info2' \in [Player -> {"yes", "no", "-"}]
    BY <1>3 DEF halt, ForgetVotes, NoVotes1, NoVotes2
  <2> QED
    BY <1>1, <1>3, <2>1, <2>2, ClearedKeeps DEF halt, MafiaInv, MafiaTypeOK
<1> QED
  BY <1>2, <1>3

LEMMA DealKeeps ==
  ASSUME MafiaInv,
         \/ registration_end \/ roles_half
         \/ \E p \in Player : accept_role(p) \/ decline_role(p)
  PROVE  MafiaInv'
<1>1. /\ UNCHANGED <<by_id, by_nick, voice, vote_info1, vote_info2, counter, gone>>
      /\ on' = on \/ on' = on \cup {"roles_half"} \/ on' = (on \ {"registration"}) \cup {"roles_assign"}
      /\ \/ "roles_assign" \in on
         \/ "registration" \in on /\ on' = (on \ {"registration"}) \cup {"roles_assign"}
  <2>1. CASE registration_end
    BY <2>1 DEF registration_end, Votes
  <2>2. CASE roles_half
    BY <2>2 DEF roles_half, Votes
  <2>3. ASSUME NEW p \in Player, accept_role(p) \/ decline_role(p)
        PROVE  /\ UNCHANGED <<by_id, by_nick, voice, vote_info1, vote_info2, counter, gone, on>>
               /\ "roles_assign" \in on
    BY <2>3 DEF accept_role, decline_role, Votes
  <2> QED
    BY <2>1, <2>2, <2>3
<1>2. OnePhase' /\ "day" \notin on' /\ "game_started" \notin on
  BY <1>1 DEF MafiaInv, OnePhase, Phases
<1>3. Alike(gamer, gamer')
  <2>1. Gamers(gamer)
    BY DEF MafiaInv, MafiaTypeOK
  <2>2. ASSUME NEW g, gamer' = Recast(g) PROVE Alike(gamer, gamer')
    BY <2>1, <2>2, DealingKeeps
  <2>3. ASSUME NEW q \in Player, gamer' = [gamer EXCEPT ![q].accepted = TRUE] PROVE Alike(gamer, gamer')
    <3>1. ASSUME NEW p \in Player
          PROVE  /\ User(gamer'[p]) /\ gamer'[p].marked = gamer[p].marked /\ gamer'[p].left = gamer[p].left
                 /\ gamer'[p].main = gamer[p].main
      <4>1. User(gamer[p])
        BY <2>1 DEF Gamers
      <4>2. gamer'[p] = IF p = q THEN [gamer[p] EXCEPT !.accepted = TRUE] ELSE gamer[p]
        BY <2>1, <2>3 DEF Gamers
      <4> QED
        BY <4>1, <4>2 DEF User, NewUser
    <3>2. DOMAIN gamer' = Player
      BY <2>1, <2>3 DEF Gamers
    <3> QED
      BY <3>1, <3>2 DEF Alike, Gamers
  <2> QED
    BY <2>2, <2>3 DEF registration_end, roles_half, accept_role, decline_role
<1>4. counter' \in 0..MaxId
  BY <1>1 DEF MafiaInv, MafiaTypeOK
<1> QED
  BY <1>1, <1>2, <1>3, <1>4, PlayersAlone

LEMMA RolesEndKeeps == ASSUME MafiaInv, roles_end PROVE MafiaInv'
<1> DEFINE role(p) == IF p \in by_nick /\ ~ gamer[p].accepted THEN "MIR" ELSE gamer[p].role
           checked == [p \in Player |-> [gamer[p] EXCEPT !.accepted = FALSE, !.role = role(p)]]
<1>1. PICK g \in make_main_maf(checked) : gamer' = remove_left_users(g)
  BY DEF roles_end, NightOf
<1> HIDE DEF role
<1>2. Alike(gamer, checked)
  <2>1. ASSUME NEW p \in Player
        PROVE  LET u == [gamer[p] EXCEPT !.accepted = FALSE, !.role = role(p)] IN
               User(u) /\ u.main = gamer[p].main /\ u.marked = gamer[p].marked /\ u.left = gamer[p].left
    <3>1. User(gamer[p])
      BY DEF MafiaInv, MafiaTypeOK, Gamers
    <3> QED
      BY <3>1 DEF User, NewUser
  <2> QED
    BY <2>1 DEF Alike, Gamers
<1> HIDE DEF checked
<1>3. /\ UNCHANGED <<counter, by_id, by_nick, gone, voice, vote_info1, vote_info2>>
      /\ "roles_assign" \in on
      /\ on' = (((on \ {"roles_assign", "roles_half"}) \cup {"game_started"}) \ {"day", "late"}) \cup {"night"}
  BY DEF roles_end, NightFlags, Votes
<1>4. OnePhase' /\ "day" \notin on' /\ "game_started" \notin on /\ "game_started" \in on'
  BY <1>3 DEF MafiaInv, OnePhase, Phases
<1>5. \A p \in Player : checked[p].main = FALSE
  BY <1>2, <1>4 DEF Alike, MafiaInv, OneMain
<1>6. /\ Gamers(g)
      /\ \A p \in Player : g[p].marked = checked[p].marked /\ g[p].left = checked[p].left
      /\ \A p, q \in MainsOf(g) : p = q
  <2>1. Gamers(checked)
    BY <1>2 DEF Alike
  <2>2. /\ Gamers(g)
        /\ \A p \in Player : g[p].marked = checked[p].marked /\ g[p].left = checked[p].left
        /\ \/ Playing(checked, "MAF") = {} /\ g = checked
           \/ \E q \in Playing(checked, "MAF") : \A p \in Player : g[p].main = IF p = q THEN TRUE ELSE checked[p].main
    BY <1>1, <2>1, MainIsMade
  <2>3. by_id \subseteq Player
    BY DEF MafiaInv, MafiaTypeOK
  <2> QED
    BY <1>5, <2>2, <2>3 DEF MainsOf, LivingIn
<1>7. Buries(g, gamer', {}) /\ Gamers(gamer')
  BY <1>1, <1>6, LeftAreBuried DEF Buries
<1>8. VoicesLive'
  <2>1. voice \in SUBSET Player /\ \A p \in voice : g[p].marked = FALSE /\ g[p].left = FALSE
    BY <1>2, <1>6 DEF MafiaInv, MafiaTypeOK, VoicesLive, Alike
  <2>2. \A p \in voice : gamer'[p].marked = FALSE /\ gamer'[p].left = FALSE
    BY <1>7, <2>1 DEF Buries
  <2> QED
    BY <1>3, <2>2 DEF VoicesLive
<1>9. OneMain'
  <2>1. \A p, q \in MainsOf(gamer') : p = q
    BY <1>6, <1>7, MainsStay DEF MafiaInv
  <2>2. MainsOf(gamer') = MainsOf(gamer)'
    BY <1>3 DEF MainsOf, LivingIn
  <2> QED
    BY <1>4, <2>1, <2>2 DEF OneMain
<1> QED
  BY <1>3, <1>4, <1>7, <1>8, <1>9, NightOrDay
-----------------------------------------------------------------------------
(* Nights, days and votes.                                                 *)

\* Orders, and nobody's death, after g.
LEMMA OrdersKeep ==
  ASSUME NEW g, Gamers(g), NEW f, NEW u, NEW z, NEW dbl, process_night(g, f, u, z, dbl)
  PROVE  /\ Alike(g, gamer') /\ SameRoles(g, gamer')
         /\ on' = f \/ on' = (f \ {"night"}) \cup {"morning"}
<1>1. gamer' = g \/ gamer' = Ordered(g, u, z, dbl)
  BY DEF process_night
<1>2. on' = f \/ on' = (f \ {"night"}) \cup {"morning"}
  BY DEF process_night
<1> QED
  BY <1>1, <1>2, NobodyIsBuried, OrderedKeeps

LEMMA OrderKeeps ==
  ASSUME MafiaInv, NEW u, NEW z, NEW dbl, order(u, z, dbl)
  PROVE  MafiaInv'
<1>1. /\ "night" \in on /\ process_night(gamer, on, u, z, dbl)
      /\ UNCHANGED <<counter, by_id, by_nick, voice, gone, vote_info1, vote_info2>>
  BY DEF order, Votes
<1>2. Gamers(gamer) /\ counter' \in 0..MaxId
  BY <1>1 DEF MafiaInv, MafiaTypeOK
<1>3. /\ Alike(gamer, gamer')
      /\ on' = on \/ on' = (on \ {"night"}) \cup {"morning"}
  BY <1>1, <1>2, OrdersKeep
<1>4. OnePhase' /\ "day" \notin on' /\ ("game_started" \in on => "game_started" \in on')
  BY <1>1, <1>3 DEF MafiaInv, OnePhase, Phases
<1> QED
  BY <1>1, <1>2, <1>3, <1>4, PlayersAlone

\* The flags of a night that follows a day.
LEMMA NightPhase ==
  ASSUME MafiaInv, "day" \in on, NEW f, f \subseteq on, "game_started" \in f,
         on' = NightFlags(f) \/ on' = (NightFlags(f) \ {"night"}) \cup {"morning"}
  PROVE  OnePhase' /\ "day" \notin on' /\ "game_started" \in on'
BY DEF MafiaInv, OnePhase, Phases, NightFlags

\* The night comes, over g, when dead have died.
LEMMA NightComes ==
  ASSUME MafiaInv, UNCHANGED <<counter, by_id, by_nick, gone>>, ForgetVotes,
         NEW g, Gamers(g), NEW dead, voice' = voice \ dead,
         \A p \in voice : p \notin dead => g[p].marked = FALSE /\ g[p].left = FALSE,
         \A p, q \in MainsOf(g) : p = q,
         Alike(NightOf(g), gamer'),
         OnePhase', "day" \notin on', "game_started" \in on'
  PROVE  MafiaInv'
<1> DEFINE n == NightOf(g)
<1>1. Buries(g, n, {})
  BY LeftAreBuried DEF NightOf
<1>2. \A p, q \in MainsOf(n) : p = q
  BY <1>1, MainsStay DEF MafiaInv
<1> HIDE DEF n
<1>3. Alike(n, gamer') /\ Gamers(gamer')
  BY DEF n, Alike
<1>4. VoicesLive'
  BY <1>1, <1>3 DEF VoicesLive, MafiaInv, MafiaTypeOK, Buries, Alike
<1>5. OneMain'
  <2>1. MainsOf(gamer)' = MainsOf(n)
    BY <1>3 DEF MainsOf, LivingIn, Alike, MafiaInv, MafiaTypeOK
  <2> QED
    BY <1>2, <2>1 DEF OneMain
<1>6. vote_info1' = NoVotes1 /\ vote_info2' = NoVotes2
  BY DEF ForgetVotes
<1> QED
  BY <1>3, <1>4, <1>5, <1>6, NightOrDay

\* The night comes after a vote that nobody dies of.
LEMMA ToNightKeeps ==
  ASSUME MafiaInv, "day" \in on, NEW f, f \subseteq on, "game_started" \in f,
         ToNight(f), UNCHANGED <<counter, gone>>
  PROVE  MafiaInv'
<1>1. Gamers(gamer) /\ (\A p, q \in MainsOf(gamer) : p = q)
      /\ (\A p \in voice : gamer[p].marked = FALSE /\ gamer[p].left = FALSE)
  BY DEF MafiaInv, MafiaTypeOK, OneMain, VoicesLive
<1>2. /\ gamer' = NightOf(gamer) /\ on' = NightFlags(f) /\ ForgetVotes
      /\ UNCHANGED <<by_id, by_nick, voice>>
  BY DEF ToNight
<1>3. OnePhase' /\ "day" \notin on' /\ "game_started" \in on'
  BY <1>2, NightPhase
<1>4. Gamers(NightOf(gamer))
  BY <1>1, LeftAreBuried DEF NightOf, Buries
<1>5. Alike(NightOf(gamer), gamer')
  BY <1>2, <1>4, NobodyIsBuried
<1>6. voice' = voice \ {}
  BY <1>2
<1> QED
  BY <1>1, <1>2, <1>3, <1>5, <1>6, NightComes

\* The end of a game.
LEMMA EndKeeps ==
  ASSUME MafiaInv, NEW g, NEW v \in SUBSET Player, NEW f, EndGame(g, v, f), UNCHANGED <<counter, gone>>
  PROVE  MafiaInv'
<1>1. clear_users(v) /\ on' = f \cap {"roles_half", "vote1", "vote_say", "vote2"}
  BY DEF EndGame
<1>2. on' \cap (Phases \cup {"game_started"}) = {}
  BY <1>1 DEF Phases
<1>3. /\ vote_info1' \in [Player -> Player \cup {NoPlayer}]
      /\ vote_info2' \in [Player -> {"yes", "no", "-"}]
  BY DEF EndGame, ForgetVotes, NoVotes1, NoVotes2
<1>4. counter' \in 0..MaxId
  BY DEF MafiaInv, MafiaTypeOK
<1> QED
  BY <1>1, <1>2, <1>3, <1>4, ClearedKeeps

LEMMA DayKeeps == ASSUME MafiaInv, do_day PROVE MafiaInv'
<1> DEFINE f == (on \ {"night", "morning", "late"}) \cup {"day"}
           dead == Killed \cup Failed
           v == Silenced(dead)
           g == DayOf(dead)
<1>1. /\ DayBreaks /\ UNCHANGED <<counter, gone>>
      /\ IF Outcome(g) # "none" THEN EndGame(g, v, f)
         ELSE /\ gamer' \in check_for_main_maf(g) /\ on' = Vote1Flags(f) /\ voice' = v
              /\ ForgetVotes /\ UNCHANGED <<by_id, by_nick>>
  BY DEF do_day
<1>2. Buries(gamer, g, dead)
  BY DayBuries DEF MafiaInv, MafiaTypeOK
<1>3. v = voice \ dead /\ v \in SUBSET Player
  BY DEF Silenced, MafiaInv, MafiaTypeOK
<1> HIDE DEF dead, g, v
<1>4. CASE Outcome(g) # "none"
  BY <1>1, <1>3, <1>4, EndKeeps
<1>5. CASE Outcome(g) = "none"
  <2>1. OnePhase' /\ "vote1" \in on' /\ "day" \in on' /\ "game_started" \in on'
    BY <1>1, <1>5 DEF DayBreaks, Vote1Flags, MafiaInv, OnePhase, Phases
  <2>2. Gamers(g) /\ \A p, q \in MainsOf(g) : p = q
    <3>1. \A p, q \in MainsOf(gamer) : p = q
      BY DEF MafiaInv, OneMain
    <3> QED
      BY <1>2, <3>1, MainsStay DEF Buries, MafiaInv
  <2>3. /\ Gamers(gamer')
        /\ \A p \in Player : gamer'[p].marked = g[p].marked /\ gamer'[p].left = g[p].left
        /\ \A p, q \in MainsOf(gamer') : p = q
        /\ Playing(gamer', "MAF") # {} => MainsOf(gamer') # {}
    <3>1. PICK h \in check_for_main_maf(g) : gamer' = h
      BY <1>1, <1>5
    <3>2. /\ Gamers(h)
          /\ \A p \in Player : h[p].marked = g[p].marked /\ h[p].left = g[p].left
          /\ \A p, q \in MainsOf(h) : p = q
          /\ Playing(h, "MAF") # {} => MainsOf(h) # {}
      BY <2>2, MainIsThere DEF MafiaInv
    <3> QED
      BY <3>1, <3>2
  <2>4. MainsOf(gamer') = MainsOf(gamer)' /\ Playing(gamer', "MAF") = Playing(gamer, "MAF")'
    BY <1>1, <1>5 DEF MainsOf, Playing, LivingIn
  <2>5. OneMain'
    BY <2>1, <2>3, <2>4 DEF OneMain
  <2>6. VoicesLive' /\ voice' \subseteq voice
    BY <1>1, <1>2, <1>3, <1>5, <2>3 DEF VoicesLive, MafiaInv, MafiaTypeOK, Buries
  <2>7. vote_info1' = NoVotes1 /\ vote_info2' = NoVotes2
    BY <1>1, <1>5 DEF ForgetVotes
  <2> QED
    BY <1>1, <1>5, <2>1, <2>3, <2>5, <2>6, <2>7, NightOrDay
<1> QED
  BY <1>4, <1>5

\* A step of the day that leaves the players as they are.
LEMMA VotesMove ==
  ASSUME MafiaInv, UNCHANGED <<counter, by_id, by_nick, voice, gone, gamer>>,
         "day" \in on, "day" \in on', "game_started" \in on', OnePhase',
         vote_info1' \in [Player -> Player \cup {NoPlayer}],
         vote_info2' \in [Player -> {"yes", "no", "-"}],
         "vote1" \in on' \/ vote2_person' \in Living,
         \A p \in Player : vote_info1'[p] \in Living \cup {NoPlayer},
         \A p \in Player \ Living : vote_info1'[p] = NoPlayer /\ vote_info2'[p] = "-"
  PROVE  MafiaInv'
<1>1. Living' = Living /\ MainsOf(gamer)' = MainsOf(gamer) /\ Playing(gamer, "MAF")' = Playing(gamer, "MAF")
  BY DEF Living, LivingIn, MainsOf, Playing
<1>2. MafiaTypeOK' /\ VoicesLive' /\ PlayersAreFound'
  BY DEF MafiaInv, MafiaTypeOK, VoicesLive, PlayersAreFound
<1>3. VotesOfLiving' /\ OnlyTheLivingVote' /\ OneMain'
  BY <1>1 DEF VotesOfLiving, OnlyTheLivingVote, OneMain, MafiaInv
<1> QED
  BY <1>2, <1>3 DEF MafiaInv

LEMMA LeadersLive ==
  ASSUME NEW v, NEW S, \A p \in Player : v[p] \in S \cup {NoPlayer}, NEW z \in Leaders(v)
  PROVE  z \in S
<1>1. z \in Player /\ Voices(z, v) > 0
  BY DEF Leaders
<1>2. {p \in Player : v[p] = z} # {}
  BY <1>1, FS_EmptySet DEF Voices
<1> QED
  BY <1>1, <1>2 DEF Player, NoPlayer

LEMMA AccusationKeeps ==
  ASSUME MafiaInv, {"day", "vote1"} \subseteq on, NEW v,
         \A p \in Player : v[p] \in Living \cup {NoPlayer}, Accuse(v),
         UNCHANGED <<counter, by_id, by_nick, voice, gone>>
  PROVE  MafiaInv'
<1>1. vote2_person' \in Living
  BY LeadersLive DEF Accuse
<1>2. /\ on' = (on \ {"vote1"}) \cup {"vote_say"} /\ vote_info1' = NoVotes1
      /\ UNCHANGED <<gamer, vote_info2>>
  BY DEF Accuse
<1>3. OnePhase' /\ "day" \in on' /\ "game_started" \in on'
  BY <1>2 DEF MafiaInv, OnePhase, Phases
<1>4. \A p \in Player \ Living : vote_info2'[p] = "-"
  BY <1>2 DEF MafiaInv, OnlyTheLivingVote
<1>5. /\ vote_info1' \in [Player -> Player \cup {NoPlayer}]
      /\ vote_info2' \in [Player -> {"yes", "no", "-"}]
      /\ \A p \in Player : vote_info1'[p] = NoPlayer
  BY <1>2 DEF MafiaInv, MafiaTypeOK, NoVotes1
<1> QED
  BY <1>1, <1>2, <1>3, <1>4, <1>5, VotesMove

\* Who votes, and for whom, is alive.
LEMMA VoteKeeps ==
  ASSUME MafiaInv, NEW u, NEW z, NEW dbl, vote(u, z, dbl)
  PROVE  MafiaInv'
<1> DEFINE v == [vote_info1 EXCEPT ![u] = z]
           f == on \ {"vote1"}
<1>1. /\ {"day", "vote1"} \subseteq on /\ {u, z} \subseteq Living
      /\ UNCHANGED <<counter, by_id, by_nick, voice, gone>>
      /\ \/ vote_info1' = v /\ UNCHANGED <<on, gamer, vote_info2, vote2_person>>
         \/ ForgetVotes /\ process_night(NightOf(gamer), NightFlags(f), u, z, dbl)
         \/ Accuse(v)
  BY DEF vote
<1>2. Living \subseteq Player
  BY DEF Living, LivingIn, MafiaInv, MafiaTypeOK
<1>3. /\ v \in [Player -> Player \cup {NoPlayer}]
      /\ \A p \in Player : v[p] \in Living \cup {NoPlayer}
      /\ \A p \in Player \ Living : v[p] = NoPlayer
  BY <1>1, <1>2 DEF MafiaInv, MafiaTypeOK, VotesOfLiving, OnlyTheLivingVote
<1> HIDE DEF v
<1>4. CASE vote_info1' = v /\ UNCHANGED <<on, gamer, vote_info2, vote2_person>>
  <2>1. OnePhase' /\ "game_started" \in on'
    BY <1>1, <1>4 DEF MafiaInv, OnePhase
  <2>2. \A p \in Player \ Living : vote_info2'[p] = "-"
    BY <1>1, <1>4 DEF MafiaInv, OnlyTheLivingVote
  <2>3. vote_info2' \in [Player -> {"yes", "no", "-"}]
    BY <1>4 DEF MafiaInv, MafiaTypeOK
  <2> QED
    BY <1>1, <1>3, <1>4, <2>1, <2>2, <2>3, VotesMove
<1>5. CASE ForgetVotes /\ process_night(NightOf(gamer), NightFlags(f), u, z, dbl)
  <2> DEFINE n == NightOf(gamer)
  <2>1. Gamers(gamer) /\ (\A p, q \in MainsOf(gamer) : p = q)
        /\ (\A p \in voice : gamer[p].marked = FALSE /\ gamer[p].left = FALSE)
    BY DEF MafiaInv, MafiaTypeOK, OneMain, VoicesLive
  <2>2. Gamers(n)
    BY <2>1, LeftAreBuried DEF NightOf, Buries
  <2> HIDE DEF n
  <2>3. /\ Alike(n, gamer')
        /\ on' = NightFlags(f) \/ on' = (NightFlags(f) \ {"night"}) \cup {"morning"}
    BY <1>5, <2>2, OrdersKeep DEF n
  <2>4. f \subseteq on /\ "game_started" \in f
    BY <1>1 DEF MafiaInv, OnePhase
  <2>5. OnePhase' /\ "day" \notin on' /\ "game_started" \in on'
    BY <1>1, <2>3, <2>4, NightPhase
  <2>6. voice' = voice \ {} /\ Alike(NightOf(gamer), gamer')
    BY <1>1, <2>3 DEF n
  <2> QED
    BY <1>1, <1>5, <2>1, <2>5, <2>6, NightComes
<1>6. CASE Accuse(v)
  BY <1>1, <1>3, <1>6, AccusationKeeps
<1> QED
  BY <1>1, <1>4, <1>5, <1>6

LEMMA Vote1TimeoutKeeps == ASSUME MafiaInv, vote1_timeout PROVE MafiaInv'
<1>1. /\ {"day", "vote1"} \subseteq on /\ UNCHANGED <<counter, gone>>
      /\ \/ ToNight(on \ {"vote1"})
         \/ Accuse(vote_info1) /\ UNCHANGED <<by_id, by_nick, voice>>
  BY DEF vote1_timeout
<1>2. CASE ToNight(on \ {"vote1"})
  <2>1. on \ {"vote1"} \subseteq on /\ "game_started" \in on \ {"vote1"}
    BY <1>1 DEF MafiaInv, OnePhase
  <2> QED
    BY <1>1, <1>2, <2>1, ToNightKeeps
<1>3. CASE Accuse(vote_info1) /\ UNCHANGED <<by_id, by_nick, voice>>
  <2>1. \A p \in Player : vote_info1[p] \in Living \cup {NoPlayer}
    BY <1>1 DEF MafiaInv, VotesOfLiving
  <2> QED
    BY <1>1, <1>3, <2>1, AccusationKeeps
<1> QED
  BY <1>1, <1>2, <1>3

\* A conviction, an acquittal and a draw, on whatever votes.
LEMMA Vote2EndKeeps ==
  ASSUME MafiaInv, {"day", "vote2"} \subseteq on, NEW v2, NEW byTimer \in BOOLEAN,
         end_vote2(v2, byTimer), UNCHANGED <<counter, gone>>
  PROVE  MafiaInv'
<1> DEFINE f == IF byTimer THEN on \ {"vote2"} ELSE on
           v == Silenced({vote2_person})
           x == Executed
<1>1. \/ /\ on' = Vote1Flags(on) /\ ForgetVotes /\ UNCHANGED <<by_id, by_nick, gamer, voice>>
      \/ EndGame(x, v, on \ {"day", "vote2"})
      \/ /\ \E g \in check_for_main_maf(x) : gamer' = NightOf(g)
         /\ on' = NightFlags(on \ {"vote2"}) /\ voice' = v /\ ForgetVotes
         /\ UNCHANGED <<by_id, by_nick>>
      \/ ToNight(f)
  BY DEF end_vote2
<1>2. f \subseteq on /\ "game_started" \in f
  BY DEF MafiaInv, OnePhase
<1>3. v = voice \ {vote2_person} /\ v \in SUBSET Player
  BY DEF Silenced, MafiaInv, MafiaTypeOK
<1>4. Buries(gamer, x, {vote2_person})
  BY ExecutionBuries DEF MafiaInv, MafiaTypeOK
<1> HIDE DEF f, v, x
<1>5. CASE on' = Vote1Flags(on) /\ ForgetVotes /\ UNCHANGED <<by_id, by_nick, gamer, voice>>
  <2>1. OnePhase' /\ {"day", "vote1", "game_started"} \subseteq on'
    BY <1>5 DEF Vote1Flags, MafiaInv, OnePhase, Phases
  <2>2. /\ vote_info1' = NoVotes1 /\ vote_info2' = NoVotes2
        /\ NoVotes1 \in [Player -> Player \cup {NoPlayer}]
        /\ NoVotes2 \in [Player -> {"yes", "no", "-"}]
    BY <1>5 DEF ForgetVotes, NoVotes1, NoVotes2
  <2>3. \A p \in Player : vote_info1'[p] = NoPlayer /\ vote_info2'[p] = "-"
    BY <2>2 DEF NoVotes1, NoVotes2
  <2> QED
    BY <1>5, <2>1, <2>2, <2>3, VotesMove
<1>6. CASE EndGame(x, v, on \ {"day", "vote2"})
  BY <1>3, <1>6, EndKeeps
<1>7. ASSUME NEW g \in check_for_main_maf(x), gamer' = NightOf(g),
             on' = NightFlags(on \ {"vote2"}), voice' = v, ForgetVotes, UNCHANGED <<by_id, by_nick>>
      PROVE  MafiaInv'
  <2>1. Gamers(x) /\ \A p, q \in MainsOf(x) : p = q
    <3>1. \A p, q \in MainsOf(gamer) : p = q
      BY DEF MafiaInv, OneMain
    <3> QED
      BY <1>4, <3>1, MainsStay DEF Buries, MafiaInv
  <2>2. /\ Gamers(g)
        /\ \A p \in Player : g[p].marked = x[p].marked /\ g[p].left = x[p].left
        /\ \A p, q \in MainsOf(g) : p = q
    BY <2>1, MainIsThere DEF MafiaInv
  <2>3. \A p \in voice : p \notin {vote2_person} => g[p].marked = FALSE /\ g[p].left = FALSE
    BY <1>4, <2>2 DEF Buries, MafiaInv, MafiaTypeOK, VoicesLive
  <2>4. on \ {"vote2"} \subseteq on /\ "game_started" \in on \ {"vote2"}
    BY DEF MafiaInv, OnePhase
  <2>5. OnePhase' /\ "day" \notin on' /\ "game_started" \in on'
    BY <1>7, <2>4, NightPhase
  <2>6. Gamers(NightOf(g))
    BY <2>2, LeftAreBuried DEF NightOf, Buries
  <2>7. Alike(NightOf(g), gamer') /\ voice' = voice \ {vote2_person}
    BY <1>3, <1>7, <2>6, NobodyIsBuried
  <2> QED
    BY <1>7, <2>2, <2>3, <2>5, <2>7, NightComes
<1>8. CASE ToNight(f)
  BY <1>2, <1>8, ToNightKeeps
<1> QED
  BY <1>1, <1>5, <1>6, <1>7, <1>8

\* Who says yes or no has a voice, and so is alive.
LEMMA YesNoKeeps ==
  ASSUME MafiaInv, NEW u, NEW a \in {"yes", "no"}, vote_yes_no(u, a)
  PROVE  MafiaInv'
<1> DEFINE v2 == [vote_info2 EXCEPT ![u] = a]
<1>1. /\ {"day", "vote2"} \subseteq on /\ u \in by_nick \cap voice /\ UNCHANGED <<counter, gone>>
      /\ \/ end_vote2(v2, FALSE)
         \/ /\ vote_info2' = v2
            /\ UNCHANGED <<on, by_id, by_nick, gamer, vote_info1, vote2_person, voice>>
  BY DEF vote_yes_no
<1>2. u \in Living
  BY <1>1 DEF MafiaInv, MafiaTypeOK, PlayersAreFound, VoicesLive, Living, LivingIn
<1>3. /\ v2 \in [Player -> {"yes", "no", "-"}]
      /\ \A p \in Player \ Living : v2[p] = "-"
  BY <1>1, <1>2 DEF MafiaInv, MafiaTypeOK, OnlyTheLivingVote
<1> HIDE DEF v2
<1>4. CASE end_vote2(v2, FALSE)
  BY <1>1, <1>4, Vote2EndKeeps
<1>5. CASE /\ vote_info2' = v2
           /\ UNCHANGED <<on, by_id, by_nick, gamer, vote_info1, vote2_person, voice>>
  <2>1. OnePhase' /\ "game_started" \in on'
    BY <1>1, <1>5 DEF MafiaInv, OnePhase
  <2>2. /\ vote_info1' \in [Player -> Player \cup {NoPlayer}]
        /\ "vote1" \in on' \/ vote2_person' \in Living
        /\ \A p \in Player : vote_info1'[p] \in Living \cup {NoPlayer}
        /\ \A p \in Player \ Living : vote_info1'[p] = NoPlayer
    BY <1>1, <1>5 DEF MafiaInv, MafiaTypeOK, VotesOfLiving, OnlyTheLivingVote
  <2> QED
    BY <1>1, <1>3, <1>5, <2>1, <2>2, VotesMove
<1> QED
  BY <1>1, <1>4, <1>5

LEMMA Vote2TimeoutKeeps == ASSUME MafiaInv, vote2_timeout PROVE MafiaInv'
BY Vote2EndKeeps DEF vote2_timeout

LEMMA TimeKeeps == ASSUME MafiaInv, do_vote2 \/ day_time_passes PROVE MafiaInv'
<1>1. /\ UNCHANGED <<counter, by_id, by_nick, gone, voice, gamer, vote_info1, vote_info2, vote2_person>>
      /\ \/ {"day", "vote_say"} \subseteq on /\ on' = (on \ {"vote_say"}) \cup {"vote2"}
         \/ "day" \in on /\ on' = on \cup {"late"}
  BY DEF do_vote2, day_time_passes, Votes
<1>2. OnePhase' /\ {"day", "game_started"} \subseteq on' /\ "day" \in on
  BY <1>1 DEF MafiaInv, OnePhase, Phases
<1>3. "vote1" \in on' => "vote1" \in on
  BY <1>1
<1>4. "vote1" \in on' \/ vote2_person' \in Living
  BY <1>1, <1>2 DEF MafiaInv, VotesOfLiving
<1>5. /\ vote_info1' \in [Player -> Player \cup {NoPlayer}]
      /\ vote_info2' \in [Player -> {"yes", "no", "-"}]
      /\ \A p \in Player : vote_info1'[p] \in Living \cup {NoPlayer}
      /\ \A p \in Player \ Living : vote_info1'[p] = NoPlayer /\ vote_info2'[p] = "-"
  BY <1>1, <1>2 DEF MafiaInv, MafiaTypeOK, VotesOfLiving, OnlyTheLivingVote
<1> QED
  BY <1>1, <1>2, <1>4, <1>5, VotesMove
-----------------------------------------------------------------------------
(* Who comes and goes, and every step.                                     *)

LEMMA MovesKeep ==
  ASSUME MafiaInv, NEW u, quit(u) \/ join(u) \/ change_nick(u)
  PROVE  MafiaInv'
<1>1. /\ UNCHANGED <<on, counter, by_id, vote_info1, vote_info2, vote2_person>>
      /\ u \in by_nick /\ gamer[u].marked # TRUE
  BY DEF quit, join, change_nick, Moved, Votes
<1>2. u \in Player /\ gamer[u].marked = FALSE
  BY <1>1 DEF MafiaInv, MafiaTypeOK, PlayersAreFound, Gamers, User
<1>3. DOMAIN gamer = Player /\ \A p \in Player : User(gamer[p])
  BY DEF MafiaInv, MafiaTypeOK, Gamers
<1> DEFINE Follows(p) == /\ User(gamer'[p]) /\ gamer'[p].marked = gamer[p].marked
                         /\ gamer'[p].main = gamer[p].main /\ gamer'[p].role = gamer[p].role
                         /\ p # u => gamer'[p].left = gamer[p].left
<1>4. /\ DOMAIN gamer' = Player /\ \A p \in Player : Follows(p)
      /\ \/ voice' \subseteq voice \ {u}
         \/ voice' \subseteq voice /\ gamer' = gamer
         \/ voice' \subseteq voice \cup {u} /\ gamer'[u].left = FALSE
  <2>1. ASSUME NEW k \in BOOLEAN, gamer' = [gamer EXCEPT ![u].left = k]
        PROVE  DOMAIN gamer' = Player /\ (\A p \in Player : Follows(p)) /\ gamer'[u].left = k
    <3>1. ASSUME NEW p \in Player PROVE Follows(p) /\ (p = u => gamer'[p].left = k)
      <4>1. gamer'[p] = IF p = u THEN [gamer[p] EXCEPT !.left = k] ELSE gamer[p]
        BY <1>3, <2>1
      <4> QED
        BY <1>3, <4>1 DEF User, NewUser
    <3> QED
      BY <1>2, <1>3, <2>1, <3>1
  <2>2. CASE quit(u)
    BY <2>1, <2>2 DEF quit
  <2>3. CASE join(u)
    BY <2>1, <2>3 DEF join
  <2>4. CASE change_nick(u) /\ gamer' = gamer
    BY <1>3, <2>4 DEF change_nick
  <2>5. CASE change_nick(u) /\ gamer' # gamer
    <3>1. gamer' = [gamer EXCEPT ![u].left = TRUE, ![u].chnick = TRUE] /\ voice' = voice \ {u}
      BY <2>5 DEF change_nick
    <3>2. ASSUME NEW p \in Player PROVE Follows(p)
      <4>1. gamer'[p] = IF p = u THEN [gamer[p] EXCEPT !.left = TRUE, !.chnick = TRUE] ELSE gamer[p]
        BY <1>3, <3>1
      <4> QED
        BY <1>3, <4>1 DEF User, NewUser
    <3> QED
      BY <1>3, <3>1, <3>2
  <2> QED
    BY <2>2, <2>3, <2>4, <2>5
<1>5. Gamers(gamer') /\ voice' \subseteq Player
  BY <1>2, <1>4 DEF Gamers, MafiaInv, MafiaTypeOK
<1>6. VoicesLive'
  BY <1>2, <1>4, <1>5 DEF VoicesLive, MafiaInv
<1>7. PlayersAreFound'
  BY DEF quit, join, change_nick, Moved, MafiaInv, PlayersAreFound
<1>8. OnePhase' /\ SameRoles(gamer, gamer')
  BY <1>1, <1>4 DEF MafiaInv, OnePhase, SameRoles
<1>9. "day" \in on' => "day" \in on /\ ("vote1" \in on' \/ vote2_person' \in Living)
  BY <1>1 DEF MafiaInv, VotesOfLiving
<1>10. counter' \in 0..MaxId
  BY <1>1 DEF MafiaInv, MafiaTypeOK
<1> QED
  BY <1>1, <1>4, <1>5, <1>6, <1>7, <1>8, <1>9, <1>10, LifeAlone

LEMMA MafiaNextKeeps == MafiaInv /\ [MafiaNext]_mafiaVars => MafiaInv'
<1> SUFFICES ASSUME MafiaInv, [MafiaNext]_mafiaVars PROVE MafiaInv'
  OBVIOUS
<1>1. CASE UNCHANGED mafiaVars
  <2>1. UNCHANGED <<on, counter, by_id, by_nick, gamer, vote_info1, vote_info2, vote2_person, voice, gone>>
    BY <1>1 DEF mafiaVars
  <2>2. MafiaTypeOK' /\ OnePhase' /\ VoicesLive' /\ PlayersAreFound'
    BY <2>1 DEF MafiaInv, MafiaTypeOK, OnePhase, VoicesLive, PlayersAreFound
  <2>3. Living' = Living /\ MainsOf(gamer)' = MainsOf(gamer) /\ Playing(gamer, "MAF")' = Playing(gamer, "MAF")
    BY <2>1 DEF Living, LivingIn, MainsOf, Playing
  <2>4. VotesOfLiving' /\ OnlyTheLivingVote' /\ OneMain'
    BY <2>1, <2>3 DEF MafiaInv, VotesOfLiving, OnlyTheLivingVote, OneMain
  <2> QED
    BY <2>2, <2>4 DEF MafiaInv
<1>2. CASE Timers
  BY <1>2, ClearingKeeps, DealKeeps, RolesEndKeeps, DayKeeps, Vote1TimeoutKeeps, TimeKeeps, Vote2TimeoutKeeps
  DEF Timers
<1>3. CASE day_time_passes
  BY <1>3, TimeKeeps
<1>4. CASE Commands
  BY <1>4, RegistrationKeeps, ClearingKeeps, DealKeeps, MovesKeep, OrderKeeps, VoteKeeps, YesNoKeeps
  DEF Commands
<1> QED
  BY <1>1, <1>2, <1>3, <1>4 DEF MafiaNext

\* What every state of a game of the mafia satisfies.
THEOREM MafiaInvariant == MafiaSpec => []MafiaInv
BY MafiaInitKeeps, MafiaNextKeeps, PTL DEF MafiaSpec

\* A set whose elements are all the same.
LEMMA OneAtMost ==
  ASSUME NEW S, \A x, y \in S : x = y
  PROVE  Cardinality(S) <= 1 /\ (S # {} => Cardinality(S) = 1)
<1>1. CASE S = {}
  BY <1>1, FS_EmptySet
<1>2. ASSUME NEW x \in S PROVE Cardinality(S) = 1
  <2>1. S = {x}
    BY <1>2
  <2> QED
    BY <2>1, FS_Singleton
<1> QED
  BY <1>1, <1>2

\* The flags, the roles, the votes and the maps of a game agree, for any number
\* of players, whoever dies, leaves, comes back or changes nick.
THEOREM MafiaAgrees == MafiaSpec => []GameAgrees
<1>1. ASSUME MafiaInv PROVE GameAgrees
  <2>1. PhasesAgree
    BY <1>1, OneAtMost DEF MafiaInv, OnePhase, VotesOfLiving, PhasesAgree
  <2>2. OneMainMafioso
    <3>1. {p \in Living : gamer[p].main} = MainsOf(gamer)
      BY <1>1 DEF MainsOf, Living, LivingIn, MafiaInv, MafiaTypeOK, Gamers, User
    <3> QED
      BY <1>1, <3>1, OneAtMost DEF MafiaInv, OneMain, OneMainMafioso
  <2> QED
    BY <1>1, <2>1, <2>2 DEF MafiaInv, GameAgrees
<1> QED
  BY <1>1, MafiaInvariant, PTL
-----------------------------------------------------------------------------
(* Roles are not doubled.                                                  *)

Holders(g, r) == {p \in by_id : g[p].role = r}
NoMore(g, h) ==
  \A r \in Role \ {"MIR"} : Cardinality(Holders(h, r)) <= Cardinality(Holders(g, r))
NoneDoubled == \A r \in Role \ {"MIR"} : HoldersIn(r)' <= HoldersIn(r)

\* A set of natural numbers has a least one.
Below == {ss \in Nat \X Nat : ss[1] < ss[2]}

LEMMA BelowIsWellFounded == IsWellFoundedOn(Below, Nat)
  BY NatLessThanWellFounded DEF OpToRel, Below

LEMMA HasLeast == ASSUME NEW T, T \subseteq Nat, T # {} PROVE \E x \in T : \A y \in T : x <= y
<1>1. PICK x \in T : \A y \in T : ~ (<<y, x>> \in Below)
  BY BelowIsWellFounded, WFMin
<1>2. ASSUME NEW y \in T PROVE x <= y
  <2>1. y \in Nat /\ x \in Nat
    OBVIOUS
  <2>2. ~ (<<y, x>> \in Below)
    BY <1>1
  <2>3. ~ (y < x)
    BY <2>1, <2>2 DEF Below
  <2> QED
    BY <2>1, <2>3
<1> QED
  BY <1>2

LEMMA HoldersAreFinite ==
  ASSUME NEW S, S \subseteq Player
  PROVE  IsFiniteSet(S) /\ Cardinality(S) \in Nat
<1>1. IsFiniteSet(Player)
  BY MafiaAssumption, FS_Interval DEF Player
<1> QED
  BY <1>1, FS_Subset, FS_CardinalityType

\* Who keeps the role or becomes MIR doubles nothing.
Kept == by_id' \subseteq by_id /\ \A p \in by_id' : gamer'[p].role \in {gamer[p].role, "MIR"}

LEMMA KeptIsNotDoubled == ASSUME by_id \subseteq Player, Kept PROVE NoneDoubled
<1> SUFFICES ASSUME NEW r \in Role \ {"MIR"} PROVE HoldersIn(r)' <= HoldersIn(r)
  BY DEF NoneDoubled
<1> DEFINE S == {p \in by_id : gamer[p].role = r}
           T == {p \in by_id' : gamer'[p].role = r}
<1>1. T \subseteq S /\ S \subseteq Player
  BY DEF Kept
<1>2. HoldersIn(r) = Cardinality(S) /\ HoldersIn(r)' = Cardinality(T)
  BY DEF HoldersIn
<1> HIDE DEF S, T
<1> QED
  BY <1>1, <1>2, HoldersAreFinite, FS_Subset

\* A role that is given back goes to one MIR at most.
LEMMA RoleMoves ==
  ASSUME by_id \subseteq Player, by_nick \subseteq by_id, NEW g, Gamers(g), NEW p,
         NEW h \in Declined(g, p)
  PROVE  Gamers(h) /\ NoMore(g, h)
<1>1. CASE p \notin by_nick \/ g[p].role = "MIR"
  <2>1. h = g
    BY <1>1 DEF Declined
  <2> QED
    BY <2>1, HoldersAreFinite DEF NoMore, Holders
<1>2. CASE p \in by_nick /\ g[p].role # "MIR"
  <2> DEFINE r == g[p].role
             s(k) == (k[p].score - 50) % W
             to(k) == [k EXCEPT ![p].role = "MIR", ![p].score = s(k)]
  <2>1. PICK k \in assign_role(g, r) : h = to(k)
    BY <1>2 DEF Declined
  <2>2. p \in by_id /\ p \in Player
    BY <1>2
  <2>3. \A x \in Player : User(g[x])
    BY DEF Gamers
  <2> HIDE DEF s
  <2>4. ASSUME Gamers(k)
        PROVE  /\ Gamers(h) /\ h[p].role = "MIR"
               /\ \A x \in Player : x # p => h[x].role = k[x].role
    <3>1. ASSUME NEW x \in Player
          PROVE  User(h[x]) /\ h[x].role = IF x = p THEN "MIR" ELSE k[x].role
      <4>1. User(k[x])
        BY <2>4 DEF Gamers
      <4>2. h[x] = IF x = p THEN [k[x] EXCEPT !.role = "MIR", !.score = s(k)] ELSE k[x]
        BY <2>1, <2>4 DEF Gamers
      <4> QED
        BY <4>1, <4>2 DEF User, NewUser
    <3>2. DOMAIN h = Player
      BY <2>1, <2>4 DEF Gamers
    <3> QED
      BY <2>2, <3>1, <3>2 DEF Gamers
  <2>5. CASE k = g
    <3>1. /\ Gamers(h) /\ h[p].role = "MIR"
          /\ \A x \in Player : x # p => h[x].role = g[x].role
      BY <2>4, <2>5
    <3>2. ASSUME NEW q \in Role \ {"MIR"} PROVE Cardinality(Holders(h, q)) <= Cardinality(Holders(g, q))
      <4>1. Holders(h, q) \subseteq Holders(g, q) /\ Holders(g, q) \subseteq Player
        BY <3>1 DEF Holders
      <4> QED
        BY <4>1, HoldersAreFinite, FS_Subset
    <3> QED
      BY <3>1, <3>2 DEF NoMore
  <2>6. ASSUME NEW u \in by_id, g[u].role = "MIR", k = [g EXCEPT ![u].role = r]
        PROVE  Gamers(h) /\ NoMore(g, h)
    <3>1. u # p /\ u \in Player
      BY <1>2, <2>6
    <3>2. ASSUME NEW x \in Player
          PROVE  User(k[x]) /\ k[x].role = IF x = u THEN r ELSE g[x].role
      <4>1. k[x] = IF x = u THEN [g[x] EXCEPT !.role = r] ELSE g[x]
        BY <2>6 DEF Gamers
      <4> HIDE DEF r
      <4> QED
        BY <2>3, <4>1 DEF User, NewUser
    <3>3. DOMAIN k = Player
      BY <2>6 DEF Gamers
    <3>4. Gamers(k)
      BY <3>2, <3>3 DEF Gamers
    <3>5. /\ Gamers(h) /\ h[p].role = "MIR" /\ h[u].role = r
          /\ \A x \in Player : x \notin {u, p} => h[x].role = g[x].role
      BY <2>4, <3>1, <3>2, <3>4
    <3>6. ASSUME NEW q \in Role \ {"MIR"} PROVE Cardinality(Holders(h, q)) <= Cardinality(Holders(g, q))
      <4> DEFINE S == Holders(g, q)
                 T == Holders(h, q)
      <4>1. S \subseteq Player /\ T \subseteq Player
        BY DEF Holders
      <4>2. IsFiniteSet(S) /\ Cardinality(S) \in Nat /\ IsFiniteSet(T) /\ Cardinality(T) \in Nat
        BY <4>1, HoldersAreFinite
      <4>3. ASSUME q # r PROVE Cardinality(T) <= Cardinality(S)
        <5>1. T \subseteq S
          BY <2>2, <2>6, <3>1, <3>5, <4>3 DEF Holders
        <5> HIDE DEF S, T
        <5> QED
          BY <4>2, <5>1, FS_Subset
      <4>4. ASSUME q = r PROVE Cardinality(T) <= Cardinality(S)
        <5>1. p \in S /\ u \notin S /\ T = (S \ {p}) \cup {u}
          BY <2>2, <2>6, <3>1, <3>5, <4>4 DEF Holders
        <5> HIDE DEF S, T
        <5>2. IsFiniteSet(S \ {p}) /\ Cardinality(S \ {p}) = Cardinality(S) - 1
          BY <4>2, <5>1, FS_RemoveElement
        <5>3. Cardinality(T) = Cardinality(S \ {p}) + 1
          BY <5>1, <5>2, FS_AddElement
        <5> QED
          BY <4>2, <5>2, <5>3
      <4> QED
        BY <4>3, <4>4
    <3> QED
      BY <3>5, <3>6 DEF NoMore
  <2>7. k = g \/ \E u \in by_id : g[u].role = "MIR" /\ k = [g EXCEPT ![u].role = r]
    BY <2>1 DEF assign_role, Reachable
  <2> QED
    BY <2>5, <2>6, <2>7, <2>4
<1> QED
  BY <1>1, <1>2

LEMMA NoMoreAdds ==
  ASSUME by_id \subseteq Player, NEW g, NEW h, NEW i, NoMore(g, h), NoMore(h, i)
  PROVE  NoMore(g, i)
<1>1. ASSUME NEW f, NEW r PROVE Cardinality(Holders(f, r)) \in Nat
  BY HoldersAreFinite DEF Holders
<1>2. ASSUME NEW r \in Role \ {"MIR"} PROVE Cardinality(Holders(i, r)) <= Cardinality(Holders(g, r))
  <2>1. Cardinality(Holders(i, r)) <= Cardinality(Holders(h, r)) /\ Cardinality(Holders(h, r)) <= Cardinality(Holders(g, r))
    BY DEF NoMore
  <2> QED
    BY <1>1, <2>1
<1> QED
  BY <1>2 DEF NoMore

\* Dealing a g that has no more holders doubles nothing.
LEMMA RecastIsNotDoubled ==
  ASSUME by_id \subseteq Player, Gamers(gamer), NEW g, NoMore(gamer, g), gamer' = Recast(g), by_id' = by_id
  PROVE  NoneDoubled
<1>1. ASSUME NEW p \in Player PROVE gamer'[p].role = g[p].role
  <2>1. gamer'[p] = [gamer[p] EXCEPT !.role = g[p].role, !.score = g[p].score] /\ User(gamer[p])
    BY DEF Recast, Gamers
  <2> QED
    BY <2>1 DEF User, NewUser
<1>2. ASSUME NEW r \in Role \ {"MIR"} PROVE HoldersIn(r)' <= HoldersIn(r)
  <2>1. HoldersIn(r)' = Cardinality(Holders(g, r))
    <3>1. {p \in by_id' : gamer'[p].role = r} = Holders(g, r)
      BY <1>1 DEF Holders
    <3> QED
      BY <3>1 DEF HoldersIn
  <2>2. HoldersIn(r) = Cardinality(Holders(gamer, r))
    BY DEF HoldersIn, Holders
  <2> QED
    BY <2>1, <2>2 DEF NoMore
<1> QED
  BY <1>2 DEF NoneDoubled

\* The games that declining the roles of v, in the order of the ids, leads to.
IsDealing(f, v, k) ==
  f = [n \in 0..k |->
         IF n = 0 THEN {gamer}
         ELSE UNION {IF n \in v THEN Declined(g, n) ELSE {g} : g \in f[n - 1]}]

LEMMA DealingsExist == ASSUME NEW v PROVE \E f : IsDealing(f, v, MaxId)
<1> DEFINE Bad == {k \in 0..MaxId : ~ \E f : IsDealing(f, v, k)}
<1>1. MaxId \in Nat
  BY MafiaAssumption
<1>2. SUFFICES ASSUME Bad # {} PROVE FALSE
  BY <1>1
<1>3. PICK k \in Bad : \A y \in Bad : k <= y
  <2>1. Bad \subseteq Nat
    BY <1>1
  <2> HIDE DEF Bad
  <2> QED
    BY <1>2, <2>1, HasLeast
<1>4. k # 0
  <2> DEFINE f == [n \in 0..0 |-> {gamer}]
  <2>1. IsDealing(f, v, 0)
    BY DEF IsDealing
  <2> HIDE DEF f
  <2> QED
    BY <1>3, <2>1
<1>5. k \in 1..MaxId /\ k - 1 \in 0..MaxId /\ k - 1 \notin Bad
  <2>1. k \in 0..MaxId
    OBVIOUS
  <2> HIDE DEF Bad
  <2> QED
    BY <1>1, <1>3, <1>4, <2>1
<1>6. PICK f : IsDealing(f, v, k - 1)
  BY <1>5
<1> DEFINE last == UNION {IF k \in v THEN Declined(g, k) ELSE {g} : g \in f[k - 1]}
           h == [n \in 0..k |-> IF n = k THEN last ELSE f[n]]
<1>7. ASSUME NEW n \in 0..k
      PROVE  h[n] = IF n = 0 THEN {gamer}
                    ELSE UNION {IF n \in v THEN Declined(g, n) ELSE {g} : g \in h[n - 1]}
  <2>1. CASE n = k
    <3>1. h[k] = last /\ h[k - 1] = f[k - 1] /\ k # 0
      BY <1>5
    <3> HIDE DEF h
    <3> QED
      BY <2>1, <3>1
  <2>2. CASE n # k
    <3>1. n \in 0..(k - 1) /\ h[n] = f[n]
      BY <1>5, <2>2
    <3>2. f[n] = IF n = 0 THEN {gamer} ELSE UNION {IF n \in v THEN Declined(g, n) ELSE {g} : g \in f[n - 1]}
      BY <1>6, <3>1 DEF IsDealing
    <3>3. n # 0 => n - 1 \in 0..k /\ n - 1 # k /\ h[n - 1] = f[n - 1]
      BY <1>5, <3>1
    <3> HIDE DEF h
    <3> QED
      BY <3>1, <3>2, <3>3
  <2> QED
    BY <2>1, <2>2
<1>8. h = [n \in 0..k |-> h[n]]
  OBVIOUS
<1> HIDE DEF h
<1>9. IsDealing(h, v, k)
  BY <1>7, <1>8 DEF IsDealing
<1> QED
  BY <1>3, <1>9

LEMMA DeclinedDoubleNothing ==
  ASSUME by_id \subseteq Player, by_nick \subseteq by_id, Gamers(gamer), NEW g \in decline_roles
  PROVE  NoMore(gamer, g)
<1> DEFINE v == {p \in by_id : gamer[p].role # "MIR" /\ ~ gamer[p].accepted}
           f == CHOOSE f : IsDealing(f, v, MaxId)
<1>1. IsDealing(f, v, MaxId) /\ decline_roles = f[MaxId]
  <2>1. decline_roles = f[MaxId]
    BY DEF decline_roles, IsDealing
  <2> QED
    BY <2>1, DealingsExist
<1> HIDE DEF v, f
<1> DEFINE Good(k) == \A h \in f[k] : Gamers(h) /\ NoMore(gamer, h)
           Bad == {k \in 0..MaxId : ~ Good(k)}
<1>2. MaxId \in Nat
  BY MafiaAssumption
<1>3. SUFFICES ASSUME Bad # {} PROVE FALSE
  BY <1>1, <1>2
<1>4. PICK k \in Bad : \A y \in Bad : k <= y
  <2>1. Bad \subseteq Nat
    BY <1>2
  <2> HIDE DEF Bad
  <2> QED
    BY <1>3, <2>1, HasLeast
<1>5. k # 0
  <2>1. f[0] = {gamer}
    BY <1>1, <1>2 DEF IsDealing
  <2>2. NoMore(gamer, gamer)
    BY HoldersAreFinite DEF NoMore, Holders
  <2>3. Good(0)
    BY <2>1, <2>2
  <2> HIDE DEF Good
  <2> QED
    BY <1>4, <2>3
<1>6. k \in 1..MaxId /\ k - 1 \in 0..MaxId /\ k - 1 \notin Bad
  <2>1. k \in 0..MaxId
    OBVIOUS
  <2> HIDE DEF Bad
  <2> QED
    BY <1>2, <1>4, <1>5, <2>1
<1>7. Good(k - 1) /\ ~ Good(k)
  <2> HIDE DEF Good
  <2> QED
    BY <1>6
<1>8. f[k] = UNION {IF k \in v THEN Declined(h, k) ELSE {h} : h \in f[k - 1]}
  BY <1>1, <1>6 DEF IsDealing
<1>9. ASSUME NEW i \in f[k] PROVE Gamers(i) /\ NoMore(gamer, i)
  <2>1. PICK h \in f[k - 1] : i \in IF k \in v THEN Declined(h, k) ELSE {h}
    BY <1>8
  <2>2. Gamers(h) /\ NoMore(gamer, h)
    BY <1>7
  <2>3. CASE k \in v
    <3>1. Gamers(i) /\ NoMore(h, i)
      BY <2>1, <2>2, <2>3, RoleMoves
    <3> QED
      BY <2>2, <3>1, NoMoreAdds
  <2>4. CASE k \notin v
    BY <2>1, <2>2, <2>4
  <2> QED
    BY <2>3, <2>4
<1> QED
  BY <1>7, <1>9

LEMMA DealDoublesNothing ==
  ASSUME MafiaInv,
         \/ registration_end \/ roles_half
         \/ \E p \in Player : accept_role(p) \/ decline_role(p)
  PROVE  "registration" \in on \/ NoneDoubled
<1>1. by_id \subseteq Player /\ by_nick \subseteq by_id /\ Gamers(gamer)
  BY DEF MafiaInv, MafiaTypeOK, PlayersAreFound
<1>2. CASE registration_end
  BY <1>2 DEF registration_end
<1>3. CASE roles_half
  <2>1. PICK g \in decline_roles : gamer' = Recast(g)
    BY <1>3 DEF roles_half
  <2> QED
    BY <1>1, <1>3, <2>1, DeclinedDoubleNothing, RecastIsNotDoubled DEF roles_half
<1>4. ASSUME NEW p \in Player, accept_role(p) PROVE NoneDoubled
  <2>1. gamer' = [gamer EXCEPT ![p].accepted = TRUE] /\ by_id' = by_id
    BY <1>4 DEF accept_role
  <2>2. ASSUME NEW q \in Player PROVE gamer'[q].role = gamer[q].role
    <3>1. gamer'[q] = IF q = p THEN [gamer[q] EXCEPT !.accepted = TRUE] ELSE gamer[q]
      BY <1>1, <2>1 DEF Gamers
    <3>2. User(gamer[q])
      BY <1>1 DEF Gamers
    <3> QED
      BY <3>1, <3>2 DEF User, NewUser
  <2> QED
    BY <1>1, <2>1, <2>2, KeptIsNotDoubled DEF Kept
<1>5. ASSUME NEW p \in Player, decline_role(p) PROVE NoneDoubled
  <2>1. PICK g \in Declined(gamer, p) : gamer' = Recast(g)
    BY <1>5 DEF decline_role
  <2>2. NoMore(gamer, g)
    BY <1>1, RoleMoves
  <2> QED
    BY <1>1, <1>5, <2>1, <2>2, RecastIsNotDoubled DEF decline_role
<1> QED
  BY <1>2, <1>3, <1>4, <1>5

LEMMA RolesEndDoublesNothing == ASSUME MafiaInv, roles_end PROVE NoneDoubled
<1> DEFINE role(p) == IF p \in by_nick /\ ~ gamer[p].accepted THEN "MIR" ELSE gamer[p].role
           checked == [p \in Player |-> [gamer[p] EXCEPT !.accepted = FALSE, !.role = role(p)]]
<1>1. PICK g \in make_main_maf(checked) : gamer' = remove_left_users(g)
  BY DEF roles_end, NightOf
<1>2. \A p \in Player : role(p) \in {gamer[p].role, "MIR"}
  OBVIOUS
<1> HIDE DEF role
<1>3. ASSUME NEW p \in Player PROVE User(checked[p]) /\ checked[p].role = role(p)
  <2>1. User(gamer[p])
    BY DEF MafiaInv, MafiaTypeOK, Gamers
  <2> QED
    BY <2>1 DEF User, NewUser
<1>4. Gamers(checked)
  <2>1. DOMAIN checked = Player
    OBVIOUS
  <2> HIDE DEF checked
  <2> QED
    BY <1>3, <2>1 DEF Gamers
<1> HIDE DEF checked
<1>5. Gamers(g) /\ \A p \in Player : g[p].role = checked[p].role
  BY <1>1, <1>4, MainIsMade
<1>6. \A p \in Player : gamer'[p].role = g[p].role
  BY <1>1, <1>5, LeftAreBuried DEF Buries
<1>7. by_id \subseteq Player /\ by_id' = by_id
  BY DEF roles_end, MafiaInv, MafiaTypeOK
<1> QED
  BY <1>2, <1>3, <1>5, <1>6, <1>7, KeptIsNotDoubled DEF Kept

LEMMA RolesStay ==
  ASSUME MafiaInv, NEW g, SameRoles(gamer, g), gamer' = g, by_id' = by_id
  PROVE  NoneDoubled
BY KeptIsNotDoubled DEF Kept, SameRoles, MafiaInv, MafiaTypeOK

LEMMA ClearedDoublesNothing ==
  ASSUME MafiaInv, NEW v, clear_users(v)
  PROVE  NoneDoubled
BY KeptIsNotDoubled DEF Kept, clear_users, MafiaInv, MafiaTypeOK

\* Nights bury and make main mafiosi.
LEMMA NightKeepsRoles ==
  ASSUME NEW g, Gamers(g), SameRoles(gamer, g)
  PROVE  Gamers(NightOf(g)) /\ SameRoles(gamer, NightOf(g))
<1>1. Buries(g, NightOf(g), {})
  BY LeftAreBuried DEF NightOf
<1> QED
  BY <1>1 DEF Buries, SameRoles

LEMMA MainKeepsRoles ==
  ASSUME MafiaTypeOK, NEW g, Gamers(g), SameRoles(gamer, g), NEW h \in check_for_main_maf(g)
  PROVE  Gamers(h) /\ SameRoles(gamer, h)
<1>1. CASE h = g
  BY <1>1
<1>2. CASE h \in make_main_maf(g)
  <2>1. Gamers(h) /\ \A p \in Player : h[p].role = g[p].role
    BY <1>2, MainIsMade
  <2> QED
    BY <2>1 DEF SameRoles
<1> QED
  BY <1>1, <1>2 DEF check_for_main_maf

LEMMA DayDoublesNothing == ASSUME MafiaInv, do_day PROVE NoneDoubled
<1>1. PICK dead, v, g :
        /\ g = DayOf(dead)
        /\ IF Outcome(g) # "none" THEN clear_users(v)
           ELSE gamer' \in check_for_main_maf(g) /\ by_id' = by_id
  BY DEF do_day, EndGame
<1>2. Buries(gamer, g, dead) /\ MafiaTypeOK
  BY <1>1, DayBuries DEF MafiaInv, MafiaTypeOK
<1>3. Gamers(g) /\ SameRoles(gamer, g)
  BY <1>2 DEF Buries, SameRoles
<1>4. CASE Outcome(g) # "none"
  BY <1>1, <1>4, ClearedDoublesNothing
<1>5. CASE Outcome(g) = "none"
  <2>1. PICK h \in check_for_main_maf(g) : gamer' = h
    BY <1>1, <1>5
  <2>2. SameRoles(gamer, h)
    BY <1>2, <1>3, MainKeepsRoles
  <2> QED
    BY <1>1, <1>5, <2>1, <2>2, RolesStay
<1> QED
  BY <1>4, <1>5

LEMMA ToNightDoublesNothing == ASSUME MafiaInv, NEW f, ToNight(f) PROVE NoneDoubled
<1>1. Gamers(gamer) /\ SameRoles(gamer, gamer)
  BY NobodyIsBuried DEF MafiaInv, MafiaTypeOK
<1>2. SameRoles(gamer, NightOf(gamer))
  BY <1>1, NightKeepsRoles
<1> QED
  BY <1>2, RolesStay DEF ToNight

LEMMA OrdersDoubleNothing ==
  ASSUME MafiaInv, NEW g, Gamers(g), SameRoles(gamer, g), by_id' = by_id,
         NEW f, NEW u, NEW z, NEW dbl, process_night(g, f, u, z, dbl)
  PROVE  NoneDoubled
<1>1. PICK h : gamer' = h /\ (h = g \/ h = Ordered(g, u, z, dbl))
  BY DEF process_night
<1>2. SameRoles(g, h)
  BY <1>1, NobodyIsBuried, OrderedKeeps
<1>3. SameRoles(gamer, h)
  BY <1>2 DEF SameRoles
<1> QED
  BY <1>1, <1>3, RolesStay

LEMMA VotesDoubleNothing ==
  ASSUME MafiaInv,
         \/ vote1_timeout \/ vote2_timeout \/ do_vote2
         \/ \E u, z \in Player, dbl \in BOOLEAN : order(u, z, dbl) \/ vote(u, z, dbl)
         \/ \E u \in Player, a \in {"yes", "no"} : vote_yes_no(u, a)
  PROVE  NoneDoubled
<1>1. Gamers(gamer) /\ SameRoles(gamer, gamer) /\ MafiaTypeOK
  BY NobodyIsBuried DEF MafiaInv, MafiaTypeOK
<1>2. ASSUME UNCHANGED <<gamer, by_id>> PROVE NoneDoubled
  BY <1>1, <1>2, RolesStay
<1>3. CASE vote1_timeout
  <2>1. ToNight(on \ {"vote1"}) \/ UNCHANGED <<gamer, by_id>>
    BY <1>3 DEF vote1_timeout, Accuse
  <2> QED
    BY <1>2, <2>1, ToNightDoublesNothing
<1>4. CASE do_vote2
  BY <1>2, <1>4 DEF do_vote2
<1>5. ASSUME NEW u, NEW z, NEW dbl, order(u, z, dbl) PROVE NoneDoubled
  <2>1. process_night(gamer, on, u, z, dbl) /\ by_id' = by_id
    BY <1>5 DEF order
  <2> QED
    BY <1>1, <2>1, OrdersDoubleNothing
<1>6. ASSUME NEW u, NEW z, NEW dbl, vote(u, z, dbl) PROVE NoneDoubled
  <2>1. /\ by_id' = by_id
        /\ \/ UNCHANGED gamer
           \/ process_night(NightOf(gamer), NightFlags(on \ {"vote1"}), u, z, dbl)
    BY <1>6 DEF vote, Accuse
  <2>2. Gamers(NightOf(gamer)) /\ SameRoles(gamer, NightOf(gamer))
    BY <1>1, NightKeepsRoles
  <2> QED
    BY <1>2, <2>1, <2>2, OrdersDoubleNothing
<1>7. ASSUME NEW v2, NEW byTimer, end_vote2(v2, byTimer) PROVE NoneDoubled
  <2>1. \/ UNCHANGED <<gamer, by_id>>
        \/ \E v : clear_users(v)
        \/ by_id' = by_id /\ \E g \in check_for_main_maf(Executed) : gamer' = NightOf(g)
        \/ \E f : ToNight(f)
    BY <1>7 DEF end_vote2, EndGame
  <2>2. ASSUME by_id' = by_id, NEW g \in check_for_main_maf(Executed), gamer' = NightOf(g)
        PROVE  NoneDoubled
    <3>1. Gamers(Executed) /\ SameRoles(gamer, Executed)
      BY <1>1, ExecutionBuries DEF Buries, SameRoles
    <3>2. Gamers(g) /\ SameRoles(gamer, g)
      BY <1>1, <2>2, <3>1, MainKeepsRoles
    <3>3. SameRoles(gamer, NightOf(g))
      BY <3>2, NightKeepsRoles
    <3> QED
      BY <2>2, <3>3, RolesStay
  <2> QED
    BY <1>2, <2>1, <2>2, ClearedDoublesNothing, ToNightDoublesNothing
<1>8. CASE vote2_timeout
  BY <1>7, <1>8 DEF vote2_timeout
<1>9. ASSUME NEW u, NEW a, vote_yes_no(u, a) PROVE NoneDoubled
  BY <1>2, <1>7, <1>9 DEF vote_yes_no
<1> QED
  BY <1>3, <1>4, <1>5, <1>6, <1>8, <1>9

LEMMA MovesDoubleNothing ==
  ASSUME MafiaInv, NEW u \in Player, quit(u) \/ join(u) \/ change_nick(u)
  PROVE  NoneDoubled
<1>1. Gamers(gamer) /\ \A p \in Player : User(gamer[p])
  BY DEF MafiaInv, MafiaTypeOK, Gamers
<1>2. by_id' = by_id
  BY DEF quit, join, change_nick, Moved
<1>3. ASSUME NEW b, gamer' = [gamer EXCEPT ![u].left = b] PROVE \A p \in Player : gamer'[p].role = gamer[p].role
  <2> SUFFICES ASSUME NEW p \in Player PROVE gamer'[p].role = gamer[p].role
    OBVIOUS
  <2>1. gamer'[p] = IF p = u THEN [gamer[p] EXCEPT !.left = b] ELSE gamer[p]
    BY <1>1, <1>3 DEF Gamers
  <2> QED
    BY <1>1, <2>1 DEF User, NewUser
<1>4. ASSUME gamer' = [gamer EXCEPT ![u].left = TRUE, ![u].chnick = TRUE]
      PROVE  \A p \in Player : gamer'[p].role = gamer[p].role
  <2> SUFFICES ASSUME NEW p \in Player PROVE gamer'[p].role = gamer[p].role
    OBVIOUS
  <2>1. gamer'[p] = IF p = u THEN [gamer[p] EXCEPT !.left = TRUE, !.chnick = TRUE] ELSE gamer[p]
    BY <1>1, <1>4 DEF Gamers
  <2> QED
    BY <1>1, <2>1 DEF User, NewUser
<1>5. \A p \in Player : gamer'[p].role = gamer[p].role
  <2>1. CASE quit(u)
    BY <1>3, <2>1 DEF quit
  <2>2. CASE join(u)
    BY <1>3, <2>2 DEF join
  <2>3. CASE change_nick(u)
    BY <1>4, <2>3 DEF change_nick
  <2> QED
    BY <2>1, <2>2, <2>3
<1> QED
  BY <1>2, <1>5, KeptIsNotDoubled DEF Kept, MafiaInv, MafiaTypeOK

LEMMA RegistrationDoublesNothing ==
  ASSUME MafiaInv,
         \/ start_game \/ ask_user \/ register_user \/ registration_timeout \/ halt \/ day_time_passes
         \/ \E p \in Player : unregister_user(p)
  PROVE  "registration" \in on \/ NoneDoubled
<1>1. \/ "registration" \in on
      \/ UNCHANGED <<gamer, by_id>>
      \/ clear_users(voice)
  BY DEF start_game, ask_user, register_user, registration_timeout, halt, day_time_passes, unregister_user
<1>2. SameRoles(gamer, gamer)
  BY DEF SameRoles
<1> QED
  BY <1>1, <1>2, RolesStay, ClearedDoublesNothing

\* A role is dealt once: for any number of players, whoever declines, does not
\* accept, dies, leaves or is executed, no role but MIR gets more holders once
\* the registration is over.
THEOREM RolesAreDealtOnce == MafiaSpec => RolesNeverDouble
<1> DEFINE Once == \A r \in Role \ {"MIR"} : HoldersIn(r)' <= HoldersIn(r) \/ "registration" \in on
<1>1. ASSUME MafiaInv, [MafiaNext]_mafiaVars PROVE [Once]_mafiaVars
  <2>1. ASSUME "registration" \in on \/ NoneDoubled PROVE Once
    BY <2>1 DEF NoneDoubled
  <2> HIDE DEF Once
  <2>2. CASE Timers
    BY <2>1, <2>2, RegistrationDoublesNothing, DealDoublesNothing, RolesEndDoublesNothing,
       DayDoublesNothing, VotesDoubleNothing, <1>1 DEF Timers
  <2>3. CASE day_time_passes
    BY <2>1, <2>3, RegistrationDoublesNothing, <1>1
  <2>4. CASE Commands
    BY <2>1, <2>4, RegistrationDoublesNothing, DealDoublesNothing, VotesDoubleNothing,
       MovesDoubleNothing, <1>1 DEF Commands
  <2> QED
    BY <1>1, <2>2, <2>3, <2>4 DEF MafiaNext
<1> QED
  BY <1>1, MafiaInvariant, PTL DEF MafiaSpec, RolesNeverDouble
-----------------------------------------------------------------------------
(* The quiz.                                                               *)

QuizTypeOK ==
  /\ q_started \in BOOLEAN /\ q_asked \in BOOLEAN /\ q_tried \in BOOLEAN
  /\ q_answers \in Nat /\ q_number \in Nat /\ q_errors \in Nat
  /\ q_score \in [QNick -> Nat]
  /\ IsFiniteSet(q_paid) /\ q_paid \subseteq [question : Nat, nick : QNick]
  /\ IsFiniteSet(q_unpaid) /\ q_unpaid \subseteq [question : Nat, nick : QNick]

\* The question that is asked was not won yet.
NotYetWon ==
  \A x \in q_paid \cup q_unpaid :
    x.question <= q_number /\ (q_asked = TRUE => x.question # q_number)

\* The answers to the question that is asked are counted.
Counted == q_asked = TRUE => q_started = TRUE /\ (q_answers # 0 <=> q_tried = TRUE)

QuizInv == QuizTypeOK /\ NotYetWon /\ Counted /\ WonOnce

LEMMA QuizInitKeeps == QuizInit => QuizInv
<1> SUFFICES ASSUME QuizInit PROVE QuizInv
  OBVIOUS
<1>1. IsFiniteSet({}) /\ Cardinality({}) = 0
  BY FS_EmptySet
<1>2. q_paid = {} /\ q_unpaid = {} /\ q_errors = 0 /\ q_score = [n \in QNick |-> 0]
  BY DEF QuizInit
<1>3. ASSUME NEW n \in QNick PROVE q_score[n] = Wins(q_paid, n) + Wins(q_unpaid, n)
  <2>1. {x \in q_paid : x.nick = n} = {} /\ {x \in q_unpaid : x.nick = n} = {}
    BY <1>2
  <2> QED
    BY <1>1, <1>2, <2>1 DEF Wins
<1>4. WonOnce
  BY <1>1, <1>2, <1>3 DEF WonOnce
<1>5. QuizTypeOK
  <2>1. q_score \in [QNick -> Nat]
    BY <1>2
  <2>2. IsFiniteSet(q_paid) /\ IsFiniteSet(q_unpaid)
    BY <1>1, <1>2
  <2>3. /\ q_started \in BOOLEAN /\ q_asked \in BOOLEAN /\ q_tried \in BOOLEAN
        /\ q_answers \in Nat /\ q_number \in Nat /\ q_errors \in Nat
    BY DEF QuizInit
  <2>4. q_paid \subseteq [question : Nat, nick : QNick] /\ q_unpaid \subseteq [question : Nat, nick : QNick]
    BY <1>2
  <2> QED
    BY <2>1, <2>2, <2>3, <2>4 DEF QuizTypeOK
<1> QED
  BY <1>2, <1>4, <1>5 DEF QuizInit, QuizInv, NotYetWon, Counted

\* A win more counts for its player alone.
LEMMA OneMoreWin ==
  ASSUME NEW won, IsFiniteSet(won), NEW p, p \notin won, NEW n
  PROVE  /\ Wins(won, n) \in Nat
         /\ Wins(won \cup {p}, n) = Wins(won, n) + (IF p.nick = n THEN 1 ELSE 0)
<1> DEFINE Of == {x \in won : x.nick = n}
           Now == {x \in won \cup {p} : x.nick = n}
<1>1. IsFiniteSet(Of) /\ Cardinality(Of) \in Nat
  BY FS_Subset, FS_CardinalityType
<1>2. CASE p.nick = n
  <2>1. Now = Of \cup {p} /\ p \notin Of
    BY <1>2
  <2>2. Cardinality(Of \cup {p}) = Cardinality(Of) + 1
    BY <1>1, <2>1, FS_AddElement
  <2> QED
    BY <1>1, <1>2, <2>1, <2>2 DEF Wins
<1>3. CASE p.nick # n
  <2>1. Now = Of
    BY <1>3
  <2>2. Cardinality(Now) = Cardinality(Of)
    BY <2>1
  <2> HIDE DEF Now, Of
  <2>3. Cardinality(Now) = Cardinality(Of) + (IF p.nick = n THEN 1 ELSE 0)
    BY <1>1, <1>3, <2>2
  <2> QED
    BY <1>1, <2>3 DEF Wins, Now, Of
<1> QED
  BY <1>2, <1>3

\* The prize is sent, or lost.
Won(p) ==
  \/ q_paid' = q_paid \cup {p} /\ q_unpaid' = q_unpaid /\ q_errors' = q_errors
  \/ q_paid' = q_paid /\ q_unpaid' = q_unpaid \cup {p} /\ q_errors' = q_errors + 1

\* A question is won by the answer that closes it, paid or not.
LEMMA PointKeeps ==
  ASSUME QuizInv, NEW n \in QNick, Answer(n), Point(n),
         q_started' = q_started, q_number' = q_number,
         NEW p, p = [question |-> q_number, nick |-> n], Won(p)
  PROVE  QuizInv'
<1>1. /\ q_asked = TRUE /\ q_asked' = FALSE /\ q_tried' = TRUE
      /\ q_answers' = q_answers + 1
      /\ q_score' = [q_score EXCEPT ![n] = @ + 1]
  BY DEF Answer, Point, answered, QuizInv, QuizTypeOK
<1>2. p \notin q_paid /\ p \notin q_unpaid /\ \A x \in q_paid \cup q_unpaid : x.question # p.question
  BY <1>1 DEF QuizInv, NotYetWon
<1>3. /\ IsFiniteSet(q_paid) /\ IsFiniteSet(q_unpaid) /\ q_errors \in Nat
      /\ q_paid \subseteq [question : Nat, nick : QNick]
      /\ q_unpaid \subseteq [question : Nat, nick : QNick]
      /\ p \in [question : Nat, nick : QNick] /\ p.nick = n
  BY DEF QuizInv, QuizTypeOK
<1>4. QuizTypeOK'
  <2>1. IsFiniteSet(q_paid') /\ IsFiniteSet(q_unpaid')
    <3>1. IsFiniteSet(q_paid \cup {p}) /\ IsFiniteSet(q_unpaid \cup {p})
      BY <1>3, FS_AddElement
    <3> QED
      BY <1>3, <3>1 DEF Won
  <2>2. q_paid' \subseteq [question : Nat, nick : QNick] /\ q_unpaid' \subseteq [question : Nat, nick : QNick]
    BY <1>3 DEF Won
  <2>3. q_score' \in [QNick -> Nat] /\ q_answers' \in Nat /\ q_number' \in Nat /\ q_started' \in BOOLEAN
    BY <1>1 DEF QuizInv, QuizTypeOK
  <2>4. q_errors' \in Nat
    BY <1>3 DEF Won
  <2> QED
    BY <1>1, <2>1, <2>2, <2>3, <2>4 DEF QuizTypeOK
<1>5. NotYetWon' /\ Counted'
  BY <1>1 DEF QuizInv, QuizTypeOK, NotYetWon, Counted, Won
<1>6. (\A x, y \in q_paid \cup q_unpaid : x.question = y.question => x = y)' /\ (q_paid \cap q_unpaid = {})'
  BY <1>1, <1>2 DEF QuizInv, WonOnce, Won
<1>7. ASSUME NEW m \in QNick PROVE q_score'[m] = Wins(q_paid', m) + Wins(q_unpaid', m)
  <2>1. /\ q_score[m] = Wins(q_paid, m) + Wins(q_unpaid, m)
        /\ Wins(q_paid, m) \in Nat /\ Wins(q_unpaid, m) \in Nat
    BY <1>2, <1>3, OneMoreWin DEF QuizInv, WonOnce
  <2>2. q_score'[m] = q_score[m] + (IF n = m THEN 1 ELSE 0)
    BY <1>1, <2>1 DEF QuizInv, QuizTypeOK
  <2>3. /\ Wins(q_paid \cup {p}, m) = Wins(q_paid, m) + (IF n = m THEN 1 ELSE 0)
        /\ Wins(q_unpaid \cup {p}, m) = Wins(q_unpaid, m) + (IF n = m THEN 1 ELSE 0)
    BY <1>2, <1>3, OneMoreWin
  <2>4. CASE q_paid' = q_paid \cup {p} /\ q_unpaid' = q_unpaid
    BY <2>1, <2>2, <2>3, <2>4
  <2>5. CASE q_paid' = q_paid /\ q_unpaid' = q_unpaid \cup {p}
    BY <2>1, <2>2, <2>3, <2>5
  <2> QED
    BY <2>4, <2>5 DEF Won
<1>8. Cardinality(q_unpaid') <= q_errors'
  <2>1. Cardinality(q_unpaid) <= q_errors /\ Cardinality(q_unpaid) \in Nat
    BY <1>3, FS_CardinalityType DEF QuizInv, WonOnce
  <2>2. Cardinality(q_unpaid \cup {p}) = Cardinality(q_unpaid) + 1
    BY <1>2, <1>3, FS_AddElement
  <2>3. CASE q_unpaid' = q_unpaid /\ q_errors' = q_errors
    BY <2>1, <2>3
  <2>4. CASE q_unpaid' = q_unpaid \cup {p} /\ q_errors' = q_errors + 1
    BY <1>3, <2>1, <2>2, <2>4
  <2> QED
    BY <2>3, <2>4 DEF Won
<1> QED
  BY <1>4, <1>5, <1>6, <1>7, <1>8 DEF QuizInv, WonOnce

\* A step that pays nothing.
LEMMA NothingWon ==
  ASSUME QuizInv, q_score' = q_score, q_paid' = q_paid, q_unpaid' = q_unpaid,
         q_errors' = q_errors \/ q_errors' = q_errors + 1,
         q_started' \in BOOLEAN, q_asked' \in BOOLEAN, q_tried' \in BOOLEAN, q_answers' \in Nat,
         q_number' = q_number \/ q_number' = q_number + 1,
         q_asked' = TRUE => q_asked = TRUE \/ q_number' = q_number + 1,
         Counted'
  PROVE  QuizInv'
<1>1. QuizTypeOK'
  BY DEF QuizInv, QuizTypeOK
<1>2. NotYetWon'
  BY DEF QuizInv, QuizTypeOK, NotYetWon
<1>3. WonOnce'
  <2>1. Cardinality(q_unpaid) \in Nat
    BY FS_CardinalityType DEF QuizInv, QuizTypeOK
  <2> QED
    BY <2>1 DEF QuizInv, QuizTypeOK, WonOnce
<1> QED
  BY <1>1, <1>2, <1>3 DEF QuizInv

LEMMA QuizNextKeeps == QuizInv /\ [QuizNext]_quizVars => QuizInv'
<1> SUFFICES ASSUME QuizInv, [QuizNext]_quizVars PROVE QuizInv'
  OBVIOUS
<1>1. /\ q_started \in BOOLEAN /\ q_asked \in BOOLEAN /\ q_tried \in BOOLEAN
      /\ q_answers \in Nat /\ q_number \in Nat /\ Counted
  BY DEF QuizInv, QuizTypeOK
<1>2. CASE \/ UNCHANGED quizVars
           \/ next_question_time \/ give_hint \/ ask_question_fails \/ connection_fails
           \/ \E n \in QNick : greet(n) \/ EUI_REPLY_quiz(n)
  <2>1. /\ UNCHANGED <<q_started, q_asked, q_answers, q_tried, q_number, q_score, q_paid, q_unpaid>>
        /\ q_errors' = q_errors \/ q_errors' = q_errors + 1
    BY <1>2 DEF quizVars, next_question_time, give_hint, ask_question_fails, connection_fails,
                Fails, greet, EUI_REPLY_quiz
  <2>2. Counted'
    BY <1>1, <2>1 DEF Counted
  <2> QED
    BY <1>1, <2>1, <2>2, NothingWon
<1>3. CASE ask_question
  <2>1. /\ q_started = TRUE /\ q_asked' = TRUE /\ q_answers' = 0 /\ q_tried' = FALSE /\ q_number' = q_number + 1
        /\ UNCHANGED <<q_started, q_score, q_paid, q_unpaid, q_errors>>
    BY <1>1, <1>3 DEF ask_question, forgotten_answers
  <2>2. Counted'
    BY <2>1 DEF Counted
  <2> QED
    BY <1>1, <2>1, <2>2, NothingWon
<1>4. CASE time_limit
  <2>1. /\ q_asked' = FALSE /\ q_started' = (q_answers # 0)
        /\ UNCHANGED <<q_answers, q_tried, q_number, q_score, q_paid, q_unpaid, q_errors>>
    BY <1>4 DEF time_limit, expired
  <2>2. Counted' /\ q_started' \in BOOLEAN
    BY <2>1 DEF Counted
  <2> QED
    BY <1>1, <2>1, <2>2, NothingWon
<1>5. CASE start_quiz \/ start_quiz_fails
  <2>1. /\ q_started' = TRUE /\ UNCHANGED <<q_asked, q_answers, q_tried, q_number, q_score, q_paid, q_unpaid>>
        /\ q_errors' = q_errors \/ q_errors' = q_errors + 1
    BY <1>5 DEF start_quiz, start_quiz_fails, Fails
  <2>2. Counted'
    BY <1>1, <2>1 DEF Counted
  <2> QED
    BY <1>1, <2>1, <2>2, NothingWon
<1>6. ASSUME NEW n \in QNick, wrong_answer(n) \/ right_answer_fails(n) PROVE QuizInv'
  <2>1. /\ q_asked' = q_asked \/ q_asked' = FALSE
        /\ q_answers' = q_answers + 1 /\ q_tried' = TRUE
        /\ UNCHANGED <<q_started, q_number, q_score, q_paid, q_unpaid>>
        /\ q_errors' = q_errors \/ q_errors' = q_errors + 1
    BY <1>6 DEF wrong_answer, right_answer_fails, Answer, answered, Fails
  <2>2. Counted' /\ q_answers' \in Nat
    BY <1>1, <2>1 DEF Counted
  <2> QED
    BY <1>1, <2>1, <2>2, NothingWon
<1>7. ASSUME NEW n \in QNick, right_answer(n) \/ prize_fails(n) PROVE QuizInv'
  BY <1>7, PointKeeps DEF right_answer, prize_fails, Fails, Won
<1> QED
  BY <1>2, <1>3, <1>4, <1>5, <1>6, <1>7 DEF QuizNext, QuizTimers

\* What every state of the quiz satisfies.
THEOREM QuizInvariant == QuizSpec => []QuizInv
BY QuizInitKeeps, QuizNextKeeps, PTL DEF QuizSpec

\* A question is won once, by one player, and every point of the rating has its
\* prize but for those lost with the connection, of which there are no more
\* than failures: for any players, answers and failures.
THEOREM QuestionsAreWonOnce == QuizSpec => []WonOnce
BY QuizInvariant, PTL DEF QuizInv

\* The quiz stops when, and only when, nobody has tried to answer its question.
THEOREM QuizStopsWhenIgnored == QuizSpec => StopsWhenIgnored
<1> DEFINE Stops == (q_started /\ ~ q_started') <=> (q_asked /\ ~ q_asked' /\ ~ q_tried')
<1>1. ASSUME QuizInv, [QuizNext]_quizVars PROVE [Stops]_quizVars
  <2>1. /\ q_started \in BOOLEAN /\ q_asked \in BOOLEAN /\ q_tried \in BOOLEAN
        /\ q_answers \in Nat /\ Counted
    BY <1>1 DEF QuizInv, QuizTypeOK
  <2>2. CASE UNCHANGED quizVars
    BY <2>2
  <2>3. CASE /\ UNCHANGED q_started
             /\ ~ q_asked \/ q_asked' \/ q_tried'
    BY <2>3
  <2>4. CASE time_limit
    BY <2>1, <2>4 DEF time_limit, expired, Counted
  <2>5. CASE start_quiz \/ start_quiz_fails
    BY <2>1, <2>5 DEF start_quiz, start_quiz_fails, Counted
  <2>6. CASE next_question_time \/ ask_question \/ give_hint \/ ask_question_fails \/ connection_fails
    BY <2>3, <2>6 DEF next_question_time, ask_question, give_hint, ask_question_fails, connection_fails
  <2>7. ASSUME NEW n \in QNick, greet(n) \/ EUI_REPLY_quiz(n)
        PROVE  UNCHANGED q_started /\ (~ q_asked \/ q_asked' \/ q_tried')
    BY <2>7 DEF greet, EUI_REPLY_quiz
  <2>8. ASSUME NEW n \in QNick,
               wrong_answer(n) \/ right_answer(n) \/ right_answer_fails(n) \/ prize_fails(n)
        PROVE  UNCHANGED q_started /\ (~ q_asked \/ q_asked' \/ q_tried')
    BY <2>8 DEF wrong_answer, right_answer, right_answer_fails, prize_fails, Answer
  <2> QED
    BY <1>1, <2>2, <2>3, <2>4, <2>5, <2>6, <2>7, <2>8 DEF QuizNext, QuizTimers
<1>2. [][Stops]_quizVars <=> StopsWhenIgnored
  BY PTL DEF StopsWhenIgnored
<1> HIDE DEF Stops
<1> QED
  BY <1>1, <1>2, QuizInvariant, PTL DEF QuizSpec
-----------------------------------------------------------------------------
(* The roulette.                                                           *)

\* What the bot sends, and what it is sent.
Prize ==
  {[cmd |-> "CTTU", nick |-> n, sum |-> Win(st, draw, l)] :
     n \in Nick, st \in SUBSET Stake, draw \in Draw, l \in Login}
Sent ==
  [cmd : {"EUI"}, nick : Nick] \cup [cmd : {"UTTC"}, nick : Nick, id : 1..MaxStakes] \cup Prize
Got ==
  [cmd : {"EUI_REPLY"}, nick : Nick]
    \cup [cmd : {"UTTC_REPLY"}, nick : Nick, id : 1..MaxStakes, ok : BOOLEAN]

Pay == [id : 1..MaxStakes, tip : Tip]
Ids(st) == {s.id : s \in st}

RouletteTypeOK ==
  /\ r_id \in 0..MaxStakes
  /\ r_users \in [Nick -> Login \cup {NoLogin}]
  /\ r_nick \in [Login -> Nick \cup {NoNick}]
  /\ r_pays \in [Login -> SUBSET Pay]
  /\ r_mem \subseteq Stake /\ r_file \subseteq Stake /\ r_decided \subseteq 1..MaxStakes
  /\ r_out \in Seq(Sent) /\ r_in \in Seq(Got)

\* A stake in any of its stages.
Pending == UNION {r_pays[l] : l \in Login}

\* Stakes are numbered one after another.
NumbersUsed ==
  /\ \A p \in Pending : p.id <= r_id
  /\ \A s \in r_mem \cup r_file : s.id <= r_id
  /\ \A i \in r_decided : i <= r_id

\* A stake waits for its money with one player, and is not on the table yet.
WaitsOnce ==
  /\ \A l1, l2 \in Login : \A p \in r_pays[l1], q \in r_pays[l2] : p.id = q.id => l1 = l2 /\ p = q
  /\ \A p \in Pending : p.id \notin Ids(r_mem) /\ p.id \notin Ids(r_file) /\ p.id \notin r_decided

\* The server says yes to what it has taken the money of.
YesIsTaken ==
  \A i \in DOMAIN r_in : r_in[i].cmd = "UTTC_REPLY" /\ r_in[i].ok => r_in[i].id \in r_taken

RouletteInv ==
  /\ RouletteTypeOK /\ NumbersUsed /\ WaitsOnce /\ YesIsTaken
  /\ StakesWerePaid /\ DecidedOnce /\ FileAgrees
-----------------------------------------------------------------------------
(* Lemmas about what is sent.                                              *)

USE RouletteAssumption

LEMMA FirstOfSeq ==
  ASSUME NEW S, NEW s \in Seq(S), s # <<>>
  PROVE  /\ Head(s) \in S /\ Head(s) = s[1] /\ 1 \in DOMAIN s
         /\ Tail(s) \in Seq(S)
         /\ \A i \in DOMAIN Tail(s) : i + 1 \in DOMAIN s /\ Tail(s)[i] = s[i + 1]
OBVIOUS

LEMMA LastOfSeq ==
  ASSUME NEW S, NEW s \in Seq(S), NEW x \in S
  PROVE  /\ Append(s, x) \in Seq(S)
         /\ \A i \in DOMAIN Append(s, x) : Append(s, x)[i] = x \/ (i \in DOMAIN s /\ Append(s, x)[i] = s[i])
OBVIOUS

\* A finite set as a sequence.
LEMMA SetAsSeq ==
  ASSUME NEW S, IsFiniteSet(S)
  PROVE  SetToSeq(S) \in Seq(S)
<1> DEFINE n == Cardinality(S)
<1>1. n \in Nat /\ ExistsBijection(1..n, S)
  BY FS_CardinalityType
<1>2. \E f \in [1..n -> S] : IsInjective(f)
  BY <1>1 DEF ExistsBijection, Bijection, Injection
<1>3. SetToSeq(S) \in [1..n -> S]
  BY <1>2 DEF SetToSeq
<1> HIDE DEF n
<1> QED
  BY <1>1, <1>3

\* The prizes of a round are sent to players the bot knows.
LEMMA PrizesAreSent ==
  ASSUME RouletteInv, NEW st \in SUBSET Stake, NEW draw \in Draw, NEW ls \in SUBSET Winners(st, draw)
  PROVE  Prizes(st, draw, ls) \in Seq(Sent)
<1> DEFINE prize(l) == [cmd |-> "CTTU", nick |-> r_nick[l], sum |-> Win(st, draw, l)]
           S == {prize(l) : l \in ls}
<1>1. \A l \in ls : l \in Login /\ r_nick[l] \in Nick
  BY DEF Winners, RouletteInv, RouletteTypeOK
<1>2. S \subseteq Prize
  BY <1>1 DEF Prize
<1>3. IsFiniteSet(S)
  <2> DEFINE f == [l \in ls |-> prize(l)]
  <2>1. IsFiniteSet(ls)
    <3>1. ls \in SUBSET Login
      BY <1>1
    <3> QED
      BY <3>1, FS_Subset
  <2>2. f \in Surjection(ls, S)
    BY DEF Surjection
  <2> QED
    BY <2>1, <2>2, FS_Surjection
<1>4. Prizes(st, draw, ls) = SetToSeq(S)
  BY DEF Prizes
<1> HIDE DEF S
<1>5. Prizes(st, draw, ls) \in Seq(Prize)
  <2>1. SetToSeq(S) \in Seq(S)
    BY <1>3, SetAsSeq
  <2> QED
    BY <1>2, <1>4, <2>1
<1> QED
  BY <1>5 DEF Sent

\* What load_stawki leaves in the memory is what the file holds.
LEMMA LoadedIsFile == RouletteInv => Loaded = r_file
BY DEF RouletteInv, FileAgrees, Loaded
-----------------------------------------------------------------------------
(* Steps that leave the stakes alone.                                      *)

\* Only the game, the bot's players or the connection change.
LEMMA StakesAlone ==
  ASSUME RouletteInv,
         UNCHANGED <<r_pays, r_id, r_mem, r_file, r_decided, r_torn>>,
         r_taken \subseteq r_taken',
         r_users' \in [Nick -> Login \cup {NoLogin}], r_nick' \in [Login -> Nick \cup {NoNick}],
         r_out' \in Seq(Sent), r_in' \in Seq(Got),
         \A i \in DOMAIN r_in' : r_in'[i].cmd = "UTTC_REPLY" /\ r_in'[i].ok => r_in'[i].id \in r_taken'
  PROVE  RouletteInv'
<1>1. RouletteTypeOK'
  BY DEF RouletteInv, RouletteTypeOK
<1>2. NumbersUsed' /\ WaitsOnce'
  BY DEF RouletteInv, NumbersUsed, WaitsOnce, Pending, Ids
<1>3. YesIsTaken'
  BY DEF YesIsTaken
<1>4. StakesWerePaid'
  BY DEF RouletteInv, StakesWerePaid
<1>5. DecidedOnce' /\ FileAgrees'
  BY DEF RouletteInv, DecidedOnce, FileAgrees
<1> QED
  BY <1>1, <1>2, <1>3, <1>4, <1>5 DEF RouletteInv

LEMMA GameKeeps ==
  ASSUME RouletteInv,
         \/ start_roulette \/ wait_next_game \/ settle \/ reconnect
         \/ \E from, to \in {"ACCEPTING_STAKES", "STAKES_STOPPED", "RUNNING_WHEEL", "THROW_BALL"} : Expire(from, to)
  PROVE  RouletteInv'
<1>1. /\ UNCHANGED <<r_people, r_table, r_money, r_torn>>
      /\ UNCHANGED <<r_out, r_in>> \/ (r_out' = <<>> /\ r_in' = <<>>)
  BY DEF start_roulette, wait_next_game, settle, reconnect, Expire
<1>2. r_users' \in [Nick -> Login \cup {NoLogin}] /\ r_nick' \in [Login -> Nick \cup {NoNick}]
  BY <1>1 DEF RouletteInv, RouletteTypeOK, r_people
<1>3. r_out' \in Seq(Sent) /\ r_in' \in Seq(Got)
  <2>1. r_out \in Seq(Sent) /\ r_in \in Seq(Got)
    BY DEF RouletteInv, RouletteTypeOK
  <2>2. <<>> \in Seq(Sent) /\ <<>> \in Seq(Got)
    OBVIOUS
  <2> QED
    BY <1>1, <2>1, <2>2
<1>4. \A i \in DOMAIN r_in' : r_in'[i].cmd = "UTTC_REPLY" /\ r_in'[i].ok => r_in'[i].id \in r_taken'
  BY <1>1 DEF RouletteInv, YesIsTaken, r_money
<1> QED
  BY <1>1, <1>2, <1>3, <1>4, StakesAlone DEF r_people, r_table, r_money

LEMMA AskWhoKeeps ==
  ASSUME RouletteInv, NEW n \in Nick, ask_who(n)
  PROVE  RouletteInv'
<1>1. /\ r_out' = Append(r_out, [cmd |-> "EUI", nick |-> n])
      /\ UNCHANGED <<r_people, r_table, r_in, r_money, r_torn>>
  BY DEF ask_who, Send
<1>2. r_out' \in Seq(Sent)
  <2>1. r_out \in Seq(Sent) /\ [cmd |-> "EUI", nick |-> n] \in Sent
    BY DEF RouletteInv, RouletteTypeOK, Sent
  <2> QED
    BY <1>1, <2>1, LastOfSeq
<1>3. /\ r_users' \in [Nick -> Login \cup {NoLogin}] /\ r_nick' \in [Login -> Nick \cup {NoNick}]
      /\ r_in' \in Seq(Got)
  BY <1>1 DEF RouletteInv, RouletteTypeOK, r_people
<1>4. \A i \in DOMAIN r_in' : r_in'[i].cmd = "UTTC_REPLY" /\ r_in'[i].ok => r_in'[i].id \in r_taken'
  BY <1>1 DEF RouletteInv, YesIsTaken, r_money
<1> QED
  BY <1>1, <1>2, <1>3, <1>4, StakesAlone DEF r_people, r_table, r_money

\* The server answers in order.
LEMMA ServerKeeps ==
  ASSUME RouletteInv, server_handles
  PROVE  RouletteInv'
<1> DEFINE m == Head(r_out)
           l == LoginOf[m.nick]
<1>1. r_out # <<>> /\ r_out' = Tail(r_out) /\ UNCHANGED <<r_game, r_people, r_table, r_torn, r_faults>>
  BY DEF server_handles
<1>2. r_out \in Seq(Sent) /\ m \in Sent /\ r_out' \in Seq(Sent) /\ r_in \in Seq(Got)
  <2>1. r_out \in Seq(Sent) /\ r_in \in Seq(Got)
    BY DEF RouletteInv, RouletteTypeOK
  <2> QED
    BY <1>1, <2>1, FirstOfSeq
<1>3. m.nick \in Nick /\ (m.cmd = "UTTC" => m.id \in 1..MaxStakes) /\ m.cmd \in {"EUI", "UTTC", "CTTU"}
  BY <1>2 DEF Sent, Prize
<1>4. \/ r_in' = r_in /\ r_taken' = r_taken
      \/ \E g \in Got : /\ r_in' = Append(r_in, g)
                        /\ r_taken \subseteq r_taken'
                        /\ g.cmd = "UTTC_REPLY" /\ g.ok => g.id \in r_taken'
  <2>1. CASE m.cmd = "EUI"
    <3> DEFINE g == [cmd |-> "EUI_REPLY", nick |-> m.nick]
    <3>1. r_in' = Append(r_in, g) /\ r_taken' = r_taken
      BY <2>1 DEF server_handles, Reply, r_money
    <3>2. g \in Got /\ g.cmd # "UTTC_REPLY"
      BY <1>3 DEF Got
    <3> HIDE DEF g
    <3> QED
      BY <3>1, <3>2
  <2>2. CASE m.cmd = "UTTC"
    <3> DEFINE g == [cmd |-> "UTTC_REPLY", nick |-> m.nick, id |-> m.id, ok |-> r_bal[l] >= 1]
    <3>1. server_UTTC(m, l)
      BY <2>2 DEF server_handles
    <3>2. (r_bal[l] >= 1) \in BOOLEAN
      OBVIOUS
    <3>3. g \in Got
      BY <1>3, <2>2, <3>2 DEF Got
    <3>4. r_in' = Append(r_in, g)
      BY <3>1 DEF server_UTTC, Reply
    <3>5. r_taken \subseteq r_taken' /\ (g.ok => g.id \in r_taken')
      BY <3>1 DEF server_UTTC, r_money
    <3> HIDE DEF g
    <3> QED
      BY <3>3, <3>4, <3>5
  <2>3. CASE m.cmd = "CTTU"
    BY <2>3 DEF server_handles, server_CTTU, r_money
  <2> QED
    BY <1>3, <2>1, <2>2, <2>3
<1>5. r_in' \in Seq(Got) /\ r_taken \subseteq r_taken'
  <2>1. r_taken \subseteq r_taken' /\ (r_in' = r_in \/ \E g \in Got : r_in' = Append(r_in, g))
    BY <1>4
  <2>2. r_in \in Seq(Got)
    BY <1>2
  <2> QED
    BY <2>1, <2>2, LastOfSeq
<1>6. \A i \in DOMAIN r_in' : r_in'[i].cmd = "UTTC_REPLY" /\ r_in'[i].ok => r_in'[i].id \in r_taken'
  <2>1. \A i \in DOMAIN r_in : r_in[i].cmd = "UTTC_REPLY" /\ r_in[i].ok => r_in[i].id \in r_taken
    BY DEF RouletteInv, YesIsTaken
  <2>2. CASE r_in' = r_in /\ r_taken' = r_taken
    BY <2>1, <2>2
  <2>3. ASSUME NEW g \in Got, r_in' = Append(r_in, g), r_taken \subseteq r_taken',
               g.cmd = "UTTC_REPLY" /\ g.ok => g.id \in r_taken', NEW i \in DOMAIN r_in',
               r_in'[i].cmd = "UTTC_REPLY", r_in'[i].ok
        PROVE  r_in'[i].id \in r_taken'
    <3>1. r_in'[i] = g \/ (i \in DOMAIN r_in /\ r_in'[i] = r_in[i])
      BY <1>2, <2>3, LastOfSeq
    <3> QED
      BY <2>1, <2>3, <3>1
  <2> QED
    BY <1>4, <2>2, <2>3
<1>7. r_users' \in [Nick -> Login \cup {NoLogin}] /\ r_nick' \in [Login -> Nick \cup {NoNick}]
  BY <1>1 DEF RouletteInv, RouletteTypeOK, r_people
<1> HIDE DEF m, l
<1> QED
  BY <1>1, <1>2, <1>5, <1>6, <1>7, StakesAlone DEF r_people, r_table

\* The bot learns whose nick it is.
LEMMA KnownKeeps ==
  ASSUME RouletteInv, EUI_REPLY
  PROVE  RouletteInv'
<1> DEFINE n == Head(r_in).nick
<1>1. /\ r_in # <<>> /\ r_in' = Tail(r_in) /\ Head(r_in).cmd = "EUI_REPLY"
      /\ r_users' = [r_users EXCEPT ![n] = LoginOf[n]]
      /\ r_nick' = [r_nick EXCEPT ![LoginOf[n]] = n]
      /\ UNCHANGED <<r_pays, r_id, r_table, r_out, r_money, r_torn>>
  BY DEF EUI_REPLY, Answered
<1>2. /\ r_in \in Seq(Got) /\ r_out \in Seq(Sent)
      /\ r_users \in [Nick -> Login \cup {NoLogin}] /\ r_nick \in [Login -> Nick \cup {NoNick}]
  BY DEF RouletteInv, RouletteTypeOK
<1>3. Head(r_in) \in Got /\ r_in' \in Seq(Got) /\ \A i \in DOMAIN r_in' : i + 1 \in DOMAIN r_in /\ r_in'[i] = r_in[i + 1]
  BY <1>1, <1>2, FirstOfSeq
<1>4. n \in Nick
  BY <1>3 DEF Got
<1> HIDE DEF n
<1>5. r_users' \in [Nick -> Login \cup {NoLogin}] /\ r_nick' \in [Login -> Nick \cup {NoNick}]
  BY <1>1, <1>2, <1>4
<1>6. \A i \in DOMAIN r_in' : r_in'[i].cmd = "UTTC_REPLY" /\ r_in'[i].ok => r_in'[i].id \in r_taken'
  BY <1>1, <1>3 DEF RouletteInv, YesIsTaken, r_money
<1> QED
  BY <1>1, <1>2, <1>3, <1>5, <1>6, StakesAlone DEF r_table, r_money
-----------------------------------------------------------------------------
(* Steps of the stakes.                                                    *)

\* A stake is asked for under a new number.
LEMMA StakeKeeps ==
  ASSUME RouletteInv, NEW n \in Nick, NEW tip \in Tip, do_stawka(n, tip)
  PROVE  RouletteInv'
<1> DEFINE l == r_users[n]
           new == [id |-> r_id + 1, tip |-> tip]
           m == [cmd |-> "UTTC", nick |-> n, id |-> r_id + 1]
<1>1. /\ l # NoLogin /\ r_id < MaxStakes /\ r_id' = r_id + 1
      /\ r_pays' = [r_pays EXCEPT ![l] = @ \cup {new}]
      /\ r_out' = Append(r_out, m)
      /\ UNCHANGED <<r_users, r_nick, r_table, r_in, r_money, r_torn>>
  BY DEF do_stawka, Send
<1>2. /\ r_id \in 0..MaxStakes /\ MaxStakes \in Nat
      /\ r_users \in [Nick -> Login \cup {NoLogin}] /\ r_pays \in [Login -> SUBSET Pay]
      /\ r_out \in Seq(Sent)
  BY DEF RouletteInv, RouletteTypeOK
<1>3. l \in Login /\ r_id + 1 \in 1..MaxStakes /\ r_id' \in 0..MaxStakes
  BY <1>1, <1>2
<1>4. new \in Pay /\ m \in Sent /\ new.id = r_id + 1
  BY <1>3 DEF Pay, Sent
<1> HIDE DEF l, new, m
<1>5. r_pays' \in [Login -> SUBSET Pay] /\ r_out' \in Seq(Sent)
  <2>1. r_pays' \in [Login -> SUBSET Pay]
    BY <1>1, <1>2, <1>3, <1>4
  <2> QED
    BY <1>1, <1>2, <1>4, <2>1, LastOfSeq
<1>6. \A x \in Login : \A p \in r_pays'[x] : p \in r_pays[x] \/ (x = l /\ p = new)
  BY <1>1, <1>2
<1>7. \A p \in Pending : p.id \in Int /\ p.id <= r_id
  BY <1>2 DEF RouletteInv, NumbersUsed, Pending, Pay
<1>8. \A p \in Pending' : p \in Pending \/ p = new
  BY <1>6 DEF Pending
<1>9. \A s \in r_mem \cup r_file : s.id \in Int /\ s.id <= r_id
  BY DEF RouletteInv, NumbersUsed, RouletteTypeOK, Stake
<1>10. RouletteTypeOK'
  BY <1>1, <1>3, <1>5 DEF RouletteInv, RouletteTypeOK, r_table
<1>11. NumbersUsed'
  <2>1. \A i \in r_decided : i <= r_id' /\ i # r_id + 1
    <3>1. r_decided \subseteq Int /\ \A i \in r_decided : i <= r_id
      BY DEF RouletteInv, NumbersUsed, RouletteTypeOK
    <3> QED
      BY <1>1, <1>2, <3>1
  <2>2. \A p \in Pending' : p.id <= r_id'
    BY <1>1, <1>2, <1>4, <1>7, <1>8
  <2>3. \A s \in r_mem' \cup r_file' : s.id <= r_id'
    BY <1>1, <1>2, <1>9 DEF r_table
  <2> QED
    BY <1>1, <2>1, <2>2, <2>3 DEF NumbersUsed, r_table
<1>12. WaitsOnce'
  <2>1. ASSUME NEW l1 \in Login, NEW l2 \in Login, NEW p \in r_pays'[l1], NEW q \in r_pays'[l2], p.id = q.id
        PROVE  l1 = l2 /\ p = q
    <3>1. \A x \in Login : \A y \in r_pays[x] : y.id # r_id + 1
      BY <1>2, <1>7 DEF Pending
    <3> QED
      BY <1>4, <1>6, <2>1, <3>1 DEF RouletteInv, WaitsOnce
  <2>2. ASSUME NEW p \in Pending' PROVE p.id \notin Ids(r_mem) /\ p.id \notin Ids(r_file) /\ p.id \notin r_decided
    <3>1. r_id + 1 \notin Ids(r_mem) /\ r_id + 1 \notin Ids(r_file) /\ r_id + 1 \notin r_decided
      BY <1>2, <1>9 DEF RouletteInv, NumbersUsed, Ids
    <3> QED
      BY <1>4, <1>8, <2>2, <3>1 DEF RouletteInv, WaitsOnce
  <2> QED
    BY <1>1, <2>1, <2>2 DEF WaitsOnce, r_table, Ids
<1>13. YesIsTaken' /\ StakesWerePaid'
  BY <1>1 DEF RouletteInv, YesIsTaken, StakesWerePaid, r_table, r_money
<1>14. DecidedOnce' /\ FileAgrees'
  BY <1>1 DEF RouletteInv, DecidedOnce, FileAgrees, r_table
<1> QED
  BY <1>10, <1>11, <1>12, <1>13, <1>14 DEF RouletteInv

\* !stakes loads the file.
LEMMA ShowKeeps ==
  ASSUME RouletteInv, NEW n \in Nick, do_stawki(n)
  PROVE  RouletteInv'
<1>1. /\ r_mem' = r_file
      /\ UNCHANGED <<r_people, r_file, r_decided, r_out, r_in, r_money, r_torn>>
  BY LoadedIsFile DEF do_stawki
<1>2. RouletteTypeOK'
  BY <1>1 DEF RouletteInv, RouletteTypeOK, r_people
<1>3. NumbersUsed' /\ WaitsOnce'
  BY <1>1 DEF RouletteInv, NumbersUsed, WaitsOnce, Pending, Ids, r_people
<1>4. YesIsTaken' /\ StakesWerePaid'
  BY <1>1 DEF RouletteInv, YesIsTaken, StakesWerePaid, r_money
<1>5. DecidedOnce' /\ FileAgrees'
  BY <1>1 DEF RouletteInv, DecidedOnce, FileAgrees
<1> QED
  BY <1>2, <1>3, <1>4, <1>5 DEF RouletteInv

\* A stake that is paid for goes to the table and to the file.
LEMMA PaidKeeps ==
  ASSUME RouletteInv, UTTC_REPLY
  PROVE  RouletteInv'
<1> DEFINE m == Head(r_in)
           l == r_users[m.nick]
<1>1. /\ r_in # <<>> /\ r_in' = Tail(r_in) /\ m.cmd = "UTTC_REPLY"
      /\ r_out' = IF m.ok /\ l = NoLogin THEN Append(r_out, [cmd |-> "EUI", nick |-> m.nick]) ELSE r_out
      /\ UNCHANGED <<r_users, r_nick, r_id, r_decided, r_money, r_torn>>
  BY DEF UTTC_REPLY, Answered, Accepted
<1>2. /\ r_in \in Seq(Got) /\ r_out \in Seq(Sent) /\ r_pays \in [Login -> SUBSET Pay]
      /\ r_users \in [Nick -> Login \cup {NoLogin}]
      /\ \A i \in DOMAIN r_in : r_in[i].cmd = "UTTC_REPLY" /\ r_in[i].ok => r_in[i].id \in r_taken
  BY DEF RouletteInv, RouletteTypeOK, YesIsTaken
<1>3. /\ m \in Got /\ m = r_in[1] /\ 1 \in DOMAIN r_in /\ r_in' \in Seq(Got)
      /\ \A i \in DOMAIN r_in' : i + 1 \in DOMAIN r_in /\ r_in'[i] = r_in[i + 1]
  BY <1>1, <1>2, FirstOfSeq
<1>4. m.nick \in Nick /\ (m.ok => m.id \in r_taken)
  BY <1>1, <1>2, <1>3 DEF Got
<1>5. r_out' \in Seq(Sent)
  <2>1. [cmd |-> "EUI", nick |-> m.nick] \in Sent
    BY <1>4 DEF Sent
  <2> QED
    BY <1>1, <1>2, <2>1, LastOfSeq
<1>6. \A i \in DOMAIN r_in' : r_in'[i].cmd = "UTTC_REPLY" /\ r_in'[i].ok => r_in'[i].id \in r_taken'
  BY <1>1, <1>2, <1>3 DEF r_money
<1>7. \/ UNCHANGED <<r_mem, r_file, r_pays>>
      \/ /\ m.ok /\ l \in Login
         /\ \E p \in r_pays[l] :
              /\ p.id = m.id
              /\ add_stawka([id |-> p.id, login |-> l, tip |-> p.tip])
              /\ r_pays' = [r_pays EXCEPT ![l] = @ \ {p}]
  <2>1. l \in Login \cup {NoLogin}
    BY <1>2, <1>4
  <2> HIDE DEF l, m
  <2> QED
    BY <2>1 DEF UTTC_REPLY, Accepted, l, m
<1> HIDE DEF m, l
<1>8. CASE UNCHANGED <<r_mem, r_file, r_pays>>
  <2>1. r_users' \in [Nick -> Login \cup {NoLogin}] /\ r_nick' \in [Login -> Nick \cup {NoNick}]
    BY <1>1 DEF RouletteInv, RouletteTypeOK
  <2>2. r_taken \subseteq r_taken'
    BY <1>1 DEF r_money
  <2> QED
    BY <1>1, <1>3, <1>5, <1>6, <1>8, <2>1, <2>2, StakesAlone
<1>9. ASSUME m.ok, l \in Login, NEW p \in r_pays[l], p.id = m.id,
             add_stawka([id |-> p.id, login |-> l, tip |-> p.tip]),
             r_pays' = [r_pays EXCEPT ![l] = @ \ {p}]
      PROVE  RouletteInv'
  <2> DEFINE s == [id |-> p.id, login |-> l, tip |-> p.tip]
  <2>1. r_mem' = r_file \cup {s} /\ r_file' = r_file \cup {s}
    BY <1>9, LoadedIsFile DEF add_stawka
  <2>2. p \in Pay /\ p \in Pending
    BY <1>2, <1>9 DEF Pending
  <2>3. s \in Stake /\ s.id = p.id
    BY <1>9, <2>2 DEF Stake, Pay
  <2> HIDE DEF s
  <2>4. r_pays' \in [Login -> SUBSET Pay] /\ \A x \in Login : r_pays'[x] \subseteq r_pays[x]
    BY <1>2, <1>9
  <2>5. \A x \in Login : p \notin r_pays'[x]
    BY <1>2, <1>9 DEF RouletteInv, WaitsOnce
  <2>6. \A q \in Pending' : q \in Pending /\ q.id # p.id
    BY <1>9, <2>4, <2>5 DEF RouletteInv, WaitsOnce, Pending
  <2>7. p.id \in r_taken /\ p.id \notin Ids(r_file) /\ p.id \notin r_decided /\ p.id <= r_id
    BY <1>4, <1>9, <2>2 DEF RouletteInv, WaitsOnce, NumbersUsed
  <2>8. RouletteTypeOK'
    BY <1>1, <1>3, <1>5, <2>1, <2>3, <2>4 DEF RouletteInv, RouletteTypeOK
  <2>9. NumbersUsed'
    BY <1>1, <2>1, <2>3, <2>6, <2>7 DEF RouletteInv, NumbersUsed
  <2>10. WaitsOnce'
    <3>1. \A x \in r_mem' \cup r_file' : x \in r_file \/ x = s
      BY <2>1
    <3>2. ASSUME NEW q \in Pending' PROVE q.id \notin Ids(r_mem') /\ q.id \notin Ids(r_file') /\ q.id \notin r_decided'
      BY <1>1, <2>3, <2>6, <3>1, <3>2 DEF RouletteInv, WaitsOnce, Ids
    <3> QED
      BY <2>4, <3>2 DEF RouletteInv, WaitsOnce, Ids
  <2>11. StakesWerePaid'
    BY <1>1, <2>1, <2>3, <2>7 DEF RouletteInv, StakesWerePaid, Ids, r_money
  <2>12. DecidedOnce' /\ FileAgrees'
    BY <1>1, <2>1, <2>3, <2>7 DEF RouletteInv, DecidedOnce, FileAgrees
  <2>13. YesIsTaken'
    BY <1>6 DEF YesIsTaken
  <2> QED
    BY <2>8, <2>9, <2>10, <2>11, <2>12, <2>13 DEF RouletteInv
<1> QED
  BY <1>7, <1>8, <1>9

\* The ball decides what is on the table; a payout that is torn leaves it there.
LEMMA BallKeeps ==
  ASSUME RouletteInv, throw_ball \/ torn_payout
  PROVE  RouletteInv'
<1>1. Loaded = r_file
  BY LoadedIsFile
<1>2. /\ r_decided' = r_decided \cup Ids(r_file)
      /\ \/ r_mem' = {} /\ r_file' = {} /\ r_torn' = r_torn
         \/ r_mem' = r_file /\ r_file' = r_file /\ r_torn' = TRUE
      /\ UNCHANGED <<r_people, r_money>>
      /\ r_in' = r_in \/ r_in' = <<>>
  BY <1>1 DEF throw_ball, torn_payout, remove_stawki, Ids
<1>3. /\ r_out \in Seq(Sent) /\ r_in \in Seq(Got) /\ r_file \in SUBSET Stake
      /\ r_decided \subseteq 1..MaxStakes
  BY DEF RouletteInv, RouletteTypeOK
<1>4. r_out' \in Seq(Sent)
  <2>1. CASE throw_ball
    <3>1. PICK draw \in Draw : r_out' = r_out \o Prizes(r_file, draw, Winners(r_file, draw))
      BY <1>1, <2>1 DEF throw_ball
    <3>2. Prizes(r_file, draw, Winners(r_file, draw)) \in Seq(Sent)
      BY <1>3, PrizesAreSent
    <3> QED
      BY <1>3, <3>1, <3>2
  <2>2. CASE torn_payout
    <3>1. PICK draw \in Draw : \E some \in SUBSET Winners(r_file, draw) : r_out' = Prizes(r_file, draw, some)
      BY <1>1, <2>2 DEF torn_payout
    <3>2. PICK some \in SUBSET Winners(r_file, draw) : r_out' = Prizes(r_file, draw, some)
      BY <3>1
    <3> QED
      BY <1>3, <3>2, PrizesAreSent
  <2> QED
    BY <2>1, <2>2
<1>5. r_in' \in Seq(Got) /\ \A i \in DOMAIN r_in' : i \in DOMAIN r_in /\ r_in'[i] = r_in[i]
  <2>1. <<>> \in Seq(Got) /\ DOMAIN <<>> = {}
    OBVIOUS
  <2> QED
    BY <1>2, <1>3, <2>1
<1>6. RouletteTypeOK'
  <2>1. Ids(r_file) \subseteq 1..MaxStakes
    BY <1>3 DEF Ids, Stake
  <2>2. r_decided' \subseteq 1..MaxStakes
    BY <1>2, <1>3, <2>1
  <2> QED
    BY <1>2, <1>4, <1>5, <2>2 DEF RouletteInv, RouletteTypeOK, r_people
<1>7. NumbersUsed'
  BY <1>2 DEF RouletteInv, NumbersUsed, Ids, Pending, r_people
<1>8. WaitsOnce'
  BY <1>2 DEF RouletteInv, WaitsOnce, Ids, Pending, r_people
<1>9. YesIsTaken'
  BY <1>2, <1>5 DEF RouletteInv, YesIsTaken, r_money
<1>10. StakesWerePaid'
  BY <1>2 DEF RouletteInv, StakesWerePaid, r_money
<1>11. DecidedOnce' /\ FileAgrees'
  BY <1>2 DEF RouletteInv, DecidedOnce, FileAgrees
<1> QED
  BY <1>6, <1>7, <1>8, <1>9, <1>10, <1>11 DEF RouletteInv

\* The bot is started again: the file is what is left.
LEMMA RestartKeeps ==
  ASSUME RouletteInv, restart
  PROVE  RouletteInv'
<1>1. /\ r_users' = [n \in Nick |-> NoLogin] /\ r_nick' = [l \in Login |-> NoNick]
      /\ r_pays' = [l \in Login |-> {}] /\ r_mem' = {} /\ r_out' = <<>> /\ r_in' = <<>>
      /\ UNCHANGED <<r_id, r_file, r_decided, r_money, r_torn>>
  BY DEF restart
<1>2. Pending' = {}
  BY <1>1 DEF Pending
<1>3. RouletteTypeOK'
  <2>1. <<>> \in Seq(Sent) /\ <<>> \in Seq(Got)
    OBVIOUS
  <2>2. /\ r_users' \in [Nick -> Login \cup {NoLogin}] /\ r_nick' \in [Login -> Nick \cup {NoNick}]
        /\ r_pays' \in [Login -> SUBSET Pay]
    BY <1>1
  <2> QED
    BY <1>1, <2>1, <2>2 DEF RouletteInv, RouletteTypeOK
<1>4. NumbersUsed'
  BY <1>1, <1>2 DEF RouletteInv, NumbersUsed
<1>5. WaitsOnce'
  BY <1>1, <1>2 DEF WaitsOnce
<1>6. YesIsTaken' /\ StakesWerePaid'
  BY <1>1 DEF RouletteInv, YesIsTaken, StakesWerePaid, r_money
<1>7. DecidedOnce' /\ FileAgrees'
  BY <1>1 DEF RouletteInv, DecidedOnce, FileAgrees
<1> QED
  BY <1>3, <1>4, <1>5, <1>6, <1>7 DEF RouletteInv
-----------------------------------------------------------------------------
(* The theorems.                                                           *)

LEMMA RouletteInitKeeps == RouletteInit => RouletteInv
<1> SUFFICES ASSUME RouletteInit PROVE RouletteInv
  OBVIOUS
<1> USE DEF RouletteInit
<1>1. Pending = {}
  BY DEF Pending
<1>2. RouletteTypeOK
  <2>1. <<>> \in Seq(Sent) /\ <<>> \in Seq(Got)
    OBVIOUS
  <2> QED
    BY <2>1 DEF RouletteTypeOK
<1>3. NumbersUsed /\ WaitsOnce
  BY <1>1 DEF NumbersUsed, WaitsOnce
<1>4. YesIsTaken /\ StakesWerePaid /\ DecidedOnce /\ FileAgrees
  BY DEF YesIsTaken, StakesWerePaid, DecidedOnce, FileAgrees
<1> QED
  BY <1>2, <1>3, <1>4 DEF RouletteInv

LEMMA RouletteNextKeeps == RouletteInv /\ [RouletteNext]_rouletteVars => RouletteInv'
<1> SUFFICES ASSUME RouletteInv, [RouletteNext]_rouletteVars PROVE RouletteInv'
  OBVIOUS
<1>1. CASE UNCHANGED rouletteVars
  <2>1. RouletteTypeOK' = RouletteTypeOK /\ NumbersUsed' = NumbersUsed /\ WaitsOnce' = WaitsOnce
    BY <1>1 DEF rouletteVars, r_people, r_table, RouletteTypeOK, NumbersUsed, WaitsOnce, Pending
  <2>2. YesIsTaken' = YesIsTaken /\ StakesWerePaid' = StakesWerePaid
    BY <1>1 DEF rouletteVars, r_money, r_table, YesIsTaken, StakesWerePaid
  <2>3. DecidedOnce' = DecidedOnce /\ FileAgrees' = FileAgrees
    BY <1>1 DEF rouletteVars, r_table, DecidedOnce, FileAgrees
  <2> QED
    BY <2>1, <2>2, <2>3 DEF RouletteInv
<1>2. CASE Players
  BY <1>2, AskWhoKeeps, ShowKeeps, StakeKeeps DEF Players
<1>3. CASE check_state
  BY <1>3, GameKeeps, BallKeeps DEF check_state
<1>4. CASE Faults
  BY <1>4, GameKeeps, RestartKeeps, BallKeeps DEF Faults
<1>5. CASE start_roulette \/ server_handles \/ EUI_REPLY \/ UTTC_REPLY
  BY <1>5, GameKeeps, ServerKeeps, KnownKeeps, PaidKeeps
<1> QED
  BY <1>1, <1>2, <1>3, <1>4, <1>5 DEF RouletteNext

\* What every state of the roulette satisfies.
THEOREM RouletteInvariant == RouletteSpec => []RouletteInv
BY RouletteInitKeeps, RouletteNextKeeps, PTL DEF RouletteSpec

\* A stake on the table is paid for, decided once, and not forgotten by the
\* file, over every restart, broken connection and late answer.
THEOREM StakesAreKept == RouletteSpec => []StakesKept
<1>1. RouletteInv => StakesKept
  BY DEF RouletteInv, StakesKept
<1> QED
  BY <1>1, RouletteInvariant, PTL

\* A role of the mafia is dealt once, and the quiz stops when and only when its
\* question is ignored, whatever the other bots do meanwhile.
THEOREM BotsKeepRules == MafiaSpec /\ QuizSpec => RulesKept
BY RolesAreDealtOnce, QuizStopsWhenIgnored, PTL DEF RulesKept
===============================================================================
