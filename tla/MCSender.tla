------------------------------ MODULE MCSender ------------------------------
(* Two connections that come and go over one descriptor; and two, each on its *)
(* own, that stay, of which one has more to say than its peer can take.       *)
EXTENDS Sender

CONSTANTS s1, f1, f2

VARIABLE load

MCOwn(s) == IF s = s1 THEN f1 ELSE f2
MCUnits(s) == IF s = s1 THEN 2 ELSE 1

Reused == owner'[f2] = NoSock

Stays ==
  /\ hung' = {} /\ held \subseteq held'
  /\ \A s \in Sock :
       /\ m__sock[s] # NoFd => m__sock'[s] # NoFd
       /\ \A f \in Fd : owner'[f] = s => f = MCOwn(s)
       /\ Len(sent'[s]) + Len(send_buf'[s]) <= MCUnits(s)

LoadsNext ==
  /\ Next
  /\ IF load = "reuse" THEN Reused ELSE Stays
  /\ UNCHANGED load

\* What the loads leave out is done by nobody who must go on.
LoadsInit == Init /\ load \in {"reuse", "stay"}
LoadsSpec == LoadsInit /\ [][LoadsNext]_<<vars, load>> /\ SenderFairness
=============================================================================
