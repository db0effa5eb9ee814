------------------------------ MODULE StreamAbs ------------------------------
(***************************************************************************)
(* What the sender promises about each connection: its peer is given the   *)
(* units written to this connection, each once, in the order of writing,   *)
(* and nothing else.  Units of a connection are numbered from 1.           *)
(***************************************************************************)
EXTENDS Sequences, Integers

CONSTANT Sock                      \* connections

VARIABLES out,                     \* units written to each connection
          sent                     \* units its peer has been given

vars == <<out, sent>>

Init ==
  /\ out = [s \in Sock |-> <<>>]
  /\ sent = [s \in Sock |-> <<>>]

Write(s) ==
  /\ out' = [out EXCEPT ![s] = Append(@, <<s, Len(@) + 1>>)]
  /\ UNCHANGED sent

\* The next units of out, as many as the connection takes.
Carry(s) ==
  /\ \E n \in Len(sent[s]) + 1 .. Len(out[s]) :
       sent' = [sent EXCEPT ![s] = SubSeq(out[s], 1, n)]
  /\ UNCHANGED out

Next == \E s \in Sock : Write(s) \/ Carry(s)

Spec == Init /\ [][Next]_vars
=============================================================================
