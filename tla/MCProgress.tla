------------------------------ MODULE MCProgress -----------------------------
(* What must go on in the chat server, in parts that know nothing of each     *)
(* other: the chat thread's lists, the threads of tcp_server, and those of    *)
(* tcp_dialog_server.                                                         *)
EXTENDS MCChatServer, TcpServer, Dialog

CONSTANTS c1, c2

VARIABLE part

\* The first client sends two lines of any kind, the other one.
MCLines == c1 :> 2 @@ c2 :> 1
MCKinds == c1 :> {"line", "empty", "bye"} @@ c2 :> {"line"}

ProgressInit ==
  /\ Init /\ TcpInit /\ DialogInit
  /\ part \in {"chat", "server", "dialog"}

ProgressNext ==
  /\ UNCHANGED part
  /\ \/ part = "chat" /\ Next /\ UNCHANGED <<tcpVars, dialogVars>>
     \/ part = "server" /\ TcpNext /\ UNCHANGED <<vars, dialogVars>>
     \/ part = "dialog" /\ DialogNext /\ UNCHANGED <<vars, tcpVars>>

\* Each part's threads, in the behaviours that are about it.
ChatFairness ==
  /\ WF_vars(part = "chat" /\ ExtractAll /\ UNCHANGED requestVars)
  /\ WF_vars(part = "chat" /\ HandleEvent /\ UNCHANGED requestVars)
  /\ WF_vars(part = "chat" /\ update_contact_lists /\ UNCHANGED requestVars)
  /\ \A t \in Thread : WF_vars(part = "chat" /\ Step(t))
  /\ WF_vars(part = "chat" /\ UpdateProcessor)
ServerFairness ==
  /\ \A l \in Listener : WF_tcpVars(part = "server" /\ Listen(l))
  /\ \A h \in Handler : WF_tcpVars(part = "server" /\ Handle(h))

ProgressSpec ==
  /\ ProgressInit
  /\ [][ProgressNext]_<<vars, tcpVars, dialogVars, part>>
  /\ ChatFairness /\ ServerFairness /\ DialogFairness
=============================================================================
