----------------------------- MODULE MCTcpServer -----------------------------
(* Small instances of TcpServer: see README for the bounds. *)
EXTENDS TcpServer, TLC

Symmetry ==
  Permutations(Listener) \cup Permutations(Handler) \cup Permutations(Conn)
=============================================================================
