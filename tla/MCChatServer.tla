--------------------------- MODULE MCChatServer ---------------------------
(* Small instances of ChatServer: see README for the bounds. *)
EXTENDS ChatServerProps, TLC

CONSTANTS u1, u2

\* u1 may be invisible to u2, and u2 hides the men of its lists.
MCInvisibility == [u \in Uid |-> IF u = u1 THEN 1 ELSE 0]
MCGender == [u \in Uid |-> IF u = u1 THEN 1 ELSE 2]
MCContacts == [u \in Uid |-> Uid \ {u}]

Symmetry == Permutations(Thread)
=============================================================================
