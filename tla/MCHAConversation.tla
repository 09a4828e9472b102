--------------------------- MODULE MCHAConversation ---------------------------
(* Turns that each start a task or ask for the status, in any mix.         *)
EXTENDS HAConversation

CONSTANTS u1, u2, u3, k1, k2
=============================================================================
