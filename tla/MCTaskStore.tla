----------------------------- MODULE MCTaskStore -----------------------------
(***************************************************************************)
(* Two ids, and two of every argument, so that a call can be tried again   *)
(* with the same and with another argument.                                *)
(***************************************************************************)
EXTENDS TaskStoreClients

CONSTANTS t1, t2, q1, q2, a1, a2, e1, e2
=============================================================================
