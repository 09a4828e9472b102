------------------------------ MODULE MCDispatch ------------------------------
(***************************************************************************)
(* Two requests of one name whose task ids clash: the configured id of q1  *)
(* (the -accepted-task-id flag) is the very id that is generated for q2.   *)
(***************************************************************************)
EXTENDS Dispatch

CONSTANTS q1, q2, kitchen

MCRequestName  == [r \in Requests |-> kitchen]
MCConfiguredID == [r \in Requests |-> IF r = q2 THEN BlankID ELSE <<kitchen, 1>>]
=============================================================================
