------------------------------ MODULE MCVoicePath ------------------------------
(***************************************************************************)
(* Requests of one conversation, which share the request id; with a fixed  *)
(* -accepted-task-id the second task clashes with the first.               *)
(***************************************************************************)
EXTENDS VoicePath

CONSTANTS q1, q2, kitchen

MCRequestName  == [r \in Requests |-> kitchen]
MCConfiguredID == [r \in Requests |-> <<kitchen, 1>>]

(* With Hermes the second request does not get past the forwarder.         *)
FirstOnly == mode = "hermes-cli" => edge'[q2] # "forwarding"

MCSpec == PathInit /\ [][PathNext /\ FirstOnly]_allVars /\ PathFairness
=============================================================================
