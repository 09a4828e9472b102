------------------------------ MODULE TaskService ------------------------------
(***************************************************************************)
(* The voice service as an agent sees it: what POST /v1/dev/text and       *)
(* GET /v1/dev/tasks/{id} promise together, whatever forwarder, handler,   *)
(* dispatcher and backend do behind them.                                  *)
(*                                                                         *)
(* A request posted is answered at once, or becomes a task whose id its    *)
(* agent is told ("accepted"), or its exchange is lost, and then it may    *)
(* become a task all the same, even later.  A task is settled at most      *)
(* once, under an id of its own, until a restart forgets all tasks.        *)
(*                                                                         *)
(* HAConversation is built on this service; VoicePath implements it.       *)
(***************************************************************************)
EXTENDS Naturals

CONSTANTS
  Requests,     \* requests an agent may post
  TaskIDs,      \* task ids
  MaxRestarts,  \* bound on restarts of the service
  Nil           \* no task id

VARIABLES
  exchange,  \* exchange[r]: the agent's POST of request r
  taskID,    \* taskID[r]: the id of the task r has become
  records,   \* the task store: task id -> [request, status]
  restarts   \* how often the service has restarted

vars == <<exchange, taskID, records, restarts>>

Settled == {"completed", "failed"}

ServiceTypeOK ==
  /\ exchange \in [Requests -> {"none", "open", "promised", "answered", "lost"}]
  /\ taskID \in [Requests -> TaskIDs \cup {Nil}]
  /\ DOMAIN records \subseteq TaskIDs
  /\ \A id \in DOMAIN records :
       records[id] \in [request : Requests, status : {"accepted"} \cup Settled]
  /\ restarts \in 0..MaxRestarts

EmptyStore == [id \in {} |-> Nil]

Init ==
  /\ exchange = [r \in Requests |-> "none"]
  /\ taskID = [r \in Requests |-> Nil]
  /\ records = EmptyStore
  /\ restarts = 0

-----------------------------------------------------------------------------
(* POST /v1/dev/text                                                       *)

Post(r) ==
  /\ exchange[r] = "none"
  /\ exchange' = [exchange EXCEPT ![r] = "open"]
  /\ UNCHANGED <<taskID, records, restarts>>

(* The answer of the backend or an error of the service: there is no task, *)
(* and there will be none.                                                 *)
Answer(r) ==
  /\ exchange[r] = "open"
  /\ taskID[r] = Nil
  /\ exchange' = [exchange EXCEPT ![r] = "answered"]
  /\ UNCHANGED <<taskID, records, restarts>>

(* The answer "accepted", with taskID[r].                                  *)
Promise(r) ==
  /\ exchange[r] = "open"
  /\ taskID[r] # Nil
  /\ exchange' = [exchange EXCEPT ![r] = "promised"]
  /\ UNCHANGED <<taskID, records, restarts>>

(* The agent's timeout, or an answer that is none of the service's.        *)
Lose(r) ==
  /\ exchange[r] = "open"
  /\ exchange' = [exchange EXCEPT ![r] = "lost"]
  /\ UNCHANGED <<taskID, records, restarts>>

-----------------------------------------------------------------------------
(* Behind the handlers.                                                    *)

(* The quick timeout passes: the request goes on as a task.                *)
Accept(r, id) ==
  /\ exchange[r] \in {"open", "lost"}
  /\ taskID[r] = Nil
  /\ id \in TaskIDs /\ id \notin DOMAIN records
  /\ taskID' = [taskID EXCEPT ![r] = id]
  /\ records' = [k \in DOMAIN records \cup {id} |->
                   IF k = id THEN [request |-> r, status |-> "accepted"] ELSE records[k]]
  /\ UNCHANGED <<exchange, restarts>>

Settle(r) ==
  /\ \E id \in DOMAIN records, s \in Settled :
       /\ records[id] = [request |-> r, status |-> "accepted"]
       /\ records' = [records EXCEPT ![id].status = s]
  /\ UNCHANGED <<exchange, taskID, restarts>>

(* The store is process-local, and the ids may be given again.             *)
Restart ==
  /\ restarts < MaxRestarts
  /\ restarts' = restarts + 1
  /\ records' = EmptyStore
  /\ UNCHANGED <<exchange, taskID>>

(* GET /v1/dev/tasks/{id}                                                  *)
Status(id) == IF id \in DOMAIN records THEN records[id].status ELSE "not_found"

(* A new task is found by its id in the store.                             *)
Next ==
  \/ \E r \in Requests :
       \/ Post(r) \/ Answer(r) \/ Promise(r) \/ Lose(r) \/ Settle(r)
       \/ \E id \in DOMAIN records' : Accept(r, id)
  \/ Restart

Spec == Init /\ [][Next]_vars
=============================================================================
