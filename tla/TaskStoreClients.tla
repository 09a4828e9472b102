--------------------------- MODULE TaskStoreClients ---------------------------
(***************************************************************************)
(* One MemoryStore and any number of goroutines calling it, in any order   *)
(* and with any arguments: the taskstore.Store contract seen by a caller.  *)
(*                                                                         *)
(* granted is a history variable: the calls the store answered with a nil  *)
(* error.  It is what the callers believe, to be compared with what the    *)
(* store holds.                                                            *)
(***************************************************************************)
EXTENDS TaskStore

VARIABLE granted

vars == <<records, granted>>

ASSUME StoreConstants ==
  /\ BlankID \notin TaskIDs
  /\ Nil \notin Responses
  /\ Nil \notin Errors

Call == [op: {"create"}, id: TaskIDs, arg: Requests]
          \cup [op: {"complete"}, id: TaskIDs, arg: Responses]
          \cup [op: {"fail"}, id: TaskIDs, arg: Errors]

TypeOK ==
  /\ records = [t \in DOMAIN records |-> records[t]]
  /\ DOMAIN records \subseteq TaskIDs
  /\ \A t \in DOMAIN records : records[t] \in Record
  /\ granted \subseteq Call

Init == records = EmptyStore /\ granted = {}

(* A caller remembers a call that succeeded. *)
Note(op, id, arg, err) ==
  granted' = IF err = "nil" THEN granted \cup {[op |-> op, id |-> id, arg |-> arg]}
                            ELSE granted

CallCreate(id, req) ==
  \E err \in Results : CreateAccepted(id, req, err) /\ Note("create", id, req, err)
CallComplete(id, resp) ==
  \E err \in Results : Complete(id, resp, err) /\ Note("complete", id, resp, err)
CallFail(id, taskErr) ==
  \E err \in Results : Fail(id, taskErr, err) /\ Note("fail", id, taskErr, err)

Next ==
  \E id \in TaskIDs \cup {BlankID} :
    \/ \E req \in Requests : CallCreate(id, req)
    \/ \E resp \in Responses \cup {Nil} : CallComplete(id, resp)
    \/ \E taskErr \in Errors : CallFail(id, taskErr)

Spec == Init /\ [][Next]_vars

-----------------------------------------------------------------------------
(***************************************************************************)
(* What a caller was told stays true: the request of the create that       *)
(* succeeded and the result of the settlement that succeeded are what the  *)
(* store holds from then on, whatever other callers do later (memory.go    *)
(* CreateAccepted, Complete, Fail).                                        *)
(***************************************************************************)
GrantedIsStored ==
  \A c \in granted :
    /\ c.id \in DOMAIN records
    /\ c.op = "create"   => records[c.id].request = c.arg
    /\ c.op = "complete" => /\ records[c.id].status = "completed"
                            /\ records[c.id].response = c.arg
    /\ c.op = "fail"     => /\ records[c.id].status = "failed"
                            /\ records[c.id].error = c.arg

(***************************************************************************)
(* A record is never removed, never changes hands, and once it is terminal *)
(* it never changes (the ErrTaskExists and ErrInvalidTransition guards).   *)
(***************************************************************************)
TaskHistory ==
  [][\A t \in DOMAIN records :
       /\ t \in DOMAIN records'
       /\ records'[t].request = records[t].request
       /\ records[t].status # "accepted" => records'[t] = records[t]]_records

(***************************************************************************)
(* Every record in the store was filed by a create that was told so, and   *)
(* every terminal one by a settlement that was told so: no caller gets an  *)
(* error for a change that took place.                                     *)
(***************************************************************************)
StoredIsGranted ==
  \A t \in DOMAIN records :
    /\ \E c \in granted : c.op = "create" /\ c.id = t
    /\ records[t].status # "accepted" =>
         \E c \in granted : c.op \in {"complete", "fail"} /\ c.id = t
=============================================================================
