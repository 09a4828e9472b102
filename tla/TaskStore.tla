------------------------------ MODULE TaskStore ------------------------------
(***************************************************************************)
(* The process-local task store (internal/taskstore/memory.go).            *)
(*                                                                         *)
(* MemoryStore keeps one Record per task id in a map guarded by a          *)
(* read-write mutex.  Every operation computes its answer and its update   *)
(* under the lock, so each is one action here; an action takes the error   *)
(* it returns as its last argument, "nil" standing for success.            *)
(*                                                                         *)
(* A task id is what strings.TrimSpace leaves of the caller's string: two  *)
(* ids that differ only in surrounding white space are the same key, and   *)
(* BlankID is the key of every blank one.  Timestamps are reduced to       *)
(* whether CompletedAt is set; the defensive copies of requests and        *)
(* responses are values.                                                   *)
(***************************************************************************)
CONSTANTS
  TaskIDs,      \* trimmed, non-blank task ids
  BlankID,      \* the trimmed form of a blank id
  Requests,     \* backend requests a record can hold
  Responses,    \* backend responses (non-nil)
  Errors,       \* task errors
  Nil           \* a nil pointer

VARIABLE records  \* s.records: task id -> Record, for the ids present

Results == {"nil", "ErrInvalidTaskID", "ErrTaskExists", "ErrTaskNotFound",
            "ErrInvalidResponse", "ErrInvalidTransition"}

(***************************************************************************)
(* The three shapes a stored Record takes, by its Status.                  *)
(***************************************************************************)
AcceptedRecord  == [request: Requests, status: {"accepted"},
                    response: {Nil}, error: {Nil}, completedAt: {FALSE}]
CompletedRecord == [request: Requests, status: {"completed"},
                    response: Responses, error: {Nil}, completedAt: {TRUE}]
FailedRecord    == [request: Requests, status: {"failed"},
                    response: {Nil}, error: Errors, completedAt: {TRUE}]
Record == AcceptedRecord \cup CompletedRecord \cup FailedRecord

(* NewMemoryStore *)
EmptyStore == [t \in {} |-> Nil]

(* s.records[id] = rec *)
Put(id, rec) ==
  records' = [t \in DOMAIN records \cup {id} |->
                IF t = id THEN rec ELSE records[t]]

(***************************************************************************)
(* CreateAccepted files a fresh record: whatever Status, Response or Error *)
(* the caller put in it is reset.                                          *)
(***************************************************************************)
NewRecord(req) == [request |-> req, status |-> "accepted", response |-> Nil,
                   error |-> Nil, completedAt |-> FALSE]

(* Mutations of CreateAccepted: no check of a blank id, none of a taken id.*)
CreateAcceptedBlank(id, req, err) ==
  \/ id \in DOMAIN records /\ err = "ErrTaskExists" /\ UNCHANGED records
  \/ id \notin DOMAIN records /\ err = "nil" /\ Put(id, NewRecord(req))

CreateAcceptedAnew(id, req, err) ==
  \/ id = BlankID /\ err = "ErrInvalidTaskID" /\ UNCHANGED records
  \/ id # BlankID /\ err = "nil" /\ Put(id, NewRecord(req))

CreateAccepted(id, req, err) ==
  \/ /\ id = BlankID
     /\ err = "ErrInvalidTaskID"
     /\ UNCHANGED records
  \/ /\ id \in DOMAIN records
     /\ err = "ErrTaskExists"
     /\ UNCHANGED records
  \/ /\ id \notin DOMAIN records \cup {BlankID}
     /\ err = "nil"
     /\ Put(id, NewRecord(req))

(***************************************************************************)
(* Complete and Fail move an accepted record to a terminal status; on any  *)
(* other record they return an error and change nothing.                   *)
(***************************************************************************)
NotSettleable(id, err) ==
  /\ UNCHANGED records
  /\ \/ /\ id \notin DOMAIN records
        /\ err = "ErrTaskNotFound"
     \/ /\ id \in DOMAIN records
        /\ records[id].status # "accepted"
        /\ err = "ErrInvalidTransition"

(* Mutation of Settleable: a terminal record may be settled again.         *)
Present(id) == id \in DOMAIN records

Settleable(id) == id \in DOMAIN records /\ records[id].status = "accepted"

CompletedWith(rec, resp) ==
  [rec EXCEPT !.status = "completed", !.response = resp, !.error = Nil,
              !.completedAt = TRUE]

FailedWith(rec, taskErr) ==
  [rec EXCEPT !.status = "failed", !.response = Nil, !.error = taskErr,
              !.completedAt = TRUE]

(* Mutation of Complete: the response is looked at after the record is.    *)
CompleteThenCheck(id, resp, err) ==
  \/ id # BlankID /\ NotSettleable(id, err)
  \/ /\ Settleable(id)
     /\ Put(id, CompletedWith(records[id], resp))
     /\ err = IF resp = Nil THEN "ErrInvalidResponse" ELSE "nil"

Complete(id, resp, err) ==
  \/ /\ id = BlankID
     /\ err = "ErrInvalidTaskID"
     /\ UNCHANGED records
  \/ /\ id # BlankID
     /\ resp = Nil
     /\ err = "ErrInvalidResponse"
     /\ UNCHANGED records
  \/ /\ id # BlankID
     /\ resp # Nil
     /\ NotSettleable(id, err)
  \/ /\ resp # Nil
     /\ Settleable(id)
     /\ err = "nil"
     /\ Put(id, CompletedWith(records[id], resp))

Fail(id, taskErr, err) ==
  \/ /\ id = BlankID
     /\ err = "ErrInvalidTaskID"
     /\ UNCHANGED records
  \/ /\ id # BlankID
     /\ NotSettleable(id, err)
  \/ /\ Settleable(id)
     /\ err = "nil"
     /\ Put(id, FailedWith(records[id], taskErr))
=============================================================================
