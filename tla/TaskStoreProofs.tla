--------------------------- MODULE TaskStoreProofs ---------------------------
(***************************************************************************)
(* Proofs about the task store and its callers, for any sets of ids,       *)
(* requests, responses and errors.                                         *)
(***************************************************************************)
EXTENDS TaskStoreClients, TLAPS

USE StoreConstants

(***************************************************************************)
(* Every operation of the store does one of four things: nothing, file a   *)
(* record under a free id, or give an accepted record its result, and it   *)
(* answers nil exactly in the last three cases.                            *)
(***************************************************************************)
Refused(err) == err # "nil" /\ UNCHANGED records

Filed(id, req, err) ==
  /\ err = "nil"
  /\ id \in TaskIDs /\ id \notin DOMAIN records
  /\ records' = [t \in DOMAIN records \cup {id} |->
                   IF t = id THEN NewRecord(req) ELSE records[t]]

SettledAs(id, rec, err) ==
  /\ err = "nil"
  /\ id \in DOMAIN records
  /\ records[id].status = "accepted"
  /\ records' = [t \in DOMAIN records |-> IF t = id THEN rec ELSE records[t]]

(* A create is refused, or files an accepted record under a free id.       *)
LEMMA CreateCases ==
  ASSUME NEW id \in TaskIDs \cup {BlankID}, NEW req \in Requests, NEW err,
         CreateAccepted(id, req, err)
  PROVE  Refused(err) \/ Filed(id, req, err)
  BY DEF CreateAccepted, Put, Refused, Filed

(* A completion is refused, or settles an accepted record with a response. *)
LEMMA CompleteCases ==
  ASSUME TypeOK, NEW id \in TaskIDs \cup {BlankID},
         NEW resp \in Responses \cup {Nil}, NEW err, Complete(id, resp, err)
  PROVE  \/ Refused(err)
         \/ resp \in Responses /\ SettledAs(id, CompletedWith(records[id], resp), err)
<1>1. CASE resp # Nil /\ Settleable(id) /\ err = "nil"
            /\ Put(id, CompletedWith(records[id], resp))
  BY <1>1 DEF Put, SettledAs, Settleable
<1>2. CASE UNCHANGED records /\ err # "nil"
  BY <1>2 DEF Refused
<1> QED
  BY <1>1, <1>2 DEF Complete, NotSettleable

(* A failure is refused, or settles an accepted record with an error.      *)
LEMMA FailCases ==
  ASSUME TypeOK, NEW id \in TaskIDs \cup {BlankID}, NEW taskErr \in Errors, NEW err,
         Fail(id, taskErr, err)
  PROVE  Refused(err) \/ SettledAs(id, FailedWith(records[id], taskErr), err)
<1>1. CASE Settleable(id) /\ err = "nil" /\ Put(id, FailedWith(records[id], taskErr))
  BY <1>1 DEF Put, SettledAs, Settleable
<1>2. CASE UNCHANGED records /\ err # "nil"
  BY <1>2 DEF Refused
<1> QED
  BY <1>1, <1>2 DEF Fail, NotSettleable

(***************************************************************************)
(* Settling an accepted record yields a terminal record of its request.    *)
(***************************************************************************)
LEMMA CompletedRecords ==
  ASSUME TypeOK, NEW id \in DOMAIN records, records[id].status = "accepted",
         NEW resp \in Responses
  PROVE  LET rec == CompletedWith(records[id], resp)
         IN  /\ rec \in CompletedRecord
             /\ rec.request = records[id].request
             /\ rec.response = resp
<1>1. records[id] \in AcceptedRecord
  BY DEF TypeOK, Record, AcceptedRecord, CompletedRecord, FailedRecord
<1> QED
  BY <1>1 DEF CompletedWith, AcceptedRecord, CompletedRecord

(* Failing an accepted record yields a failed record of its request.       *)
LEMMA FailedRecords ==
  ASSUME TypeOK, NEW id \in DOMAIN records, records[id].status = "accepted",
         NEW taskErr \in Errors
  PROVE  LET rec == FailedWith(records[id], taskErr)
         IN  /\ rec \in FailedRecord
             /\ rec.request = records[id].request
             /\ rec.error = taskErr
<1>1. records[id] \in AcceptedRecord
  BY DEF TypeOK, Record, AcceptedRecord, CompletedRecord, FailedRecord
<1> QED
  BY <1>1 DEF FailedWith, AcceptedRecord, FailedRecord

-----------------------------------------------------------------------------
StoreInv == TypeOK /\ GrantedIsStored /\ StoredIsGranted

(* An empty store nobody has called satisfies the invariant.               *)
LEMMA StoreInit == Init => StoreInv
  BY DEF Init, EmptyStore, StoreInv, TypeOK, GrantedIsStored, StoredIsGranted

(* A refused call changes neither the store nor what callers believe.      *)
LEMMA RefusedChangesNothing ==
  ASSUME NEW op, NEW id, NEW arg, NEW err, Refused(err), Note(op, id, arg, err)
  PROVE  UNCHANGED vars
  BY DEF Refused, Note, vars

(* Filing under a free id keeps what was granted before.                   *)
LEMMA FiledInv ==
  ASSUME StoreInv, NEW id, NEW req \in Requests, NEW err,
         Filed(id, req, err), Note("create", id, req, err)
  PROVE  StoreInv'
<1>1. NewRecord(req) \in AcceptedRecord /\ NewRecord(req).request = req
  BY DEF NewRecord, AcceptedRecord
<1>2. /\ granted' = granted \cup {[op |-> "create", id |-> id, arg |-> req]}
      /\ id \in TaskIDs /\ id \notin DOMAIN records
      /\ records' = [t \in DOMAIN records \cup {id} |->
                       IF t = id THEN NewRecord(req) ELSE records[t]]
  BY DEF Filed, Note
<1>3. TypeOK'
  BY <1>1, <1>2 DEF StoreInv, TypeOK, Record, Call
<1>4. GrantedIsStored'
  <2> SUFFICES ASSUME NEW c \in granted'
               PROVE  /\ c.id \in DOMAIN records'
                      /\ c.op = "create"   => records'[c.id].request = c.arg
                      /\ c.op = "complete" => /\ records'[c.id].status = "completed"
                                              /\ records'[c.id].response = c.arg
                      /\ c.op = "fail"     => /\ records'[c.id].status = "failed"
                                              /\ records'[c.id].error = c.arg
    BY DEF GrantedIsStored
  <2>1. CASE c \in granted
    BY <1>2, <2>1 DEF StoreInv, GrantedIsStored
  <2>2. CASE c = [op |-> "create", id |-> id, arg |-> req]
    BY <1>1, <1>2, <2>2
  <2> QED
    BY <1>2, <2>1, <2>2
<1>5. StoredIsGranted'
  <2> SUFFICES ASSUME NEW t \in DOMAIN records'
               PROVE  /\ \E c \in granted' : c.op = "create" /\ c.id = t
                      /\ records'[t].status # "accepted" =>
                           \E c \in granted' : c.op \in {"complete", "fail"} /\ c.id = t
    BY DEF StoredIsGranted
  <2>1. CASE t = id
    <3>1. /\ [op |-> "create", id |-> id, arg |-> req] \in granted'
          /\ records'[t].status = "accepted"
      BY <1>1, <1>2, <2>1 DEF AcceptedRecord
    <3> QED
      BY <2>1, <3>1
  <2>2. CASE t # id
    BY <1>2, <2>2 DEF StoreInv, StoredIsGranted
  <2> QED
    BY <2>1, <2>2
<1> QED
  BY <1>3, <1>4, <1>5 DEF StoreInv

(* Settling an accepted record contradicts no earlier grant: nobody has    *)
(* been told it was settled.                                               *)
LEMMA SettledInv ==
  ASSUME StoreInv, NEW op \in {"complete", "fail"}, NEW id, NEW rec, NEW arg, NEW err,
         SettledAs(id, rec, err), Note(op, id, arg, err),
         rec.request = records[id].request,
         \/ op = "complete" /\ rec \in CompletedRecord /\ rec.response = arg
         \/ op = "fail" /\ rec \in FailedRecord /\ rec.error = arg
  PROVE  StoreInv'
<1>1. /\ granted' = granted \cup {[op |-> op, id |-> id, arg |-> arg]}
      /\ id \in DOMAIN records /\ records[id].status = "accepted"
      /\ records' = [t \in DOMAIN records |-> IF t = id THEN rec ELSE records[t]]
  BY DEF SettledAs, Note
<1>2. TypeOK'
  <2>1. rec \in Record
    BY DEF Record
  <2>2. [op |-> op, id |-> id, arg |-> arg] \in Call
    BY <1>1 DEF Call, CompletedRecord, FailedRecord, StoreInv, TypeOK
  <2> QED
    BY <1>1, <2>1, <2>2 DEF StoreInv, TypeOK
<1>3. GrantedIsStored'
  <2> SUFFICES ASSUME NEW c \in granted'
               PROVE  /\ c.id \in DOMAIN records'
                      /\ c.op = "create"   => records'[c.id].request = c.arg
                      /\ c.op = "complete" => /\ records'[c.id].status = "completed"
                                              /\ records'[c.id].response = c.arg
                      /\ c.op = "fail"     => /\ records'[c.id].status = "failed"
                                              /\ records'[c.id].error = c.arg
    BY DEF GrantedIsStored
  <2>1. CASE c \in granted
    BY <1>1, <2>1 DEF StoreInv, GrantedIsStored
  <2>2. CASE c = [op |-> op, id |-> id, arg |-> arg]
    BY <1>1, <2>2 DEF CompletedRecord, FailedRecord
  <2> QED
    BY <1>1, <2>1, <2>2
<1>4. StoredIsGranted'
  <2> SUFFICES ASSUME NEW t \in DOMAIN records'
               PROVE  /\ \E c \in granted' : c.op = "create" /\ c.id = t
                      /\ records'[t].status # "accepted" =>
                           \E c \in granted' : c.op \in {"complete", "fail"} /\ c.id = t
    BY DEF StoredIsGranted
  <2>1. t \in DOMAIN records /\ \E c \in granted' : c.op = "create" /\ c.id = t
    BY <1>1 DEF StoreInv, StoredIsGranted
  <2>2. CASE t = id
    <3>1. [op |-> op, id |-> id, arg |-> arg] \in granted'
      BY <1>1
    <3> QED
      BY <2>1, <2>2, <3>1
  <2>3. CASE t # id
    BY <1>1, <2>1, <2>3 DEF StoreInv, StoredIsGranted
  <2> QED
    BY <2>1, <2>2, <2>3
<1> QED
  BY <1>2, <1>3, <1>4 DEF StoreInv

(* What a call does, told by the three cases.                              *)
LEMMA StepCases ==
  ASSUME StoreInv, Next
  PROVE  \/ UNCHANGED vars
         \/ \E id \in TaskIDs, req \in Requests :
              Filed(id, req, "nil") /\ Note("create", id, req, "nil")
         \/ \E id \in DOMAIN records, resp \in Responses :
              /\ SettledAs(id, CompletedWith(records[id], resp), "nil")
              /\ Note("complete", id, resp, "nil")
         \/ \E id \in DOMAIN records, taskErr \in Errors :
              /\ SettledAs(id, FailedWith(records[id], taskErr), "nil")
              /\ Note("fail", id, taskErr, "nil")
<1>1. PICK id \in TaskIDs \cup {BlankID} :
        \/ \E req \in Requests : CallCreate(id, req)
        \/ \E resp \in Responses \cup {Nil} : CallComplete(id, resp)
        \/ \E taskErr \in Errors : CallFail(id, taskErr)
  BY DEF Next
<1>2. CASE \E req \in Requests : CallCreate(id, req)
  <2>1. PICK req \in Requests, err \in Results :
          CreateAccepted(id, req, err) /\ Note("create", id, req, err)
    BY <1>2 DEF CallCreate
  <2>2. Refused(err) \/ Filed(id, req, err)
    BY <2>1, CreateCases
  <2> QED
    BY <2>1, <2>2, RefusedChangesNothing DEF Filed
<1>3. CASE \E resp \in Responses \cup {Nil} : CallComplete(id, resp)
  <2>1. PICK resp \in Responses \cup {Nil}, err \in Results :
          Complete(id, resp, err) /\ Note("complete", id, resp, err)
    BY <1>3 DEF CallComplete
  <2>2. \/ Refused(err)
        \/ resp \in Responses /\ SettledAs(id, CompletedWith(records[id], resp), err)
    BY <2>1, CompleteCases DEF StoreInv
  <2> QED
    BY <2>1, <2>2, RefusedChangesNothing DEF SettledAs
<1>4. CASE \E taskErr \in Errors : CallFail(id, taskErr)
  <2>1. PICK taskErr \in Errors, err \in Results :
          Fail(id, taskErr, err) /\ Note("fail", id, taskErr, err)
    BY <1>4 DEF CallFail
  <2>2. Refused(err) \/ SettledAs(id, FailedWith(records[id], taskErr), err)
    BY <2>1, FailCases DEF StoreInv
  <2> QED
    BY <2>1, <2>2, RefusedChangesNothing DEF SettledAs
<1> QED
  BY <1>1, <1>2, <1>3, <1>4

(* The invariant is inductive: every call, refused or granted, keeps it.   *)
LEMMA StoreStep == StoreInv /\ [Next]_vars => StoreInv'
<1> SUFFICES ASSUME StoreInv, [Next]_vars PROVE StoreInv'
  OBVIOUS
<1>1. CASE UNCHANGED vars
  BY <1>1 DEF vars, StoreInv, TypeOK, GrantedIsStored, StoredIsGranted
<1>2. ASSUME NEW id \in TaskIDs, NEW req \in Requests,
             Filed(id, req, "nil"), Note("create", id, req, "nil")
      PROVE  StoreInv'
  BY <1>2, FiledInv
<1>3. ASSUME NEW id \in DOMAIN records, NEW resp \in Responses,
             SettledAs(id, CompletedWith(records[id], resp), "nil"),
             Note("complete", id, resp, "nil")
      PROVE  StoreInv'
  <2> DEFINE rec == CompletedWith(records[id], resp)
  <2>1. records[id].status = "accepted"
    BY <1>3 DEF SettledAs
  <2>2. rec \in CompletedRecord /\ rec.request = records[id].request /\ rec.response = resp
    BY <2>1, CompletedRecords DEF StoreInv
  <2> HIDE DEF rec
  <2>3. SettledAs(id, rec, "nil")
    BY <1>3 DEF rec
  <2> QED
    BY <1>3, <2>2, <2>3, SettledInv
<1>4. ASSUME NEW id \in DOMAIN records, NEW taskErr \in Errors,
             SettledAs(id, FailedWith(records[id], taskErr), "nil"),
             Note("fail", id, taskErr, "nil")
      PROVE  StoreInv'
  <2> DEFINE rec == FailedWith(records[id], taskErr)
  <2>1. records[id].status = "accepted"
    BY <1>4 DEF SettledAs
  <2>2. rec \in FailedRecord /\ rec.request = records[id].request /\ rec.error = taskErr
    BY <2>1, FailedRecords DEF StoreInv
  <2> HIDE DEF rec
  <2>3. SettledAs(id, rec, "nil")
    BY <1>4 DEF rec
  <2> QED
    BY <1>4, <2>2, <2>3, SettledInv
<1> QED
  BY <1>1, <1>2, <1>3, <1>4, StepCases

-----------------------------------------------------------------------------
(* The store and its callers agree in every reachable state.               *)
THEOREM StoreInvariance == Spec => []StoreInv
  BY StoreInit, StoreStep, PTL DEF Spec

(* The store holds well-formed records only: a record is accepted and      *)
(* open, completed with a response, or failed with an error.               *)
THEOREM StoreTypeCorrect == Spec => []TypeOK
BY StoreInvariance, PTL DEF StoreInv

(***************************************************************************)
(* What CreateAccepted, Complete and Fail granted is what the store holds. *)
(***************************************************************************)
THEOREM GrantsHold == Spec => []GrantedIsStored
<1>1. StoreInv => GrantedIsStored
  BY DEF StoreInv
<1> QED
  BY <1>1, StoreInvariance, PTL

(* Every record and every terminal status was granted to some caller.      *)
THEOREM OnlyGrants == Spec => []StoredIsGranted
<1>1. StoreInv => StoredIsGranted
  BY DEF StoreInv
<1> QED
  BY <1>1, StoreInvariance, PTL

(***************************************************************************)
(* Records never vanish or change hands, and terminal ones never change.   *)
(***************************************************************************)
THEOREM HistoryHolds == Spec => TaskHistory
<1>1. StoreInv /\ [Next]_vars =>
        [\A t \in DOMAIN records :
           /\ t \in DOMAIN records'
           /\ records'[t].request = records[t].request
           /\ records[t].status # "accepted" => records'[t] = records[t]]_records
  <2> SUFFICES ASSUME StoreInv, Next, NEW t \in DOMAIN records
               PROVE  /\ t \in DOMAIN records'
                      /\ records'[t].request = records[t].request
                      /\ records[t].status # "accepted" => records'[t] = records[t]
    BY DEF vars
  <2>1. CASE UNCHANGED vars
    BY <2>1 DEF vars
  <2>2. CASE \E id \in TaskIDs, req \in Requests : Filed(id, req, "nil")
    BY <2>2 DEF Filed
  <2>3. ASSUME NEW id \in DOMAIN records, NEW rec,
               rec.request = records[id].request, SettledAs(id, rec, "nil")
        PROVE  /\ t \in DOMAIN records'
               /\ records'[t].request = records[t].request
               /\ records[t].status # "accepted" => records'[t] = records[t]
    BY <2>3 DEF SettledAs
  <2>4. CASE \E id \in DOMAIN records, resp \in Responses :
               SettledAs(id, CompletedWith(records[id], resp), "nil")
    BY <2>3, <2>4, CompletedRecords DEF SettledAs, StoreInv
  <2>5. CASE \E id \in DOMAIN records, taskErr \in Errors :
               SettledAs(id, FailedWith(records[id], taskErr), "nil")
    BY <2>3, <2>5, FailedRecords DEF SettledAs, StoreInv
  <2> QED
    BY <2>1, <2>2, <2>4, <2>5, StepCases
<1> QED
  BY <1>1, StoreInvariance, PTL DEF Spec, TaskHistory
=============================================================================
