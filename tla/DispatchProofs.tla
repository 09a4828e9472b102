---------------------------- MODULE DispatchProofs ----------------------------
(***************************************************************************)
(* Proofs about the dispatcher, for any set of requests, any assignment of *)
(* task ids and any backend outcomes.                                      *)
(***************************************************************************)
EXTENDS Dispatch, TLAPS

USE DispatchConstants DEF TaskIDs, Waiting, Branches, Answered

-----------------------------------------------------------------------------
(* The inductive invariant, by the piece of the state each part is about.  *)

(* A task id is chosen before anything is done with it.                    *)
NamedHasID ==
  \A r \in Requests :
    pc[r] \in {"named", "handoff", "accepted", "rejected"} => taskID[r] \in TaskIDs

(* A storer and the record of its call come and stay together.             *)
StorerOwnsRecord ==
  \A r \in Requests :
    storer[r] # "none" =>
      /\ pc[r] \in {"handoff", "accepted"}
      /\ taskID[r] \in DOMAIN records
      /\ records[taskID[r]].request = r
      /\ storer[r] = "waiting" <=> records[taskID[r]].status = "accepted"

RecordHasStorer ==
  \A t \in DOMAIN records :
    /\ storer[records[t].request] # "none"
    /\ taskID[records[t].request] = t

HandoffHasStorer ==
  \A r \in Requests :
    /\ pc[r] = "handoff" => HasStore
    /\ HasStore /\ pc[r] \in {"handoff", "accepted"} => storer[r] # "none"

(* The backend, its channel and its context.                               *)
BackendProgress ==
  \A r \in Requests :
    /\ pc[r] = "idle" <=> backend[r] = "none"
    /\ backend[r] \in {"returned", "done"} => outcome[r] # Nil
    /\ result[r] # Nil => backend[r] = "done" /\ result[r] = outcome[r]
    /\ storer[r] = "done" => backend[r] = "done"

DetachedContext ==
  \A r \in Requests :
    /\ invokeDone[r] => backend[r] = "done" \/ pc[r] \in {"canceled", "rejected"}
    /\ outcome[r] = "canceled" => pc[r] \in {"canceled", "rejected"}

StartedIsAccepted == \A t \in started : pc[t.request] = "accepted"

IInv ==
  /\ TypeOK
  /\ NamedHasID
  /\ StorerOwnsRecord
  /\ RecordHasStorer
  /\ HandoffHasStorer
  /\ BackendProgress
  /\ DetachedContext
  /\ StartedIsAccepted
  /\ SettledWithOwnResult

-----------------------------------------------------------------------------
(* What the operations of the task store do to the records.                *)

(***************************************************************************)
(* CreateAccepted either refuses and changes nothing, or files a fresh     *)
(* record under an id that was free and leaves the others alone.           *)
(***************************************************************************)
LEMMA CreateShape ==
  ASSUME NEW id \in TaskIDs, NEW r \in Requests, NEW err,
         Store!CreateAccepted(id, r, err)
  PROVE  \/ /\ err # "nil"
            /\ records' = records
         \/ /\ err = "nil"
            /\ id \notin DOMAIN records
            /\ records' = [t \in DOMAIN records \cup {id} |->
                             IF t = id THEN Store!NewRecord(r) ELSE records[t]]
  BY DEF Store!CreateAccepted, Store!Put

(***************************************************************************)
(* Settling an accepted record of the store changes that record only: its  *)
(* request stays, its status becomes terminal, its response or error is    *)
(* the one given.                                                          *)
(***************************************************************************)
LEMMA CompleteShape ==
  ASSUME NEW id \in DOMAIN records, id \in TaskIDs,
         records[id].status = "accepted",
         NEW resp \in Responses, NEW err,
         Store!Complete(id, resp, err)
  PROVE  records' = [t \in DOMAIN records |->
                       IF t = id THEN Store!CompletedWith(records[id], resp)
                                 ELSE records[t]]
  BY DEF Store!Complete, Store!NotSettleable, Store!Put

(* Failing an accepted record changes that record only, in the same way.   *)
LEMMA FailShape ==
  ASSUME NEW id \in DOMAIN records, id \in TaskIDs,
         records[id].status = "accepted",
         NEW taskErr, NEW err,
         Store!Fail(id, taskErr, err)
  PROVE  records' = [t \in DOMAIN records |->
                       IF t = id THEN Store!FailedWith(records[id], taskErr)
                                 ELSE records[t]]
  BY DEF Store!Fail, Store!NotSettleable, Store!Put

(* Every record is some request's.                                         *)
LEMMA RecordOfRequest ==
  ASSUME IInv, NEW t \in DOMAIN records
  PROVE  records[t].request \in Requests
  BY DEF IInv, TypeOK, Store!Record, Store!AcceptedRecord,
         Store!CompletedRecord, Store!FailedRecord

-----------------------------------------------------------------------------
(***************************************************************************)
(* Before the first call nothing is named, stored or started.              *)
(***************************************************************************)
LEMMA InitInv == Init => IInv
<1> SUFFICES ASSUME Init PROVE IInv
  OBVIOUS
<1> USE DEF Init
<1>1. TypeOK
  BY DEF TypeOK, Store!EmptyStore
<1>2. NamedHasID /\ StorerOwnsRecord /\ HandoffHasStorer
  BY DEF NamedHasID, StorerOwnsRecord, HandoffHasStorer
<1>3. RecordHasStorer /\ SettledWithOwnResult /\ StartedIsAccepted
  BY DEF RecordHasStorer, SettledWithOwnResult, StartedIsAccepted,
         Store!EmptyStore
<1>4. BackendProgress /\ DetachedContext
  BY DEF BackendProgress, DetachedContext, Failures, FailureCode
<1> QED
  BY <1>1, <1>2, <1>3, <1>4 DEF IInv

(***************************************************************************)
(* A call that starts its backend disturbs only the backend's own part.    *)
(***************************************************************************)
LEMMA InvokeInv ==
  ASSUME IInv, NEW r \in Requests, Invoke(r)
  PROVE  IInv'
<1> USE DEF Invoke, IInv, TypeOK, invokeVars, backendVars, eventVars, taskVars
<1>1. TypeOK'
  OBVIOUS
<1>2. NamedHasID' /\ StorerOwnsRecord' /\ HandoffHasStorer'
  BY DEF NamedHasID, StorerOwnsRecord, HandoffHasStorer
<1>3. RecordHasStorer' /\ SettledWithOwnResult'
  BY DEF RecordHasStorer, SettledWithOwnResult
<1>4. StartedIsAccepted'
  BY DEF StartedIsAccepted
<1>5. BackendProgress' /\ DetachedContext'
  BY DEF BackendProgress, DetachedContext
<1> QED
  BY <1>1, <1>2, <1>3, <1>4, <1>5

(***************************************************************************)
(* A caller that leaves wakes a parked call at most: invokeCtx is not its  *)
(* context.                                                                *)
(***************************************************************************)
LEMMA CallerGoneInv ==
  ASSUME IInv, NEW r \in Requests, CallerGone(r)
  PROVE  IInv'
<1> USE DEF CallerGone, Wake, IInv, TypeOK, invokeVars, backendVars, eventVars, taskVars
<1>1. TypeOK'
  OBVIOUS
<1>2. NamedHasID' /\ StorerOwnsRecord' /\ HandoffHasStorer'
  BY DEF NamedHasID, StorerOwnsRecord, HandoffHasStorer
<1>3. RecordHasStorer' /\ SettledWithOwnResult'
  BY DEF RecordHasStorer, SettledWithOwnResult
<1>4. StartedIsAccepted'
  BY DEF StartedIsAccepted
<1>5. BackendProgress' /\ DetachedContext'
  BY DEF BackendProgress, DetachedContext
<1> QED
  BY <1>1, <1>2, <1>3, <1>4, <1>5

(***************************************************************************)
(* A timer wakes a parked call at most.                                    *)
(***************************************************************************)
LEMMA TimerFiresInv ==
  ASSUME IInv, NEW r \in Requests, TimerFires(r)
  PROVE  IInv'
<1> USE DEF TimerFires, Wake, IInv, TypeOK, invokeVars, backendVars, eventVars, taskVars
<1>1. TypeOK'
  OBVIOUS
<1>2. NamedHasID' /\ StorerOwnsRecord' /\ HandoffHasStorer'
  BY DEF NamedHasID, StorerOwnsRecord, HandoffHasStorer
<1>3. RecordHasStorer' /\ SettledWithOwnResult'
  BY DEF RecordHasStorer, SettledWithOwnResult
<1>4. StartedIsAccepted'
  BY DEF StartedIsAccepted
<1>5. BackendProgress' /\ DetachedContext'
  BY DEF BackendProgress, DetachedContext
<1> QED
  BY <1>1, <1>2, <1>3, <1>4, <1>5

(***************************************************************************)
(* The outcome is fixed once; no record can be settled before it.          *)
(***************************************************************************)
LEMMA BackendReturnsInv ==
  ASSUME IInv, NEW r \in Requests, BackendReturns(r)
  PROVE  IInv'
<1> USE DEF BackendReturns, IInv, TypeOK, invokeVars, backendVars, eventVars, taskVars
<1>1. TypeOK'
  OBVIOUS
<1>2. NamedHasID' /\ StorerOwnsRecord' /\ HandoffHasStorer'
  BY DEF NamedHasID, StorerOwnsRecord, HandoffHasStorer
<1>3. RecordHasStorer' /\ SettledWithOwnResult'
  BY RecordOfRequest
     DEF RecordHasStorer, SettledWithOwnResult, StorerOwnsRecord, BackendProgress
<1>4. StartedIsAccepted'
  BY DEF StartedIsAccepted
<1>5. BackendProgress' /\ DetachedContext'
  BY DEF BackendProgress, DetachedContext
<1> QED
  BY <1>1, <1>2, <1>3, <1>4, <1>5

(***************************************************************************)
(* The result in the channel is the backend's outcome.                     *)
(***************************************************************************)
LEMMA SendResultInv ==
  ASSUME IInv, NEW r \in Requests, SendResult(r)
  PROVE  IInv'
<1> USE DEF SendResult, Wake, IInv, TypeOK, invokeVars, backendVars, eventVars, taskVars
<1>1. TypeOK'
  OBVIOUS
<1>2. NamedHasID' /\ StorerOwnsRecord' /\ HandoffHasStorer'
  BY DEF NamedHasID, StorerOwnsRecord, HandoffHasStorer
<1>3. RecordHasStorer' /\ SettledWithOwnResult'
  BY DEF RecordHasStorer, SettledWithOwnResult
<1>4. StartedIsAccepted'
  BY DEF StartedIsAccepted
<1>5. BackendProgress' /\ DetachedContext'
  BY DEF BackendProgress, DetachedContext
<1> QED
  BY <1>1, <1>2, <1>3, <1>4, <1>5

(***************************************************************************)
(* Choosing a case moves the calling goroutine only.                       *)
(***************************************************************************)
LEMMA SelectInv ==
  ASSUME IInv, NEW r \in Requests, Select(r)
  PROVE  IInv'
<1>0. PICK b \in Branches \cup {"parked"} : pc' = [pc EXCEPT ![r] = b]
  BY DEF Select, Ready
<1> USE <1>0 DEF Select, IInv, TypeOK, invokeVars, backendVars, eventVars, taskVars
<1>1. TypeOK'
  OBVIOUS
<1>2. NamedHasID' /\ StorerOwnsRecord' /\ HandoffHasStorer'
  BY DEF NamedHasID, StorerOwnsRecord, HandoffHasStorer
<1>3. RecordHasStorer' /\ SettledWithOwnResult'
  BY DEF RecordHasStorer, SettledWithOwnResult
<1>4. StartedIsAccepted'
  BY DEF StartedIsAccepted
<1>5. BackendProgress' /\ DetachedContext'
  BY DEF BackendProgress, DetachedContext
<1> QED
  BY <1>1, <1>2, <1>3, <1>4, <1>5

(***************************************************************************)
(* A call that takes the result leaves no storer to wait for it.           *)
(***************************************************************************)
LEMMA ReturnResultInv ==
  ASSUME IInv, NEW r \in Requests, ReturnResult(r)
  PROVE  IInv'
<1> USE DEF ReturnResult, IInv, TypeOK, invokeVars, backendVars, eventVars, taskVars
<1>1. TypeOK'
  OBVIOUS
<1>2. NamedHasID' /\ StorerOwnsRecord' /\ HandoffHasStorer'
  BY DEF NamedHasID, StorerOwnsRecord, HandoffHasStorer
<1>3. RecordHasStorer' /\ SettledWithOwnResult'
  BY DEF RecordHasStorer, SettledWithOwnResult
<1>4. StartedIsAccepted'
  BY DEF StartedIsAccepted
<1>5. BackendProgress' /\ DetachedContext'
  BY DEF BackendProgress, DetachedContext
<1> QED
  BY <1>1, <1>2, <1>3, <1>4, <1>5

(***************************************************************************)
(* Only a call without a task cancels its backend.                         *)
(***************************************************************************)
LEMMA ReturnCanceledInv ==
  ASSUME IInv, NEW r \in Requests, ReturnCanceled(r)
  PROVE  IInv'
<1> USE DEF ReturnCanceled, IInv, TypeOK, invokeVars, backendVars, eventVars, taskVars
<1>1. TypeOK'
  OBVIOUS
<1>2. NamedHasID' /\ StorerOwnsRecord' /\ HandoffHasStorer'
  BY DEF NamedHasID, StorerOwnsRecord, HandoffHasStorer
<1>3. RecordHasStorer' /\ SettledWithOwnResult'
  BY DEF RecordHasStorer, SettledWithOwnResult
<1>4. StartedIsAccepted'
  BY DEF StartedIsAccepted
<1>5. BackendProgress' /\ DetachedContext'
  BY DEF BackendProgress, DetachedContext
<1> QED
  BY <1>1, <1>2, <1>3, <1>4, <1>5

(***************************************************************************)
(* A task id is configured or generated from a natural number.             *)
(***************************************************************************)
LEMMA NewTaskIDInv ==
  ASSUME IInv, NEW r \in Requests, NewTaskID(r)
  PROVE  IInv'
<1> USE DEF NewTaskID, DefaultTaskID, IInv, TypeOK, invokeVars, backendVars, eventVars, taskVars
<1>1. TypeOK'
  OBVIOUS
<1>2. NamedHasID' /\ StorerOwnsRecord' /\ HandoffHasStorer'
  BY DEF NamedHasID, StorerOwnsRecord, HandoffHasStorer
<1>3. RecordHasStorer' /\ SettledWithOwnResult'
  BY RecordOfRequest DEF RecordHasStorer, SettledWithOwnResult, StorerOwnsRecord
<1>4. StartedIsAccepted'
  BY DEF StartedIsAccepted
<1>5. BackendProgress' /\ DetachedContext'
  BY DEF BackendProgress, DetachedContext
<1> QED
  BY <1>1, <1>2, <1>3, <1>4, <1>5

(***************************************************************************)
(* A call is accepted after its record and its storer exist.               *)
(***************************************************************************)
LEMMA ReturnAcceptedInv ==
  ASSUME IInv, NEW r \in Requests, ReturnAccepted(r)
  PROVE  IInv'
<1> USE DEF ReturnAccepted, IInv, TypeOK, invokeVars, backendVars, eventVars, taskVars
<1>1. TypeOK'
  <2>1. taskID[r] \in TaskIDs
    BY DEF NamedHasID
  <2>2. \A t \in started' : t.id \in TaskIDs /\ t.request \in Requests
    BY <2>1
  <2> QED
    BY <2>2
<1>2. NamedHasID' /\ StorerOwnsRecord' /\ HandoffHasStorer'
  BY DEF NamedHasID, StorerOwnsRecord, HandoffHasStorer
<1>3. RecordHasStorer' /\ SettledWithOwnResult'
  BY DEF RecordHasStorer, SettledWithOwnResult
<1>4. StartedIsAccepted'
  BY DEF StartedIsAccepted
<1>5. BackendProgress' /\ DetachedContext'
  BY DEF BackendProgress, DetachedContext
<1> QED
  BY <1>1, <1>2, <1>3, <1>4, <1>5

-----------------------------------------------------------------------------
(***************************************************************************)
(* CreateTask.  If the id is free a fresh record of this call appears with *)
(* a storer to wait for its result; if it is not, the store stays as it is *)
(* and the call ends without a storer.                                     *)
(***************************************************************************)
LEMMA CreateTaskInv ==
  ASSUME IInv, NEW r \in Requests, CreateTask(r)
  PROVE  IInv'
<1> USE DEF IInv, TypeOK, eventVars
<1>1. /\ pc[r] = "named" /\ HasStore
      /\ UNCHANGED <<taskID, started, taskCounter, backend, outcome, result,
                     ctxDone, fired>>
  BY DEF CreateTask
<1>2. storer[r] = "none"
  BY <1>1 DEF StorerOwnsRecord
<1>3. taskID[r] \in TaskIDs
  BY <1>1 DEF NamedHasID
<1>4. PICK err \in Store!Results :
        /\ Store!CreateAccepted(taskID[r], r, err)
        /\ \/ /\ err = "nil"
              /\ pc' = [pc EXCEPT ![r] = "handoff"]
              /\ storer' = [storer EXCEPT ![r] = "waiting"]
              /\ UNCHANGED invokeDone
           \/ /\ err # "nil"
              /\ pc' = [pc EXCEPT ![r] = "rejected"]
              /\ invokeDone' = [invokeDone EXCEPT ![r] = TRUE]
              /\ UNCHANGED storer
  BY DEF CreateTask
<1>5. \/ /\ err # "nil"
         /\ records' = records
      \/ /\ err = "nil"
         /\ taskID[r] \notin DOMAIN records
         /\ records' = [t \in DOMAIN records \cup {taskID[r]} |->
                          IF t = taskID[r] THEN Store!NewRecord(r) ELSE records[t]]
  <2> HIDE DEF IInv, TypeOK
  <2>1. Store!CreateAccepted(taskID[r], r, err)
    BY <1>4
  <2> QED
    BY <1>3, <2>1, CreateShape
<1>6. CASE err # "nil"
  <2>1. records' = records
    BY <1>5, <1>6
  <2>2. /\ pc' = [pc EXCEPT ![r] = "rejected"]
        /\ invokeDone' = [invokeDone EXCEPT ![r] = TRUE]
        /\ storer' = storer
    BY <1>4, <1>6
  <2>3. TypeOK'
    BY <1>1, <2>1, <2>2
  <2>4. NamedHasID' /\ StorerOwnsRecord' /\ HandoffHasStorer'
    BY <1>1, <1>2, <1>3, <2>1, <2>2
       DEF NamedHasID, StorerOwnsRecord, HandoffHasStorer
  <2>5. RecordHasStorer' /\ SettledWithOwnResult' /\ StartedIsAccepted'
    BY <1>1, <2>1, <2>2
       DEF RecordHasStorer, SettledWithOwnResult, StartedIsAccepted
  <2>6. BackendProgress' /\ DetachedContext'
    BY <1>1, <2>1, <2>2 DEF BackendProgress, DetachedContext
  <2> QED
    BY <2>3, <2>4, <2>5, <2>6
<1>7. CASE err = "nil"
  <2>1. /\ taskID[r] \notin DOMAIN records
        /\ records' = [t \in DOMAIN records \cup {taskID[r]} |->
                         IF t = taskID[r] THEN Store!NewRecord(r) ELSE records[t]]
    BY <1>5, <1>7
  <2>2. /\ pc' = [pc EXCEPT ![r] = "handoff"]
        /\ storer' = [storer EXCEPT ![r] = "waiting"]
        /\ invokeDone' = invokeDone
    BY <1>4, <1>7
  <2>3. /\ Store!NewRecord(r) \in Store!Record
        /\ Store!NewRecord(r).request = r
        /\ Store!NewRecord(r).status = "accepted"
    BY DEF Store!NewRecord, Store!Record, Store!AcceptedRecord
  <2>4. \A q \in Requests : storer[q] # "none" => q # r /\ taskID[q] # taskID[r]
    BY <1>2, <2>1 DEF StorerOwnsRecord
  <2>5. TypeOK'
    BY <1>1, <1>3, <2>1, <2>2, <2>3
  <2>6. NamedHasID' /\ HandoffHasStorer'
    BY <1>1, <1>3, <2>2 DEF NamedHasID, HandoffHasStorer
  <2>7. StorerOwnsRecord'
    BY <1>1, <2>1, <2>2, <2>3, <2>4 DEF StorerOwnsRecord
  <2>8. RecordHasStorer'
    BY <1>1, <2>1, <2>2, <2>3, RecordOfRequest DEF RecordHasStorer
  <2>9. SettledWithOwnResult'
    BY <1>1, <2>1, <2>3 DEF SettledWithOwnResult
  <2>10. StartedIsAccepted'
    BY <1>1, <2>2 DEF StartedIsAccepted
  <2>11. BackendProgress' /\ DetachedContext'
    BY <1>1, <2>2 DEF BackendProgress, DetachedContext
  <2> QED
    BY <2>5, <2>6, <2>7, <2>8, <2>9, <2>10, <2>11
<1> QED
  BY <1>6, <1>7

(***************************************************************************)
(* StoreResult settles the storer's own record, which is still accepted,   *)
(* with the outcome that came through the call's own channel.              *)
(***************************************************************************)
LEMMA StoreResultInv ==
  ASSUME IInv, NEW r \in Requests, StoreResult(r)
  PROVE  IInv'
<1> USE DEF IInv, TypeOK, eventVars, invokeVars
<1> DEFINE id == taskID[r]
           o  == outcome[r]
<1>1. /\ storer[r] = "waiting" /\ result[r] # Nil
      /\ result' = [result EXCEPT ![r] = Nil]
      /\ storer' = [storer EXCEPT ![r] = "done"]
      /\ UNCHANGED <<backend, outcome, invokeDone, pc, taskID, started,
                     taskCounter, ctxDone, fired>>
  BY DEF StoreResult
<1>2. /\ id \in DOMAIN records /\ id \in TaskIDs
      /\ records[id].status = "accepted"
      /\ records[id].request = r
  BY <1>1 DEF StorerOwnsRecord
<1>3. result[r] = o /\ backend[r] = "done"
  BY <1>1 DEF BackendProgress
<1>4. PICK rec :
        /\ rec \in Store!Record
        /\ rec.request = r
        /\ rec.status \in {"completed", "failed"}
        /\ \/ o \in Responses /\ rec.response = o
           \/ o \in Failures /\ rec.error = FailureCode[o]
        /\ records' = [t \in DOMAIN records |-> IF t = id THEN rec ELSE records[t]]
  <2>1. records[id] \in Store!AcceptedRecord
    BY <1>2 DEF Store!Record, Store!AcceptedRecord, Store!CompletedRecord,
                Store!FailedRecord
  <2>2. PICK err :
          \/ o \in Failures  /\ Store!Fail(id, FailureCode[o], err)
          \/ o \in Responses /\ Store!Complete(id, o, err)
    BY <1>3 DEF StoreResult, Settle
  <2>3. CASE o \in Failures /\ Store!Fail(id, FailureCode[o], err)
    <3>1. records' = [t \in DOMAIN records |->
                        IF t = id THEN Store!FailedWith(records[id], FailureCode[o])
                                  ELSE records[t]]
      BY <1>2, <2>3, FailShape
    <3>2. FailureCode[o] \in TaskErrors
      BY <2>3 DEF TaskErrors
    <3>3. LET rec == Store!FailedWith(records[id], FailureCode[o])
          IN  /\ rec \in Store!FailedRecord
              /\ rec.request = records[id].request
              /\ rec.status = "failed"
              /\ rec.error = FailureCode[o]
      BY <2>1, <3>2 DEF Store!FailedWith, Store!AcceptedRecord, Store!FailedRecord
    <3> QED
      BY <1>2, <2>3, <3>1, <3>3 DEF Store!Record
  <2>4. CASE o \in Responses /\ Store!Complete(id, o, err)
    <3>1. records' = [t \in DOMAIN records |->
                        IF t = id THEN Store!CompletedWith(records[id], o)
                                  ELSE records[t]]
      BY <1>2, <2>4, CompleteShape
    <3>2. LET rec == Store!CompletedWith(records[id], o)
          IN  /\ rec \in Store!CompletedRecord
              /\ rec.request = records[id].request
              /\ rec.status = "completed"
              /\ rec.response = o
      BY <2>1, <2>4 DEF Store!CompletedWith, Store!AcceptedRecord,
                        Store!CompletedRecord
    <3> QED
      BY <1>2, <2>4, <3>1, <3>2 DEF Store!Record
  <2> QED
    BY <2>2, <2>3, <2>4
<1>5. TypeOK'
  BY <1>1, <1>4
<1>6. NamedHasID' /\ HandoffHasStorer'
  BY <1>1 DEF NamedHasID, HandoffHasStorer
<1>7. StorerOwnsRecord'
  BY <1>1, <1>2, <1>4 DEF StorerOwnsRecord
<1>8. RecordHasStorer'
  BY <1>1, <1>2, <1>4, RecordOfRequest DEF RecordHasStorer
<1>9. SettledWithOwnResult'
  BY <1>1, <1>4 DEF SettledWithOwnResult
<1>10. StartedIsAccepted' /\ DetachedContext'
  BY <1>1 DEF StartedIsAccepted, DetachedContext
<1>11. BackendProgress'
  BY <1>1, <1>3 DEF BackendProgress
<1> QED
  BY <1>5, <1>6, <1>7, <1>8, <1>9, <1>10, <1>11
-----------------------------------------------------------------------------
(***************************************************************************)
(* The invariant is inductive: every step of every actor keeps it.         *)
(***************************************************************************)
LEMMA StepInv == IInv /\ [Next]_vars => IInv'
<1> SUFFICES ASSUME IInv, [Next]_vars PROVE IInv'
  OBVIOUS
<1>1. CASE UNCHANGED vars
  BY <1>1 DEF vars, invokeVars, backendVars, eventVars, taskVars, IInv, TypeOK,
              NamedHasID, StorerOwnsRecord, RecordHasStorer, HandoffHasStorer,
              BackendProgress, DetachedContext, StartedIsAccepted,
              SettledWithOwnResult
<1>2. CASE Idle
  BY <1>1, <1>2 DEF Idle
<1>3. CASE \E r \in Requests :
             \/ Invoke(r) \/ Proceed(r)
             \/ CallerGone(r) \/ TimerFires(r) \/ BackendReturns(r)
             \/ SendResult(r) \/ StoreResult(r)
  BY <1>3, InvokeInv, SelectInv, ReturnResultInv, ReturnCanceledInv,
     NewTaskIDInv, CreateTaskInv, ReturnAcceptedInv, CallerGoneInv,
     TimerFiresInv, BackendReturnsInv, SendResultInv, StoreResultInv
     DEF Proceed
<1> QED
  BY <1>1, <1>2, <1>3 DEF Next

(* IInv holds in every state the dispatcher reaches.                       *)
THEOREM Invariance == Spec => []IInv
  BY InitInv, StepInv, PTL DEF Spec

-----------------------------------------------------------------------------
(* Every variable keeps the type of the Go value it stands for.            *)
THEOREM TypeCorrect == Spec => []TypeOK
<1>1. IInv => TypeOK
  BY DEF IInv
<1> QED
  BY <1>1, Invariance, PTL

(***************************************************************************)
(* An accepted call's record is in the store, under the id the caller was  *)
(* given and belonging to that call, whatever the ids of the others are.   *)
(***************************************************************************)
THEOREM AcceptedKept == Spec => []AcceptedIsKept
<1>1. IInv => AcceptedIsKept
  BY DEF IInv, HandoffHasStorer, StorerOwnsRecord, AcceptedIsKept
<1> QED
  BY <1>1, Invariance, PTL

(***************************************************************************)
(* A settled record holds the outcome of its own request's backend call.   *)
(***************************************************************************)
THEOREM OwnResultStored == Spec => []SettledWithOwnResult
<1>1. IInv => SettledWithOwnResult
  BY DEF IInv
<1> QED
  BY <1>1, Invariance, PTL

(***************************************************************************)
(* No caller takes accepted work down: its context is open until the       *)
(* backend is done and no record fails with context_canceled.              *)
(***************************************************************************)
THEOREM RunsDetached == Spec => []AcceptedRunsDetached
<1>1. ASSUME IInv PROVE AcceptedRunsDetached
  <2> USE <1>1 DEF IInv
  <2>1. \A r \in Requests :
          pc[r] \in {"handoff", "accepted"} /\ invokeDone[r] => backend[r] = "done"
    BY DEF DetachedContext
  <2>2. ASSUME NEW t \in DOMAIN records PROVE records[t].error # "context_canceled"
    <3> DEFINE o == outcome[records[t].request]
    <3>1. records[t].request \in Requests
      BY RecordOfRequest
    <3>2. o # "canceled"
      BY <3>1 DEF RecordHasStorer, StorerOwnsRecord, DetachedContext
    <3>3. CASE records[t].error = Nil
      <4>1. Nil # "context_canceled"
        BY DEF TaskErrors, Failures, FailureCode
      <4> QED
        BY <3>3, <4>1
    <3>4. CASE records[t].error # Nil
      <4>1. /\ records[t].status = "failed"
            /\ records[t].response = Nil
        BY <3>4 DEF TypeOK, Store!Record, Store!AcceptedRecord,
                    Store!CompletedRecord, Store!FailedRecord
      <4>2. o \in Failures /\ records[t].error = FailureCode[o]
        BY <4>1 DEF SettledWithOwnResult
      <4> QED
        BY <3>2, <4>2 DEF Failures, FailureCode
    <3> QED
      BY <3>3, <3>4
  <2> QED
    BY <2>1, <2>2 DEF AcceptedRunsDetached
<1> QED
  BY <1>1, Invariance, PTL

(***************************************************************************)
(* A call not answered "accepted" leaves no record, storer or task.        *)
(***************************************************************************)
THEOREM NoOrphan == Spec => []NoOrphanTask
<1>1. ASSUME IInv PROVE NoOrphanTask
  BY <1>1, RecordOfRequest
     DEF IInv, NoOrphanTask, StorerOwnsRecord, RecordHasStorer, StartedIsAccepted
<1> QED
  BY <1>1, Invariance, PTL
-----------------------------------------------------------------------------
(* The refinement: what each step does to the abstract call and task.      *)

callBar == [r \in Requests |-> CallOf(r)]
taskBar == [r \in Requests |-> TaskOf(r)]

(***************************************************************************)
(* A step that touches neither the task ids, the storers nor the records   *)
(* leaves every abstract task alone.                                       *)
(***************************************************************************)
LEMMA TasksUnchanged ==
  ASSUME UNCHANGED <<taskID, storer, records>>
  PROVE  taskBar' = taskBar
  BY DEF taskBar, TaskOf

(***************************************************************************)
(* A step of Invoke that moves pc[r] alone changes that abstract call only.*)
(***************************************************************************)
LEMMA CallMoves ==
  ASSUME IInv, NEW r \in Requests, NEW to, pc' = [pc EXCEPT ![r] = to]
  PROVE  /\ callBar' = [callBar EXCEPT ![r] = CallOf(r)']
         /\ CallOf(r)' = IF to = "idle" THEN "none"
                         ELSE IF to \in Answered THEN to ELSE "open"
<1>1. DOMAIN pc = Requests
  BY DEF IInv, TypeOK
<1>2. pc'[r] = to /\ \A q \in Requests \ {r} : pc'[q] = pc[q]
  BY <1>1
<1>3. \A q \in Requests \ {r} : CallOf(q)' = CallOf(q)
  BY <1>2 DEF CallOf
<1>4. callBar' = [callBar EXCEPT ![r] = CallOf(r)']
  BY <1>3 DEF callBar
<1>5. CallOf(r)' = IF to = "idle" THEN "none"
                   ELSE IF to \in Answered THEN to ELSE "open"
  BY <1>2 DEF CallOf
<1> QED
  BY <1>4, <1>5

(* Waking a parked call is invisible.                                      *)
LEMMA WakeInvisible ==
  ASSUME IInv, NEW r \in Requests, NEW b \in Branches, Wake(r, b)
  PROVE  callBar' = callBar
  BY DEF callBar, CallOf, IInv, TypeOK, Wake

(***************************************************************************)
(* Two calls with tasks have different task ids.                           *)
(***************************************************************************)
LEMMA DistinctTasks ==
  ASSUME IInv, NEW r \in Requests, NEW q \in Requests, q # r,
         storer[q] # "none", taskID[r] = taskID[q]
  PROVE  storer[r] = "none"
  BY DEF IInv, StorerOwnsRecord

(* Every step is a step of TaskLifecycle or leaves call and task alone.    *)
LEMMA StepRefines ==
  IInv /\ [Next]_vars => [Lifecycle!Next]_<<callBar, taskBar>>
<1> SUFFICES ASSUME IInv, [Next]_vars
             PROVE  [Lifecycle!Next]_<<callBar, taskBar>>
  OBVIOUS
<1> USE DEF invokeVars, backendVars, eventVars, taskVars
<1>1. CASE UNCHANGED vars \/ Idle
  BY <1>1, TasksUnchanged DEF Idle, vars, callBar, CallOf
<1>2. ASSUME NEW r \in Requests,
             CallerGone(r) \/ TimerFires(r) \/ SendResult(r) \/ BackendReturns(r)
      PROVE  UNCHANGED <<callBar, taskBar>>
  <2>1. CASE BackendReturns(r)
    BY <2>1, TasksUnchanged DEF BackendReturns, callBar, CallOf
  <2>2. CASE CallerGone(r)
    BY <2>2, TasksUnchanged, WakeInvisible DEF CallerGone
  <2>3. CASE TimerFires(r)
    BY <2>3, TasksUnchanged, WakeInvisible DEF TimerFires
  <2>4. CASE SendResult(r)
    BY <2>4, TasksUnchanged, WakeInvisible DEF SendResult
  <2> QED
    BY <1>2, <2>1, <2>2, <2>3, <2>4
<1>3. ASSUME NEW r \in Requests, Invoke(r)
      PROVE  Lifecycle!Open(r)
  <2>1. taskBar' = taskBar
    BY <1>3, TasksUnchanged DEF Invoke
  <2>2. callBar[r] = "none"
    BY <1>3 DEF Invoke, callBar, CallOf
  <2>3. callBar' = [callBar EXCEPT ![r] = "open"]
    <3>1. pc' = [pc EXCEPT ![r] = "racing"]
      BY <1>3 DEF Invoke
    <3>2. CallOf(r)' = "open"
      BY <3>1 DEF CallOf, IInv, TypeOK
    <3> QED
      BY <3>1, <3>2, CallMoves
  <2> QED
    BY <2>1, <2>2, <2>3 DEF Lifecycle!Open, callBar, taskBar
<1>4. ASSUME NEW r \in Requests, Select(r)
      PROVE  UNCHANGED <<callBar, taskBar>>
  <2>1. PICK b \in Branches \cup {"parked"} : pc' = [pc EXCEPT ![r] = b]
    BY <1>4 DEF Select, Ready
  <2>2. taskBar' = taskBar
    BY <1>4, TasksUnchanged DEF Select
  <2>3. callBar' = callBar
    BY <1>4, <2>1 DEF Select, callBar, CallOf, IInv, TypeOK
  <2> QED
    BY <2>2, <2>3
<1>5. ASSUME NEW r \in Requests, ReturnResult(r) \/ ReturnCanceled(r)
      PROVE  Lifecycle!End(r)
  <2>1. taskBar' = taskBar
    BY <1>5, TasksUnchanged DEF ReturnResult, ReturnCanceled
  <2>2. PICK a \in {"answered", "canceled"} : pc' = [pc EXCEPT ![r] = a]
    BY <1>5 DEF ReturnResult, ReturnCanceled
  <2>3. callBar[r] = "open" /\ taskBar[r] = "none"
    BY <1>5 DEF ReturnResult, ReturnCanceled, callBar, CallOf, taskBar, TaskOf,
                IInv, StorerOwnsRecord
  <2>4. callBar' = [callBar EXCEPT ![r] = a]
    BY <2>2, CallMoves
  <2> QED
    BY <2>1, <2>3, <2>4 DEF Lifecycle!End, Lifecycle!Answers, callBar, taskBar
<1>6. ASSUME NEW r \in Requests, NewTaskID(r)
      PROVE  UNCHANGED <<callBar, taskBar>>
  <2>1. callBar' = callBar
    BY <1>6 DEF NewTaskID, callBar, CallOf, IInv, TypeOK
  <2>2. storer[r] = "none"
    BY <1>6 DEF NewTaskID, IInv, StorerOwnsRecord
  <2>3. \A q \in Requests : TaskOf(q)' = TaskOf(q)
    <3>1. UNCHANGED <<storer, records>> /\ \A q \in Requests \ {r} : taskID'[q] = taskID[q]
      BY <1>6 DEF NewTaskID, IInv, TypeOK, taskVars
    <3> QED
      BY <2>2, <3>1 DEF TaskOf
  <2> QED
    BY <2>1, <2>3 DEF taskBar
<1>7. ASSUME NEW r \in Requests, ReturnAccepted(r)
      PROVE  Lifecycle!Accept(r)
  <2>1. taskBar' = taskBar
    BY <1>7, TasksUnchanged DEF ReturnAccepted
  <2>2. callBar[r] = "open"
    BY <1>7 DEF ReturnAccepted, callBar, CallOf, Answered
  <2>3. CallOf(r)' = "accepted" /\ callBar' = [callBar EXCEPT ![r] = "accepted"]
    <3>1. pc' = [pc EXCEPT ![r] = "accepted"]
      BY <1>7 DEF ReturnAccepted
    <3>2. /\ callBar' = [callBar EXCEPT ![r] = CallOf(r)']
          /\ CallOf(r)' = IF "accepted" = "idle" THEN "none"
                          ELSE IF "accepted" \in Answered THEN "accepted" ELSE "open"
      BY <3>1, CallMoves
    <3>3. CallOf(r)' = "accepted"
      BY <3>2 DEF Answered
    <3> QED
      BY <3>2, <3>3
  <2>4. HasStore => taskBar[r] # "none"
    BY <1>7 DEF ReturnAccepted, taskBar, TaskOf, IInv, TypeOK, HandoffHasStorer,
                StorerOwnsRecord, Store!Record, Store!AcceptedRecord,
                Store!CompletedRecord, Store!FailedRecord
  <2> QED
    BY <2>1, <2>2, <2>3, <2>4 DEF Lifecycle!Accept, callBar, taskBar
<1>8. ASSUME NEW r \in Requests, CreateTask(r)
      PROVE  Lifecycle!End(r) \/ Lifecycle!CreateTask(r)
  <2>1. /\ pc[r] = "named" /\ HasStore /\ taskID' = taskID
        /\ storer[r] = "none" /\ taskID[r] \in TaskIDs
    BY <1>8 DEF CreateTask, IInv, StorerOwnsRecord, NamedHasID
  <2>2. callBar[r] = "open" /\ taskBar[r] = "none"
    BY <2>1 DEF callBar, CallOf, taskBar, TaskOf
  <2>3. PICK err \in Store!Results :
          /\ Store!CreateAccepted(taskID[r], r, err)
          /\ \/ /\ err = "nil"
                /\ pc' = [pc EXCEPT ![r] = "handoff"]
                /\ storer' = [storer EXCEPT ![r] = "waiting"]
             \/ /\ err # "nil"
                /\ pc' = [pc EXCEPT ![r] = "rejected"]
                /\ UNCHANGED storer
    BY <1>8 DEF CreateTask
  <2>4. \/ /\ err # "nil"
           /\ records' = records
        \/ /\ err = "nil"
           /\ taskID[r] \notin DOMAIN records
           /\ records' = [t \in DOMAIN records \cup {taskID[r]} |->
                            IF t = taskID[r] THEN Store!NewRecord(r) ELSE records[t]]
    <3>1. Store!CreateAccepted(taskID[r], r, err)
      BY <2>3
    <3> QED
      BY <2>1, <3>1, CreateShape
  <2>5. CASE err # "nil"
    <3>1. taskBar' = taskBar
      BY <2>1, <2>3, <2>4, <2>5, TasksUnchanged
    <3>2. callBar' = [callBar EXCEPT ![r] = "rejected"]
      BY <2>3, <2>5, CallMoves
    <3> QED
      BY <2>2, <3>1, <3>2 DEF Lifecycle!End, Lifecycle!Answers, callBar, taskBar
  <2>6. CASE err = "nil"
    <3>1. /\ storer' = [storer EXCEPT ![r] = "waiting"]
          /\ pc' = [pc EXCEPT ![r] = "handoff"]
      BY <2>3, <2>6
    <3>2. callBar' = callBar
      BY <2>1, <3>1 DEF callBar, CallOf, IInv, TypeOK
    <3>3. TaskOf(r)' = "accepted"
      BY <2>1, <2>4, <2>6, <3>1 DEF TaskOf, Store!NewRecord, IInv, TypeOK
    <3>4. \A q \in Requests \ {r} : TaskOf(q)' = TaskOf(q)
      BY <2>1, <2>4, <2>6, <3>1 DEF TaskOf, IInv, TypeOK, StorerOwnsRecord
    <3>5. taskBar' = [taskBar EXCEPT ![r] = "accepted"]
      BY <3>3, <3>4 DEF taskBar
    <3> QED
      BY <2>1, <2>2, <3>2, <3>5 DEF Lifecycle!CreateTask, callBar, taskBar
  <2> QED
    BY <2>5, <2>6
<1>9. ASSUME NEW r \in Requests, StoreResult(r)
      PROVE  Lifecycle!Settle(r)
  <2>1. /\ storer[r] = "waiting" /\ result[r] # Nil
        /\ storer' = [storer EXCEPT ![r] = "done"]
        /\ UNCHANGED <<pc, taskID>>
    BY <1>9 DEF StoreResult
  <2>2. /\ taskID[r] \in DOMAIN records /\ taskID[r] \in TaskIDs
        /\ records[taskID[r]].status = "accepted"
    BY <2>1 DEF IInv, TypeOK, StorerOwnsRecord
  <2>3. PICK s, rec :
          /\ s \in {"completed", "failed"}
          /\ rec.status = s
          /\ records' = [t \in DOMAIN records |->
                           IF t = taskID[r] THEN rec ELSE records[t]]
    <3>1. PICK err :
            \/ /\ result[r] \in Failures
               /\ Store!Fail(taskID[r], FailureCode[result[r]], err)
            \/ /\ result[r] \in Responses
               /\ Store!Complete(taskID[r], result[r], err)
      BY <1>9 DEF StoreResult, Settle
    <3>2. records[taskID[r]] \in Store!AcceptedRecord
      BY <2>2 DEF IInv, TypeOK, Store!Record, Store!AcceptedRecord,
                  Store!CompletedRecord, Store!FailedRecord
    <3>3. CASE Store!Fail(taskID[r], FailureCode[result[r]], err)
      <4>1. Store!FailedWith(records[taskID[r]], FailureCode[result[r]]).status = "failed"
        BY <3>2 DEF Store!FailedWith, Store!AcceptedRecord
      <4> QED
        BY <2>2, <3>3, <4>1, FailShape
    <3>4. CASE result[r] \in Responses /\ Store!Complete(taskID[r], result[r], err)
      <4>1. Store!CompletedWith(records[taskID[r]], result[r]).status = "completed"
        BY <3>2 DEF Store!CompletedWith, Store!AcceptedRecord
      <4> QED
        BY <2>2, <3>4, <4>1, CompleteShape
    <3> QED
      BY <3>1, <3>3, <3>4
  <2>4. callBar' = callBar
    BY <2>1 DEF callBar, CallOf
  <2>5. taskBar[r] = "accepted"
    BY <2>1, <2>2 DEF taskBar, TaskOf
  <2>6. TaskOf(r)' = s
    BY <2>1, <2>2, <2>3 DEF TaskOf, IInv, TypeOK
  <2>7. \A q \in Requests \ {r} : TaskOf(q)' = TaskOf(q)
    BY <2>1, <2>3, DistinctTasks DEF TaskOf, IInv, TypeOK, StorerOwnsRecord
  <2>8. taskBar' = [taskBar EXCEPT ![r] = s]
    BY <2>6, <2>7 DEF taskBar
  <2>9. s \in Lifecycle!Settled
    BY <2>3 DEF Lifecycle!Settled
  <2> QED
    BY <2>4, <2>5, <2>8, <2>9 DEF Lifecycle!Settle, callBar, taskBar
<1>10. CASE \E r \in Requests :
              \/ Invoke(r) \/ Proceed(r)
              \/ CallerGone(r) \/ TimerFires(r) \/ BackendReturns(r)
              \/ SendResult(r) \/ StoreResult(r)
  BY <1>2, <1>3, <1>4, <1>5, <1>6, <1>7, <1>8, <1>9, <1>10
     DEF Proceed, Lifecycle!Next
<1> QED
  BY <1>1, <1>10 DEF Next

(***************************************************************************)
(* The dispatcher implements the lifecycle it promises: each call is       *)
(* answered once, has a task only if it is answered "accepted", and the    *)
(* task is settled at most once.                                           *)
(***************************************************************************)
THEOREM Refinement == Spec => ImplementsLifecycle
<1>1. Init => Lifecycle!Init
  BY DEF Init, Lifecycle!Init, CallOf, TaskOf
<1>2. IInv /\ [Next]_vars => [Lifecycle!Next]_(Lifecycle!vars)
  BY StepRefines DEF Lifecycle!vars, callBar, taskBar
<1> QED
  BY <1>1, <1>2, Invariance, PTL DEF Spec, ImplementsLifecycle, Lifecycle!Spec
=============================================================================
