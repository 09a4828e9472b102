------------------------------- MODULE Dispatch -------------------------------
(***************************************************************************)
(* The quick-response dispatcher (internal/dispatch/dispatcher.go).        *)
(*                                                                         *)
(* Dispatcher.Invoke races three events: the backend's result, the         *)
(* cancellation of the caller's context and the quick timeout.  When the   *)
(* timeout wins, the call is answered "accepted" with a task id, the       *)
(* backend goes on detached from the caller, and a second goroutine        *)
(* (storeBackendResult) files its result in the task store.                *)
(*                                                                         *)
(* Actors, per request r:                                                  *)
(*   Invoke        the calling goroutine              pc[r]                *)
(*   the backend   the goroutine of lines 59-63       backend[r]           *)
(*   the storer    storeBackendResult                 storer[r]            *)
(*   the caller and the runtime timer                 ctxDone[r], fired[r] *)
(* The requests share one dispatcher, one task store and the process-wide  *)
(* defaultTaskCounter.                                                     *)
(*                                                                         *)
(* A Go select that finds several cases ready picks one at random; a       *)
(* goroutine already parked in it is woken by the first event and cannot   *)
(* be won over by a later one.  "racing" and "parked" tell the two apart.  *)
(*                                                                         *)
(* Backend outcomes are reduced to the class storeBackendResult and        *)
(* safeTaskError sort them by (the first errors.Is that matches).          *)
(***************************************************************************)
EXTENDS Naturals

CONSTANTS
  Requests,       \* calls of Invoke
  Names,          \* normalized, possibly blank, request ids
  RequestName,    \* RequestName[r] = normalizeTaskID(req.ID)
  BlankID,        \* the empty task id
  ConfiguredID,   \* normalizeTaskID(d.taskID(req)); BlankID when cfg.TaskID is
                  \* nil, where line 43 installs defaultTaskID itself
  HasStore,       \* d.store # nil
  HasRunner,      \* d.runner # nil
  Outcomes,       \* the outcomes the backend may produce
  Nil

(* fmt.Sprintf("%s-task-%d"): the pair of the request's name and a counter.*)
TaskIDs == Names \X Nat

DefaultTaskID(r, n) == <<RequestName[r], n>>

(***************************************************************************)
(* safeTaskError and the failure branches of storeBackendResult: the task  *)
(* error code a failed outcome is filed with.                              *)
(***************************************************************************)
FailureCode ==
  [canceled          |-> "context_canceled",
   deadline          |-> "context_deadline_exceeded",
   invalid_request   |-> "backend_invalid_request",
   unauthorized      |-> "backend_unauthorized",
   temporary         |-> "backend_temporary",
   invocation_failed |-> "backend_invocation_failed",
   other             |-> "backend_error",
   no_response       |-> "internal_error",
   failed            |-> "backend_failed"]

(* A response whose status is not "failed", the backend's own "accepted"   *)
(* included, completes the task.                                           *)
Responses == {"completed", "accepted"}
Failures  == DOMAIN FailureCode

TaskErrors == {FailureCode[o] : o \in Failures}

ASSUME DispatchConstants ==
  /\ RequestName \in [Requests -> Names]
  /\ \A r \in Requests : ConfiguredID[r] \in TaskIDs \cup {BlankID}
  /\ BlankID \notin TaskIDs
  /\ HasStore \in BOOLEAN /\ HasRunner \in BOOLEAN
  /\ HasStore \/ HasRunner          \* New, lines 34-36
  /\ Outcomes \subseteq Responses \cup Failures
  /\ Nil \notin Responses \cup Failures \cup TaskErrors

VARIABLES
  pc,           \* Invoke: where it is, and in the end how it answered
  ctxDone,      \* the caller's context is done
  fired,        \* the quick timer has fired
  backend,      \* the backend goroutine
  outcome,      \* what the backend returned
  result,       \* the result channel, of capacity 1: Nil when empty
  invokeDone,   \* invokeCtx is canceled
  storer,       \* storeBackendResult
  taskID,       \* the local variable taskID of Invoke
  started,      \* the tasks handed to the TaskRunner
  taskCounter,  \* defaultTaskCounter
  records       \* the task store

invokeVars  == <<pc, taskID, started, taskCounter>>
backendVars == <<backend, outcome, result, invokeDone>>
eventVars   == <<ctxDone, fired>>
taskVars    == <<storer, records>>
vars == <<invokeVars, backendVars, eventVars, taskVars>>

Store == INSTANCE TaskStore
           WITH Errors <- TaskErrors

Waiting  == {"racing", "parked"}
Branches == {"got_result", "got_cancel", "got_timeout"}
Answered == {"answered", "canceled", "rejected", "accepted"}

TypeOK ==
  /\ pc \in [Requests -> {"idle", "named", "handoff"} \cup Waiting \cup Branches
                           \cup Answered]
  /\ ctxDone \in [Requests -> BOOLEAN]
  /\ fired \in [Requests -> BOOLEAN]
  /\ backend \in [Requests -> {"none", "running", "returned", "done"}]
  /\ outcome \in [Requests -> Responses \cup Failures \cup {Nil}]
  /\ result \in [Requests -> Responses \cup Failures \cup {Nil}]
  /\ invokeDone \in [Requests -> BOOLEAN]
  /\ storer \in [Requests -> {"none", "waiting", "done"}]
  /\ \A r \in Requests : taskID[r] \in TaskIDs \cup {BlankID}
  /\ taskID = [r \in Requests |-> taskID[r]]
  /\ \A t \in started : t.id \in TaskIDs /\ t.request \in Requests
  /\ taskCounter \in Nat
  /\ records = [t \in DOMAIN records |-> records[t]]
  /\ DOMAIN records \subseteq TaskIDs
  /\ \A t \in DOMAIN records : records[t] \in Store!Record

Init ==
  /\ pc = [r \in Requests |-> "idle"]
  /\ ctxDone = [r \in Requests |-> FALSE]
  /\ fired = [r \in Requests |-> FALSE]
  /\ backend = [r \in Requests |-> "none"]
  /\ outcome = [r \in Requests |-> Nil]
  /\ result = [r \in Requests |-> Nil]
  /\ invokeDone = [r \in Requests |-> FALSE]
  /\ storer = [r \in Requests |-> "none"]
  /\ taskID = [r \in Requests |-> BlankID]
  /\ started = {}
  /\ taskCounter = 0
  /\ records = Store!EmptyStore

-----------------------------------------------------------------------------
(* Invoke, lines 52-66: contexts, channel, backend goroutine and timer.    *)
Invoke(r) ==
  /\ pc[r] = "idle"
  /\ pc' = [pc EXCEPT ![r] = "racing"]
  /\ backend' = [backend EXCEPT ![r] = "running"]
  /\ UNCHANGED <<taskID, started, taskCounter, outcome, result, invokeDone,
                 eventVars, taskVars>>

(* An event for a parked Invoke decides its branch at once.                *)
Wake(r, branch) ==
  pc' = IF pc[r] = "parked" THEN [pc EXCEPT ![r] = branch] ELSE pc

-----------------------------------------------------------------------------
(* The environment.                                                        *)

(* Mutation of CallerGone: invokeCtx derived from the caller's context.    *)
CallerGoneEndsInvoke(r) ==
  /\ ~ctxDone[r]
  /\ ctxDone' = [ctxDone EXCEPT ![r] = TRUE]
  /\ invokeDone' = [invokeDone EXCEPT ![r] = TRUE]
  /\ Wake(r, "got_cancel")
  /\ UNCHANGED <<fired, taskID, started, taskCounter, backend, outcome, result,
                 taskVars>>

(* The caller's context ends: before, during or after the call.            *)
CallerGone(r) ==
  /\ ~ctxDone[r]
  /\ ctxDone' = [ctxDone EXCEPT ![r] = TRUE]
  /\ Wake(r, "got_cancel")
  /\ UNCHANGED <<fired, taskID, started, taskCounter, backendVars, taskVars>>

(* timer.C; once the select is over, `defer timer.Stop()` makes it moot.   *)
TimerFires(r) ==
  /\ pc[r] \in Waiting
  /\ ~fired[r]
  /\ fired' = [fired EXCEPT ![r] = TRUE]
  /\ Wake(r, "got_timeout")
  /\ UNCHANGED <<ctxDone, taskID, started, taskCounter, backendVars, taskVars>>

(* The adapter returns; it reports a cancellation only of its own context. *)
BackendReturns(r) ==
  /\ backend[r] = "running"
  /\ \E o \in Outcomes :
       /\ o = "canceled" => invokeDone[r]
       /\ outcome' = [outcome EXCEPT ![r] = o]
  /\ backend' = [backend EXCEPT ![r] = "returned"]
  /\ UNCHANGED <<result, invokeDone, invokeVars, eventVars, taskVars>>

-----------------------------------------------------------------------------
(* Mutation of SendResult: an unbuffered channel nobody has to read.       *)
SendUnbuffered(r) ==
  /\ backend[r] = "returned"
  /\ pc[r] \in Waiting \/ storer[r] = "waiting"
  /\ result' = [result EXCEPT ![r] = outcome[r]]
  /\ backend' = [backend EXCEPT ![r] = "done"]
  /\ invokeDone' = [invokeDone EXCEPT ![r] = TRUE]
  /\ Wake(r, "got_result")
  /\ UNCHANGED <<outcome, taskID, started, taskCounter, eventVars, taskVars>>

(* The backend goroutine: result <- ..., then the deferred cancelInvoke.   *)
SendResult(r) ==
  /\ backend[r] = "returned"
  /\ result[r] = Nil
  /\ result' = [result EXCEPT ![r] = outcome[r]]
  /\ backend' = [backend EXCEPT ![r] = "done"]
  /\ invokeDone' = [invokeDone EXCEPT ![r] = TRUE]
  /\ Wake(r, "got_result")
  /\ UNCHANGED <<outcome, taskID, started, taskCounter, eventVars, taskVars>>

-----------------------------------------------------------------------------
(* Mutation of Ready: the select without its timeout case.                 *)
ReadyWithoutTimeout(r) ==
  {b \in Branches : \/ b = "got_result" /\ result[r] # Nil
                    \/ b = "got_cancel" /\ ctxDone[r]}

(* The select of line 68, reached: any ready case, or none.                *)
Ready(r) ==
  {b \in Branches : \/ b = "got_result"  /\ result[r] # Nil
                    \/ b = "got_cancel"  /\ ctxDone[r]
                    \/ b = "got_timeout" /\ fired[r]}

Select(r) ==
  /\ pc[r] = "racing"
  /\ \E b \in IF Ready(r) = {} THEN {"parked"} ELSE Ready(r) :
       pc' = [pc EXCEPT ![r] = b]
  /\ UNCHANGED <<taskID, started, taskCounter, backendVars, eventVars, taskVars>>

(* case res := <-result *)
ReturnResult(r) ==
  /\ pc[r] = "got_result"
  /\ pc' = [pc EXCEPT ![r] = "answered"]
  /\ result' = [result EXCEPT ![r] = Nil]
  /\ UNCHANGED <<taskID, started, taskCounter, backend, outcome, invokeDone,
                 eventVars, taskVars>>

(* Mutation of ReturnCanceled: the adapter is not told.                    *)
ReturnCanceledOnly(r) ==
  /\ pc[r] = "got_cancel"
  /\ pc' = [pc EXCEPT ![r] = "canceled"]
  /\ UNCHANGED <<taskID, started, taskCounter, backendVars, eventVars, taskVars>>

(* case <-ctx.Done() *)
ReturnCanceled(r) ==
  /\ pc[r] = "got_cancel"
  /\ pc' = [pc EXCEPT ![r] = "canceled"]
  /\ invokeDone' = [invokeDone EXCEPT ![r] = TRUE]
  /\ UNCHANGED <<taskID, started, taskCounter, backend, outcome, result,
                 eventVars, taskVars>>

(* case <-timer.C, lines 75-78: the configured id, or a fresh default one. *)
NewTaskID(r) ==
  /\ pc[r] = "got_timeout"
  /\ \/ /\ ConfiguredID[r] # BlankID
        /\ taskID' = [taskID EXCEPT ![r] = ConfiguredID[r]]
        /\ UNCHANGED taskCounter
     \/ /\ ConfiguredID[r] = BlankID
        /\ taskCounter' = taskCounter + 1
        /\ taskID' = [taskID EXCEPT ![r] = DefaultTaskID(r, taskCounter')]
  /\ pc' = [pc EXCEPT ![r] = "named"]
  /\ UNCHANGED <<started, backendVars, eventVars, taskVars>>

(* Mutation of CreateTask: the error of CreateAccepted is ignored.         *)
CreateTaskRegardless(r) ==
  /\ pc[r] = "named"
  /\ HasStore
  /\ \E err \in Store!Results : Store!CreateAccepted(taskID[r], r, err)
  /\ pc' = [pc EXCEPT ![r] = "handoff"]
  /\ storer' = [storer EXCEPT ![r] = "waiting"]
  /\ UNCHANGED <<taskID, started, taskCounter, backendVars, eventVars>>

(* Lines 79-93: register the task and start its storer, or give up.        *)
CreateTask(r) ==
  /\ pc[r] = "named"
  /\ HasStore
  /\ \E err \in Store!Results :
       /\ Store!CreateAccepted(taskID[r], r, err)
       /\ \/ /\ err = "nil"
             /\ pc' = [pc EXCEPT ![r] = "handoff"]
             /\ storer' = [storer EXCEPT ![r] = "waiting"]
             /\ UNCHANGED invokeDone
          \/ /\ err # "nil"
             /\ pc' = [pc EXCEPT ![r] = "rejected"]
             /\ invokeDone' = [invokeDone EXCEPT ![r] = TRUE]
             /\ UNCHANGED storer
  /\ UNCHANGED <<taskID, started, taskCounter, backend, outcome, result, eventVars>>

(* Mutation of ReturnAccepted: a caller that is gone is told "canceled".   *)
ReturnAcceptedUnlessGone(r) ==
  /\ pc[r] = IF HasStore THEN "handoff" ELSE "named"
  /\ pc' = [pc EXCEPT ![r] = IF ctxDone[r] THEN "canceled" ELSE "accepted"]
  /\ started' = IF HasRunner THEN started \cup {[id |-> taskID[r], request |-> r]}
                             ELSE started
  /\ UNCHANGED <<taskID, taskCounter, backendVars, eventVars, taskVars>>

(* Mutation of ReturnAccepted: the answer goes out before the task exists. *)
ReturnAcceptedEarly(r) ==
  /\ pc[r] = "named"
  /\ pc' = [pc EXCEPT ![r] = "accepted"]
  /\ UNCHANGED <<taskID, started, taskCounter, backendVars, eventVars, taskVars>>

(* Lines 94-105: start the runner, answer "accepted".                      *)
ReturnAccepted(r) ==
  /\ pc[r] = IF HasStore THEN "handoff" ELSE "named"
  /\ pc' = [pc EXCEPT ![r] = "accepted"]
  /\ started' = IF HasRunner THEN started \cup {[id |-> taskID[r], request |-> r]}
                             ELSE started
  /\ UNCHANGED <<taskID, taskCounter, backendVars, eventVars, taskVars>>

-----------------------------------------------------------------------------
(* Mutation of Settle: a response is stored whatever its status says.      *)
SettleByResponse(id, o, err) ==
  \/ o \in Failures \ {"failed"} /\ Store!Fail(id, FailureCode[o], err)
  \/ o \in Responses \cup {"failed"} /\ Store!Complete(id, o, err)

(* Mutation of Settle: nothing is stored for a nil response.               *)
SettleUnlessNil(id, o, err) ==
  \/ o = "no_response" /\ err = "nil" /\ UNCHANGED records
  \/ o \in Failures \ {"no_response"} /\ Store!Fail(id, FailureCode[o], err)
  \/ o \in Responses /\ Store!Complete(id, o, err)

(* Lines 116-128: the store operation an outcome calls for.                *)
Settle(id, o, err) ==
  \/ o \in Failures  /\ Store!Fail(id, FailureCode[o], err)
  \/ o \in Responses /\ Store!Complete(id, o, err)

(* storeBackendResult: receive the result and settle the task with it; the *)
(* store's own error is dropped.                                           *)
StoreResult(r) ==
  /\ storer[r] = "waiting"
  /\ result[r] # Nil
  /\ \E err \in Store!Results : Settle(taskID[r], result[r], err)
  /\ result' = [result EXCEPT ![r] = Nil]
  /\ storer' = [storer EXCEPT ![r] = "done"]
  /\ UNCHANGED <<backend, outcome, invokeDone, invokeVars, eventVars>>

-----------------------------------------------------------------------------
(* One step of Invoke once it has started.                                 *)
Proceed(r) ==
  \/ Select(r) \/ ReturnResult(r) \/ ReturnCanceled(r)
  \/ NewTaskID(r) \/ CreateTask(r) \/ ReturnAccepted(r)

(* Every call is over and no goroutine is left: the process idles.         *)
Quiescent(r) ==
  /\ pc[r] \in Answered
  /\ ctxDone[r]
  /\ backend[r] = "done"
  /\ storer[r] # "waiting"

Idle == (\A r \in Requests : Quiescent(r)) /\ UNCHANGED vars

Next ==
  \/ \E r \in Requests :
       \/ Invoke(r) \/ Proceed(r)
       \/ CallerGone(r) \/ TimerFires(r) \/ BackendReturns(r)
       \/ SendResult(r) \/ StoreResult(r)
  \/ Idle

Spec == Init /\ [][Next]_vars

(***************************************************************************)
(* Runnable goroutines run and an armed timer fires.  Nothing makes a      *)
(* caller call or cancel.  That the backend returns is a separate          *)
(* assumption: no answer depends on it, only the end of the work does.     *)
(***************************************************************************)
Scheduling ==
  \A r \in Requests :
    /\ WF_vars(Proceed(r))
    /\ WF_vars(TimerFires(r))
    /\ WF_vars(SendResult(r))
    /\ WF_vars(StoreResult(r))

BackendFairness == \A r \in Requests : WF_vars(BackendReturns(r))

QuickSpec == Spec /\ Scheduling

-----------------------------------------------------------------------------
(***************************************************************************)
(* An answer "accepted" with a task id is a promise: as long as the        *)
(* process lives, the store holds a record under that id and it is this    *)
(* call's, not another's.  In particular no two calls are ever accepted    *)
(* under one id, even when the configured ids clash with each other or     *)
(* with a generated one (CreateAccepted before line 97, lines 80-91).      *)
(***************************************************************************)
AcceptedIsKept ==
  \A r \in Requests :
    HasStore /\ pc[r] = "accepted" =>
      /\ taskID[r] \in DOMAIN records
      /\ records[taskID[r]].request = r

(***************************************************************************)
(* A settled record holds what the backend returned for the very request   *)
(* it was created for: the response, or the code of its failure            *)
(* (storeBackendResult, safeTaskError).                                    *)
(***************************************************************************)
SettledWithOwnResult ==
  \A t \in DOMAIN records :
    LET rec == records[t]
        o   == outcome[rec.request]
    IN  rec.status # "accepted" =>
          \/ o \in Responses /\ rec.response = o
          \/ o \in Failures  /\ rec.error = FailureCode[o]

(***************************************************************************)
(* Once a call has been accepted its caller cannot take the work down: the *)
(* backend's context stays open until the backend has returned (the        *)
(* detached invokeCtx of line 56, lines 49-51), so no record ever fails    *)
(* with context_canceled.  (That before it the caller does take the work   *)
(* down is WorkEnds of VoicePath.)                                         *)
(***************************************************************************)
AcceptedRunsDetached ==
  /\ \A r \in Requests :
       pc[r] \in {"handoff", "accepted"} /\ invokeDone[r] => backend[r] = "done"
  /\ \A t \in DOMAIN records : records[t].error # "context_canceled"

(***************************************************************************)
(* A call answered with a result, a cancellation or an error leaves        *)
(* nothing behind: no record, no storer, no task given to the runner       *)
(* (README.md:92, "no background task is started"; that is said of a call  *)
(* canceled before the timeout, which the select of line 68 may yet answer *)
(* "accepted", if both have happened when it looks).                       *)
(***************************************************************************)
NoOrphanTask ==
  \A r \in Requests :
    pc[r] \in Answered \ {"accepted"} =>
      /\ storer[r] = "none"
      /\ \A t \in DOMAIN records : records[t].request # r
      /\ \A t \in started : t.request # r

(***************************************************************************)
(* A call is answered however long the backend takes: the timer alone is   *)
(* enough (line 74).                                                       *)
(***************************************************************************)
InvokeReturns == \A r \in Requests : pc[r] = "racing" ~> pc[r] \in Answered

(***************************************************************************)
(* Once the adapter has returned its goroutine ends, also when Invoke has  *)
(* gone and nobody will ever read the result: the channel has room for it  *)
(* (line 58).                                                              *)
(***************************************************************************)
BackendGoroutineEnds ==
  \A r \in Requests : backend[r] = "returned" ~> backend[r] = "done"

-----------------------------------------------------------------------------
(* How this machine implements the promise of TaskLifecycle.               *)
CallOf(r) ==
  IF pc[r] = "idle" THEN "none"
  ELSE IF pc[r] \in Answered THEN pc[r] ELSE "open"

TaskOf(r) == IF storer[r] = "none" THEN "none" ELSE records[taskID[r]].status

Lifecycle == INSTANCE TaskLifecycle
               WITH Stored <- HasStore,
                    call <- [r \in Requests |-> CallOf(r)],
                    task <- [r \in Requests |-> TaskOf(r)]

(***************************************************************************)
(* Every step of the dispatcher is a step of the abstract lifecycle, or    *)
(* invisible to it.                                                        *)
(***************************************************************************)
ImplementsLifecycle == Lifecycle!Spec

(***************************************************************************)
(* ... and, with a backend that returns, every call is answered and every  *)
(* accepted task is settled.                                               *)
(***************************************************************************)
ImplementsFairLifecycle == BackendFairness => Lifecycle!Fairness
=============================================================================
