---------------------------- MODULE VoicePathProofs ----------------------------
(***************************************************************************)
(* Proofs about the composed way of a request, for any requests, ids and   *)
(* back-end modes: the invariant of the dispatcher is taken over from      *)
(* DispatchProofs, since every step of the composition is one of its steps *)
(* or none of its business.                                                *)
(***************************************************************************)
EXTENDS VoicePath, DispatchProofs

-----------------------------------------------------------------------------
(* What the checked invariants need to be inductive.                       *)

OwnOutcomes == {"completed", "canceled", "temporary", "invocation_failed"}

(* What there is of a result comes from the adapter.                       *)
OutcomeOfAdapter ==
  \A r \in Requests :
    /\ outcome[r] \in OwnOutcomes \cup {Nil}
    /\ outcome[r] # Nil => backend[r] \in {"returned", "done"}
    /\ pc[r] \in {"got_result", "answered"} => outcome[r] # Nil

(* A success is that of a process that ended by itself.                    *)
OutputOfExited ==
  mode = "hermes-cli" =>
    \A r \in Requests : outcome[r] = "completed" => proc[r] = "answered"

(* Nothing is dispatched of a request refused on the way, or not yet sent. *)
RefusedIsIdle ==
  \A r \in Requests :
    /\ edge[r] \in {"idle", "received", "refused"} => pc[r] = "idle" /\ refused[r] = Nil
    /\ refused[r] # Nil => pc[r] = "idle"

(* Where an answer of the service came from.                               *)
FromService(r) ==
  \/ refused[r] # Nil /\ heard[r].status \in Refusals
  \/ pc[r] = "accepted" /\ heard[r] = [status |-> "accepted", task |-> taskID[r]]
  \/ /\ pc[r] \in Answered \ {"accepted"}
     /\ heard[r].status # "accepted"
     /\ heard[r].status = "completed" => pc[r] = "answered" /\ outcome[r] = "completed"

HeardFrom ==
  \A r \in Requests :
    heard[r] # Nil =>
      \/ edge[r] = "refused" /\ heard[r].status = "invalid_request"
      \/ edge[r] = "closed" /\ (heard[r].status \in Unheard \/ FromService(r))

(* An agent that has not given up has been answered.                       *)
ClosedIsTold ==
  \A r \in Requests : edge[r] \in {"refused", "closed"} => gone[r] \/ heard[r] # Nil

(* Nobody gives up before having posted.                                   *)
GoneHasPosted == \A r \in Requests : gone[r] => edge[r] # "idle"

PathInv ==
  /\ IInv
  /\ PathTypeOK
  /\ OutcomeOfAdapter
  /\ OutputOfExited
  /\ RefusedIsIdle
  /\ HeardFrom
  /\ ClosedIsTold
  /\ GoneHasPosted

-----------------------------------------------------------------------------
(* The composition and the dispatcher.                                     *)

(* The steps that are the agent's and the forwarder's own, or devText's    *)
(* before it has a dispatcher call.                                        *)
Outside(r) ==
  \/ Post(r) \/ GiveUp(r) \/ EdgeRefuses(r) \/ EdgeForwards(r) \/ EdgeFails(r)
  \/ EdgeRelays(r) \/ EdgeCuts(r) \/ Refuse(r)

(* The steps of the dispatcher's goroutines and of the backend.            *)
Inside(r) == Dispatched(r) \/ RequestEnds(r) \/ Goroutines(r) \/ Backend(r)

(***************************************************************************)
(* An outside step does not touch the dispatcher or the adapter.           *)
(***************************************************************************)
LEMMA OutsideShape ==
  ASSUME NEW r \in Requests, Outside(r)
  PROVE  UNCHANGED <<vars, adapterVars>>
  BY DEF Outside, Post, GiveUp, EdgeRefuses, EdgeForwards, EdgeFails, EdgeRelays,
         EdgeCuts, Refuse

(***************************************************************************)
(* An adapter step is the return of the backend, or invisible to the       *)
(* dispatcher.                                                             *)
(***************************************************************************)
LEMMA AdapterShape ==
  ASSUME NEW r \in Requests, AdapterStep(r)
  PROVE  BackendReturns(r) \/ UNCHANGED vars
  BY DEF AdapterStep, StaticReturns, StaticInvoke, Expire, StartFails, StartProcess,
         ProcessExits, Kill, CommandReturns, Returns

(***************************************************************************)
(* An inside step is a step of the dispatcher and says nothing to anybody. *)
(***************************************************************************)
LEMMA InsideShape ==
  ASSUME NEW r \in Requests, Inside(r)
  PROVE  [Next]_vars /\ UNCHANGED pathVars
<1>1. CASE Dispatched(r)
  BY <1>1 DEF Dispatched, Next
<1>2. CASE RequestEnds(r)
  BY <1>2 DEF RequestEnds, Next
<1>3. CASE Goroutines(r)
  BY <1>3 DEF Goroutines, Next
<1>4. CASE Backend(r)
  BY <1>4, AdapterShape DEF Backend, Next
<1> QED BY <1>1, <1>2, <1>3, <1>4 DEF Inside

(***************************************************************************)
(* Every step of the composition is an outside step, an inside step or     *)
(* none.                                                                   *)
(***************************************************************************)
LEMMA StepKinds ==
  ASSUME [PathNext]_allVars
  PROVE  \/ \E r \in Requests : Outside(r) \/ Inside(r)
         \/ UNCHANGED allVars
  BY DEF PathNext, PathIdle, Outside, Inside

(***************************************************************************)
(* Every step of the composition is one of the dispatcher, or leaves it    *)
(* alone.                                                                  *)
(***************************************************************************)
LEMMA StepOfDispatch == [PathNext]_allVars => [Next]_vars
  BY StepKinds, OutsideShape, InsideShape DEF allVars

(***************************************************************************)
(* Behind the forwarder and in front of the adapters the dispatcher is     *)
(* still the machine that Dispatch specifies.                              *)
(***************************************************************************)
THEOREM PathImplementsDispatch == PathSpec => Spec
<1>1. PathInit => Init
  BY DEF PathInit
<1> QED BY <1>1, StepOfDispatch, PTL DEF PathSpec, Spec

(***************************************************************************)
(* So the whole path keeps the promise of the abstract task lifecycle      *)
(* (ImplementsLifecycle, TaskLifecycle!Spec).                              *)
(***************************************************************************)
THEOREM PathImplementsLifecycle == PathSpec => ImplementsLifecycle
  BY PathImplementsDispatch, Refinement

(***************************************************************************)
(* A call that has been answered stays so, under the id it was given.      *)
(***************************************************************************)
LEMMA AnswersStay ==
  ASSUME TypeOK, [Next]_vars, NEW r \in Requests, pc[r] \in Answered
  PROVE  pc'[r] = pc[r] /\ taskID'[r] = taskID[r]
<1> USE DEF TypeOK, Answered, Waiting
<1>1. ASSUME NEW q \in Requests, Invoke(q) \/ CallerGone(q) \/ TimerFires(q) \/ SendResult(q)
      PROVE  pc'[r] = pc[r] /\ taskID'[r] = taskID[r]
  BY <1>1 DEF Invoke, CallerGone, TimerFires, SendResult, Wake
<1>2. ASSUME NEW q \in Requests, BackendReturns(q) \/ StoreResult(q)
      PROVE  pc'[r] = pc[r] /\ taskID'[r] = taskID[r]
  BY <1>2 DEF BackendReturns, StoreResult, invokeVars
<1>3. ASSUME NEW q \in Requests, Select(q) PROVE pc'[r] = pc[r] /\ taskID'[r] = taskID[r]
  BY <1>3 DEF Select
<1>4. ASSUME NEW q \in Requests, ReturnResult(q) \/ ReturnCanceled(q) \/ NewTaskID(q)
      PROVE  pc'[r] = pc[r] /\ taskID'[r] = taskID[r]
  BY <1>4 DEF ReturnResult, ReturnCanceled, NewTaskID
<1>5. ASSUME NEW q \in Requests, CreateTask(q) PROVE pc'[r] = pc[r] /\ taskID'[r] = taskID[r]
  BY <1>5 DEF CreateTask
<1>6. ASSUME NEW q \in Requests, ReturnAccepted(q) PROVE pc'[r] = pc[r] /\ taskID'[r] = taskID[r]
  BY <1>6 DEF ReturnAccepted
<1>7. CASE UNCHANGED vars
  BY <1>7 DEF vars, invokeVars
<1> QED BY <1>1, <1>2, <1>3, <1>4, <1>5, <1>6, <1>7 DEF Next, Proceed, Idle

(***************************************************************************)
(* A request that has not been dispatched stays so until it is.            *)
(***************************************************************************)
LEMMA IdleStays ==
  ASSUME TypeOK, NEW q \in Requests, Inside(q), NEW r \in Requests, pc[r] = "idle",
         ~Dispatched(r)
  PROVE  pc'[r] = "idle"
<1> USE DEF TypeOK, Waiting
<1>1. CASE Dispatched(q)
  BY <1>1 DEF Dispatched, Invoke
<1>2. CASE RequestEnds(q)
  BY <1>2 DEF RequestEnds, CallerGone, Wake
<1>3. ASSUME TimerFires(q) \/ SendResult(q) PROVE pc'[r] = "idle"
  BY <1>3 DEF TimerFires, SendResult, Wake
<1>4. ASSUME Select(q) PROVE pc'[r] = "idle"
  BY <1>4 DEF Select
<1>5. ASSUME ReturnResult(q) \/ ReturnCanceled(q) \/ NewTaskID(q) PROVE pc'[r] = "idle"
  BY <1>5 DEF ReturnResult, ReturnCanceled, NewTaskID
<1>6. ASSUME CreateTask(q) PROVE pc'[r] = "idle"
  BY <1>6 DEF CreateTask
<1>7. ASSUME ReturnAccepted(q) PROVE pc'[r] = "idle"
  BY <1>7 DEF ReturnAccepted
<1>8. ASSUME StoreResult(q) PROVE pc'[r] = "idle"
  BY <1>8 DEF StoreResult, invokeVars
<1>9. CASE Backend(q)
  BY <1>9, AdapterShape DEF Backend, BackendReturns, vars, invokeVars
<1> QED BY <1>1, <1>2, <1>3, <1>4, <1>5, <1>6, <1>7, <1>8, <1>9
           DEF Inside, Goroutines, Proceed

-----------------------------------------------------------------------------
(* The adapter and what it returns.                                        *)

(***************************************************************************)
(* An adapter returns one of four outcomes.                                *)
(***************************************************************************)
LEMMA AdapterReturns ==
  ASSUME NEW r \in Requests, AdapterStep(r), ~UNCHANGED vars
  PROVE  /\ BackendReturns(r)
         /\ outcome'[r] \in OwnOutcomes
         /\ outcome'[r] = "completed" /\ mode = "hermes-cli" => proc[r] = "answered"
         /\ UNCHANGED adapterVars
<1>1. CASE StaticReturns(r)
  BY <1>1 DEF StaticReturns, StaticInvoke, Returns, Adapter, OwnOutcomes
<1>2. CASE StartFails(r)
  BY <1>2 DEF StartFails, Returns, OwnOutcomes
<1>3. CASE CommandReturns(r)
  BY <1>3 DEF CommandReturns, Returns, ClassOf, OwnOutcomes
<1> QED BY <1>1, <1>2, <1>3
           DEF AdapterStep, Expire, StartProcess, ProcessExits, Kill

(***************************************************************************)
(* What Invoke takes from the channel is what an adapter returned.         *)
(***************************************************************************)
LEMMA OutcomeStep ==
  PathInv /\ [PathNext]_allVars => OutcomeOfAdapter'
<1> SUFFICES ASSUME PathInv, [PathNext]_allVars, NEW r \in Requests
             PROVE  /\ outcome'[r] \in OwnOutcomes \cup {Nil}
                    /\ outcome'[r] # Nil => backend'[r] \in {"returned", "done"}
                    /\ pc'[r] \in {"got_result", "answered"} => outcome'[r] # Nil
  BY DEF OutcomeOfAdapter
<1> DEFINE Own == /\ outcome'[r] \in OwnOutcomes \cup {Nil}
                  /\ outcome'[r] # Nil => backend'[r] \in {"returned", "done"}
                  /\ pc'[r] \in {"got_result", "answered"} => outcome'[r] # Nil
<1>0. TypeOK /\ OutcomeOfAdapter /\ BackendProgress
  BY DEF PathInv, IInv
<1> USE <1>0 DEF OutcomeOfAdapter, TypeOK
<1>1. ASSUME UNCHANGED <<outcome, backend, pc>> PROVE Own
  BY <1>1
<1>2. ASSUME NEW q \in Requests, Invoke(q) PROVE Own
  BY <1>2 DEF Invoke, BackendProgress
<1>3. ASSUME NEW q \in Requests, CallerGone(q) \/ TimerFires(q) PROVE Own
  BY <1>3 DEF CallerGone, TimerFires, Wake, backendVars
<1>4. ASSUME NEW q \in Requests, SendResult(q) PROVE Own
  <2>1. backend[q] = "returned" /\ outcome' = outcome
    BY <1>4 DEF SendResult
  <2>2. outcome[q] # Nil
    BY <2>1 DEF BackendProgress
  <2>3. backend'[r] = backend[r] \/ backend'[r] = "done"
    BY <1>4 DEF SendResult
  <2>4. pc'[r] = pc[r] \/ r = q
    BY <1>4 DEF SendResult, Wake
  <2> QED BY <2>1, <2>2, <2>3, <2>4
<1>5. ASSUME NEW q \in Requests, Select(q) PROVE Own
  <2>1. UNCHANGED <<outcome, backend, result>>
    BY <1>5 DEF Select, backendVars
  <2>2. pc'[r] = "got_result" => result[r] # Nil \/ pc[r] = "got_result"
    BY <1>5 DEF Select, Ready
  <2>3. pc'[r] = "answered" => pc[r] = "answered"
    BY <1>5 DEF Select, Ready, Branches
  <2>4. result[r] # Nil => outcome[r] # Nil
    BY DEF BackendProgress
  <2> QED BY <2>1, <2>2, <2>3, <2>4
<1>6. ASSUME NEW q \in Requests, ReturnResult(q) PROVE Own
  BY <1>6 DEF ReturnResult
<1>7. ASSUME NEW q \in Requests, ReturnCanceled(q) \/ NewTaskID(q) PROVE Own
  BY <1>7 DEF ReturnCanceled, NewTaskID, backendVars
<1>8. ASSUME NEW q \in Requests, CreateTask(q) PROVE Own
  BY <1>8 DEF CreateTask
<1>9. ASSUME NEW q \in Requests, ReturnAccepted(q) PROVE Own
  BY <1>9 DEF ReturnAccepted, backendVars
<1>10. ASSUME NEW q \in Requests, StoreResult(q) PROVE Own
  BY <1>10 DEF StoreResult, invokeVars
<1>11. ASSUME NEW q \in Requests, Backend(q) PROVE Own
  <2>1. CASE UNCHANGED vars
    BY <2>1, <1>1 DEF vars, invokeVars, backendVars
  <2>2. CASE BackendReturns(q) /\ outcome'[q] \in OwnOutcomes
    BY <2>2, DispatchConstants DEF BackendReturns, invokeVars, Responses, OwnOutcomes
  <2> QED BY <1>11, <2>1, <2>2, AdapterReturns DEF Backend
<1>12. ASSUME NEW q \in Requests, Outside(q) PROVE Own
  BY <1>1, <1>12, OutsideShape DEF vars, invokeVars, backendVars
<1>13. CASE UNCHANGED allVars
  BY <1>1, <1>13 DEF allVars, vars, invokeVars, backendVars
<1> QED BY <1>2, <1>3, <1>4, <1>5, <1>6, <1>7, <1>8, <1>9, <1>10, <1>11, <1>12, <1>13,
           StepKinds DEF Inside, Dispatched, RequestEnds, Goroutines, Proceed

(***************************************************************************)
(* The dispatcher does not change what an adapter has returned.            *)
(***************************************************************************)
LEMMA OutcomeStays ==
  ASSUME PathInv, [PathNext]_allVars, NEW r \in Requests
  PROVE  \/ outcome'[r] = outcome[r]
         \/ /\ outcome[r] = Nil
            /\ outcome'[r] = "completed" /\ mode = "hermes-cli" => proc[r] = "answered"
            /\ UNCHANGED adapterVars
<1>0. TypeOK /\ OutcomeOfAdapter
  BY DEF PathInv, IInv
<1>1. ASSUME NEW q \in Requests, Outside(q) PROVE outcome' = outcome
  BY <1>1, OutsideShape DEF vars, backendVars
<1>2. ASSUME NEW q \in Requests, Dispatched(q) \/ RequestEnds(q) \/ Goroutines(q)
      PROVE  outcome' = outcome
  BY <1>2 DEF Dispatched, RequestEnds, Goroutines, Invoke, CallerGone, Proceed, TimerFires,
              SendResult, StoreResult, Select, ReturnResult, ReturnCanceled, NewTaskID,
              CreateTask, ReturnAccepted, backendVars
<1>3. ASSUME NEW q \in Requests, Backend(q), outcome'[r] # outcome[r]
      PROVE  /\ outcome[r] = Nil
             /\ outcome'[r] = "completed" /\ mode = "hermes-cli" => proc[r] = "answered"
             /\ UNCHANGED adapterVars
  <2>1. AdapterStep(q) /\ ~UNCHANGED vars
    BY <1>3 DEF Backend, vars, backendVars
  <2>2. BackendReturns(q)
    BY <2>1, AdapterReturns
  <2>3. q = r /\ backend[r] = "running"
    BY <1>0, <1>3, <2>2 DEF BackendReturns, TypeOK
  <2> QED BY <1>0, <2>1, <2>3, AdapterReturns DEF OutcomeOfAdapter
<1>4. CASE UNCHANGED allVars
  BY <1>4 DEF allVars, vars, backendVars
<1> QED BY <1>1, <1>2, <1>3, <1>4, StepKinds DEF Inside

(***************************************************************************)
(* A process that has answered is not killed any more once its answer has  *)
(* been taken.                                                             *)
(***************************************************************************)
LEMMA OutputStep ==
  PathInv /\ [PathNext]_allVars => OutputOfExited'
<1> SUFFICES ASSUME PathInv, [PathNext]_allVars, mode' = "hermes-cli",
                    NEW r \in Requests, outcome'[r] = "completed"
             PROVE  proc'[r] = "answered"
  BY DEF OutputOfExited
<1>0. TypeOK /\ OutcomeOfAdapter /\ OutputOfExited /\ AdapterTypeOK
  BY DEF PathInv, IInv, PathTypeOK
<1>1. CASE outcome[r] = Nil /\ UNCHANGED adapterVars
  <2>1. outcome'[r] # outcome[r]
    BY <1>1, DispatchConstants DEF Responses
  <2> QED BY <1>1, <2>1, OutcomeStays DEF adapterVars
<1>2. CASE outcome'[r] = outcome[r]
  <2>1. backend[r] # "running"
    BY <1>0, <1>2, DispatchConstants DEF OutcomeOfAdapter, Responses
  <2>2. ASSUME UNCHANGED adapterVars PROVE proc'[r] = "answered"
    BY <1>0, <1>2, <2>2 DEF adapterVars, OutputOfExited
  <2>3. ASSUME NEW q \in Requests, Backend(q) PROVE mode' = mode /\ proc'[r] = proc[r]
    <3>1. backend[q] = "running"
      BY <2>3 DEF Backend, AdapterStep, StaticReturns, Expire, StartFails, StartProcess,
                  ProcessExits, Kill, CommandReturns, Adapter
    <3> QED BY <1>0, <2>1, <2>3, <3>1
            DEF Backend, AdapterStep, StaticReturns, Expire, StartFails, StartProcess,
                ProcessExits, Kill, CommandReturns, adapterVars, AdapterTypeOK
  <2>4. ASSUME NEW q \in Requests,
               Outside(q) \/ Dispatched(q) \/ RequestEnds(q) \/ Goroutines(q)
        PROVE  UNCHANGED adapterVars
    BY <2>4, OutsideShape DEF Dispatched, RequestEnds, Goroutines
  <2>5. ASSUME UNCHANGED allVars PROVE UNCHANGED adapterVars
    BY <2>5 DEF allVars
  <2> QED BY <1>0, <1>2, <2>2, <2>3, <2>4, <2>5, StepKinds DEF Inside, OutputOfExited
<1> QED BY <1>1, <1>2, OutcomeStays

-----------------------------------------------------------------------------
(* The forwarder and the agent.                                            *)

(***************************************************************************)
(* A refused request is never dispatched, a dispatched one never refused.  *)
(***************************************************************************)
LEMMA RefusedStep ==
  PathInv /\ [PathNext]_allVars => RefusedIsIdle'
<1> SUFFICES ASSUME PathInv, [PathNext]_allVars, NEW r \in Requests
             PROVE  /\ edge'[r] \in {"idle", "received", "refused"} =>
                         pc'[r] = "idle" /\ refused'[r] = Nil
                    /\ refused'[r] # Nil => pc'[r] = "idle"
  BY DEF RefusedIsIdle
<1> DEFINE Early == /\ edge'[r] \in {"idle", "received", "refused"} =>
                         pc'[r] = "idle" /\ refused'[r] = Nil
                    /\ refused'[r] # Nil => pc'[r] = "idle"
<1>0. TypeOK /\ PathTypeOK /\ RefusedIsIdle
  BY DEF PathInv, IInv
<1>1. ASSUME NEW q \in Requests, Outside(q) PROVE Early
  <2>1. pc' = pc
    BY <1>1, OutsideShape DEF vars, invokeVars
  <2>2. ASSUME Post(q) \/ GiveUp(q) \/ EdgeRefuses(q) \/ EdgeForwards(q) \/ EdgeFails(q)
                 \/ EdgeRelays(q) \/ EdgeCuts(q)
        PROVE  Early
    <3>1. /\ refused' = refused
          /\ edge'[r] = edge[r] \/ edge[r] \in {"idle", "received"} \/ edge'[r] = "closed"
      BY <1>0, <2>2 DEF PathTypeOK, Post, GiveUp, EdgeRefuses, EdgeForwards, EdgeFails,
                        EdgeRelays, EdgeCuts
    <3> QED BY <1>0, <2>1, <3>1 DEF RefusedIsIdle
  <2>3. CASE Refuse(q)
    BY <1>0, <2>1, <2>3 DEF Refuse, Arrived, RefusedIsIdle, PathTypeOK
  <2> QED BY <1>1, <2>2, <2>3 DEF Outside
<1>2. ASSUME NEW q \in Requests, Inside(q) PROVE Early
  <2>1. UNCHANGED <<edge, refused>>
    BY <1>2, InsideShape DEF pathVars
  <2>2. CASE Dispatched(r)
    BY <2>1, <2>2 DEF Dispatched, Arrived
  <2>3. CASE ~Dispatched(r)
    BY <1>0, <1>2, <2>1, <2>3, IdleStays DEF RefusedIsIdle
  <2> QED BY <2>2, <2>3
<1>3. CASE UNCHANGED allVars
  BY <1>0, <1>3 DEF allVars, vars, invokeVars, pathVars, RefusedIsIdle
<1> QED BY <1>1, <1>2, <1>3, StepKinds

(***************************************************************************)
(* The end of an exchange tells the agent of this request, if it listens,  *)
(* and no other.                                                           *)
(***************************************************************************)
LEMMA TellShape ==
  ASSUME PathTypeOK, NEW q \in Requests, NEW status \in Statuses,
         NEW task \in TaskIDs \cup {BlankID}, Tell(q, status, task)
  PROVE  /\ heard' \in [Requests -> Answers \cup {Nil}]
         /\ \A r \in Requests : r # q => heard'[r] = heard[r]
         /\ \/ gone[q] /\ heard'[q] = heard[q]
            \/ heard'[q] = [status |-> status, task |-> task] /\ heard'[q] # Nil
<1>1. [status |-> status, task |-> task] \in Answers
  BY DEF Answers
<1>2. [status |-> status, task |-> task] # Nil
  BY <1>1, VoiceConstants
<1>3. heard \in [Requests -> Answers \cup {Nil}]
  BY DEF PathTypeOK
<1>4. CASE gone[q]
  <2>1. heard' = heard
    BY <1>4 DEF Tell
  <2> QED BY <1>3, <1>4, <2>1
<1>5. CASE ~gone[q]
  <2>1. heard' = [heard EXCEPT ![q] = [status |-> status, task |-> task]]
    BY <1>5 DEF Tell
  <2> QED BY <1>1, <1>2, <1>3, <2>1
<1> QED BY <1>4, <1>5

(***************************************************************************)
(* What devText answers, by where its call is.                             *)
(***************************************************************************)
LEMMA AnswerShape ==
  ASSUME PathInv, NEW r \in Requests, HasAnswer(r)
  PROVE  /\ StatusOf(r) \in Statuses \ Unheard
         /\ \/ refused[r] # Nil /\ pc[r] = "idle" /\ StatusOf(r) \in Refusals
            \/ pc[r] = "accepted" /\ StatusOf(r) = "accepted"
            \/ /\ pc[r] \in Answered \ {"accepted"}
               /\ StatusOf(r) # "accepted"
               /\ StatusOf(r) = "completed" => pc[r] = "answered" /\ outcome[r] = "completed"
<1>0. TypeOK /\ PathTypeOK /\ OutcomeOfAdapter /\ RefusedIsIdle
  BY DEF PathInv, IInv
<1>1. CASE refused[r] # Nil
  <2>1. refused[r] \in Refusals
    BY <1>0, <1>1 DEF PathTypeOK
  <2> QED BY <1>0, <1>1, <2>1 DEF StatusOf, RefusedIsIdle, Statuses, Refusals, Unheard
<1>2. CASE refused[r] = Nil /\ pc[r] = "answered"
  <2>1. outcome[r] \in OwnOutcomes
    BY <1>0, <1>2 DEF OutcomeOfAdapter
  <2>2. StatusOf(r) = ResponseStatus[outcome[r]]
    BY <1>2 DEF StatusOf
  <2>3. outcome[r] \in Responses \cup Failures
    BY <2>1 DEF OwnOutcomes, Responses, Failures, FailureCode
  <2>4. ResponseStatus[outcome[r]] =
          CASE outcome[r] \in Responses \cup {"failed"} -> outcome[r]
            [] outcome[r] = "invalid_request"   -> "backend_invalid_request"
            [] outcome[r] = "unauthorized"      -> "backend_unauthorized"
            [] outcome[r] = "temporary"         -> "backend_temporary"
            [] outcome[r] = "invocation_failed" -> "backend_invocation_failed"
            [] OTHER                            -> "internal_error"
    BY <2>3 DEF ResponseStatus
  <2>5. \/ outcome[r] = "completed" /\ StatusOf(r) = "completed"
        \/ StatusOf(r) \in {"backend_temporary", "backend_invocation_failed", "internal_error"}
    BY <2>1, <2>2, <2>4 DEF OwnOutcomes, Responses
  <2> QED BY <1>2, <2>5 DEF Statuses, Responses, Answered, Unheard
<1>3. CASE refused[r] = Nil /\ pc[r] # "answered"
  BY <1>3 DEF HasAnswer, StatusOf, Answered, Statuses, Responses, Unheard
<1> QED BY <1>1, <1>2, <1>3

(***************************************************************************)
(* The forwarder relays what devText answered, and an answer once given is *)
(* not outrun by anything the dispatcher does later.                       *)
(***************************************************************************)
LEMMA HeardStep ==
  PathInv /\ [PathNext]_allVars => HeardFrom'
<1> SUFFICES ASSUME PathInv, [PathNext]_allVars, NEW r \in Requests, heard'[r] # Nil
             PROVE  \/ edge'[r] = "refused" /\ heard'[r].status = "invalid_request"
                    \/ edge'[r] = "closed" /\ (heard'[r].status \in Unheard \/ FromService(r)')
  BY DEF HeardFrom, FromService
<1> DEFINE From == \/ edge'[r] = "refused" /\ heard'[r].status = "invalid_request"
                   \/ edge'[r] = "closed" /\ (heard'[r].status \in Unheard \/ FromService(r)')
<1>0. TypeOK /\ PathTypeOK /\ OutcomeOfAdapter /\ RefusedIsIdle /\ HeardFrom
  BY DEF PathInv, IInv
<1>1. ASSUME heard'[r] = heard[r], edge'[r] = edge[r],
             refused[r] # Nil => refused'[r] # Nil
      PROVE  From
  <2>1. pc[r] \in Answered => pc'[r] = pc[r] /\ taskID'[r] = taskID[r]
    BY <1>0, AnswersStay, StepOfDispatch
  <2>2. outcome[r] # Nil => outcome'[r] = outcome[r]
    BY OutcomeStays
  <2>3. FromService(r) => FromService(r)'
    BY <1>0, <1>1, <2>1, <2>2, DispatchConstants
       DEF FromService, Answered, Responses
  <2> QED BY <1>0, <1>1, <2>3 DEF HeardFrom
<1>2. ASSUME NEW q \in Requests, Outside(q) PROVE From
  <2>0. UNCHANGED <<pc, taskID, outcome>>
    BY <1>2, OutsideShape DEF vars, invokeVars, backendVars
  <2>1. CASE Post(q) \/ EdgeForwards(q)
    <3>1. heard' = heard /\ refused' = refused /\ (r = q \/ edge'[r] = edge[r])
      BY <1>0, <2>1 DEF Post, EdgeForwards, PathTypeOK
    <3>2. edge[q] \in {"idle", "received"}
      BY <2>1 DEF Post, EdgeForwards
    <3>3. r # q
      BY <1>0, <3>1, <3>2 DEF HeardFrom
    <3> QED BY <1>1, <3>1, <3>3
  <2>2. CASE GiveUp(q)
    BY <1>1, <2>2 DEF GiveUp
  <2>3. CASE Refuse(q)
    <3>1. heard' = heard /\ edge' = edge
      BY <2>3 DEF Refuse
    <3>2. refused[r] # Nil => refused'[r] # Nil
      BY <1>0, <2>3 DEF Refuse, Arrived, PathTypeOK
    <3> QED BY <1>1, <3>1, <3>2
  <2>4. ASSUME NEW status \in Statuses, NEW task \in TaskIDs \cup {BlankID},
               Tell(q, status, task), refused' = refused,
               edge[q] \in {"received", "forwarding"},
               \/ edge' = [edge EXCEPT ![q] = "refused"] /\ status = "invalid_request"
               \/ /\ edge' = [edge EXCEPT ![q] = "closed"]
                  /\ \/ status \in Unheard
                     \/ refused[q] # Nil /\ status \in Refusals
                     \/ pc[q] = "accepted" /\ status = "accepted" /\ task = taskID[q]
                     \/ /\ pc[q] \in Answered \ {"accepted"}
                        /\ status # "accepted"
                        /\ status = "completed" => pc[q] = "answered" /\ outcome[q] = "completed"
        PROVE  From
    <3>1. CASE r # q
      BY <1>0, <1>1, <2>4, <3>1, TellShape DEF PathTypeOK
    <3>2. CASE r = q
      <4>1. heard[r] = Nil
        BY <1>0, <2>4, <3>2 DEF HeardFrom
      <4>2. heard'[r] = [status |-> status, task |-> task]
        BY <1>0, <2>4, <3>2, <4>1, TellShape
      <4>3. heard'[r].status = status
        BY <4>2
      <4> QED BY <1>0, <2>0, <2>4, <3>2, <4>2, <4>3 DEF FromService, PathTypeOK
    <3> QED BY <3>1, <3>2
  <2>5. CASE EdgeRefuses(q)
    BY <2>4, <2>5 DEF EdgeRefuses, Statuses, Refusals
  <2>6. CASE EdgeFails(q)
    BY <2>4, <2>6 DEF EdgeFails, Statuses, Unheard
  <2>7. CASE EdgeCuts(q)
    BY <2>4, <2>7 DEF EdgeCuts, Statuses, Unheard
  <2>8. CASE EdgeRelays(q)
    <3> DEFINE task == IF pc[q] = "accepted" THEN taskID[q] ELSE BlankID
    <3>1. task \in TaskIDs \cup {BlankID}
      BY <1>0 DEF TypeOK
    <3>2. /\ edge[q] = "forwarding" /\ HasAnswer(q)
          /\ edge' = [edge EXCEPT ![q] = "closed"]
          /\ Tell(q, StatusOf(q), task) /\ refused' = refused
      BY <2>8 DEF EdgeRelays
    <3>3. /\ StatusOf(q) \in Statuses
          /\ \/ refused[q] # Nil /\ StatusOf(q) \in Refusals
             \/ pc[q] = "accepted" /\ StatusOf(q) = "accepted" /\ task = taskID[q]
             \/ /\ pc[q] \in Answered \ {"accepted"}
                /\ StatusOf(q) # "accepted"
                /\ StatusOf(q) = "completed" => pc[q] = "answered" /\ outcome[q] = "completed"
      BY <3>2, AnswerShape
    <3> HIDE DEF task
    <3> QED BY <2>4, <3>1, <3>2, <3>3
  <2> QED BY <1>2, <2>1, <2>2, <2>3, <2>5, <2>6, <2>7, <2>8 DEF Outside
<1>3. ASSUME NEW q \in Requests, Inside(q) PROVE From
  BY <1>1, <1>3, InsideShape DEF pathVars
<1>4. CASE UNCHANGED allVars
  BY <1>1, <1>4 DEF allVars, pathVars
<1> QED BY <1>2, <1>3, <1>4, StepKinds

(***************************************************************************)
(* The exchange ends with a word to an agent that still listens.           *)
(***************************************************************************)
LEMMA ToldStep ==
  PathInv /\ [PathNext]_allVars => ClosedIsTold'
<1> SUFFICES ASSUME PathInv, [PathNext]_allVars, NEW r \in Requests,
                    edge'[r] \in {"refused", "closed"}
             PROVE  gone'[r] \/ heard'[r] # Nil
  BY DEF ClosedIsTold
<1>0. TypeOK /\ PathTypeOK /\ ClosedIsTold
  BY DEF PathInv, IInv
<1>1. ASSUME edge'[r] = edge[r], heard'[r] = heard[r], gone[r] => gone'[r]
      PROVE  gone'[r] \/ heard'[r] # Nil
  BY <1>0, <1>1 DEF ClosedIsTold
<1>2. ASSUME NEW q \in Requests, Outside(q) PROVE gone'[r] \/ heard'[r] # Nil
  <2>1. CASE Post(q) \/ EdgeForwards(q)
    BY <1>0, <1>1, <2>1 DEF Post, EdgeForwards, PathTypeOK
  <2>2. CASE GiveUp(q)
    BY <1>0, <1>1, <2>2 DEF GiveUp, PathTypeOK
  <2>3. CASE Refuse(q)
    BY <1>1, <2>3 DEF Refuse
  <2>4. ASSUME NEW status \in Statuses, NEW task \in TaskIDs \cup {BlankID},
               Tell(q, status, task), gone' = gone, r # q => edge'[r] = edge[r]
        PROVE  gone'[r] \/ heard'[r] # Nil
    BY <1>0, <1>1, <2>4, TellShape
  <2>5. CASE EdgeRefuses(q)
    BY <1>0, <2>4, <2>5 DEF EdgeRefuses, Statuses, Refusals, PathTypeOK
  <2>6. CASE EdgeFails(q)
    BY <1>0, <2>4, <2>6 DEF EdgeFails, Statuses, Unheard, PathTypeOK
  <2>7. CASE EdgeCuts(q)
    BY <1>0, <2>4, <2>7 DEF EdgeCuts, Statuses, Unheard, PathTypeOK
  <2>8. CASE EdgeRelays(q)
    <3> DEFINE task == IF pc[q] = "accepted" THEN taskID[q] ELSE BlankID
    <3>1. task \in TaskIDs \cup {BlankID}
      BY <1>0 DEF TypeOK
    <3>2. StatusOf(q) \in Statuses
      BY <2>8, AnswerShape DEF EdgeRelays
    <3>3. Tell(q, StatusOf(q), task) /\ gone' = gone /\ (r # q => edge'[r] = edge[r])
      BY <1>0, <2>8 DEF EdgeRelays, PathTypeOK
    <3> HIDE DEF task
    <3> QED BY <2>4, <3>1, <3>2, <3>3
  <2> QED BY <1>2, <2>1, <2>2, <2>3, <2>5, <2>6, <2>7, <2>8 DEF Outside
<1>3. ASSUME NEW q \in Requests, Inside(q) PROVE gone'[r] \/ heard'[r] # Nil
  BY <1>1, <1>3, InsideShape DEF pathVars
<1>4. CASE UNCHANGED allVars
  BY <1>1, <1>4 DEF allVars, pathVars
<1> QED BY <1>2, <1>3, <1>4, StepKinds

(***************************************************************************)
(* The agent gives up only what it has posted, and posts it once.          *)
(***************************************************************************)
LEMMA GoneStep ==
  PathInv /\ [PathNext]_allVars => GoneHasPosted'
<1> SUFFICES ASSUME PathInv, [PathNext]_allVars, NEW r \in Requests, gone'[r]
             PROVE  edge'[r] # "idle"
  BY DEF GoneHasPosted
<1>0. PathTypeOK /\ GoneHasPosted
  BY DEF PathInv
<1>1. ASSUME UNCHANGED pathVars PROVE edge'[r] # "idle"
  BY <1>0, <1>1 DEF pathVars, GoneHasPosted
<1>2. ASSUME NEW q \in Requests, GiveUp(q) PROVE edge'[r] # "idle"
  BY <1>0, <1>2 DEF GiveUp, GoneHasPosted, PathTypeOK
<1>3. ASSUME NEW q \in Requests, Outside(q), ~GiveUp(q) PROVE edge'[r] # "idle"
  BY <1>0, <1>3 DEF Outside, Post, EdgeRefuses, EdgeForwards, EdgeFails, EdgeRelays, EdgeCuts,
                    Refuse, GoneHasPosted, PathTypeOK
<1> QED BY <1>1, <1>2, <1>3, StepKinds, InsideShape DEF allVars

(***************************************************************************)
(* Every step keeps the types.                                             *)
(***************************************************************************)
LEMMA PathTypeStep ==
  PathInv /\ [PathNext]_allVars => PathTypeOK'
<1> SUFFICES ASSUME PathInv, [PathNext]_allVars PROVE PathTypeOK'
  OBVIOUS
<1>0. TypeOK /\ PathTypeOK /\ AdapterTypeOK /\ TypeOK'
  BY StepInv, StepOfDispatch DEF PathInv, IInv, PathTypeOK
<1>1. AdapterTypeOK'
  <2>1. ASSUME UNCHANGED adapterVars PROVE AdapterTypeOK'
    BY <1>0, <2>1 DEF adapterVars, AdapterTypeOK
  <2>2. ASSUME NEW q \in Requests, Backend(q) PROVE AdapterTypeOK'
    <3>1. CASE Expire(q)
      BY <1>0, <3>1 DEF Expire, AdapterTypeOK
    <3>2. CASE StartProcess(q)
      BY <1>0, <3>2 DEF StartProcess, AdapterTypeOK
    <3>3. CASE ProcessExits(q)
      BY <1>0, <3>3 DEF ProcessExits, AdapterTypeOK, Ended
    <3>4. CASE Kill(q)
      BY <1>0, <3>4 DEF Kill, AdapterTypeOK, Ended
    <3>5. CASE StaticReturns(q) \/ StartFails(q) \/ CommandReturns(q)
      BY <2>1, <3>5 DEF StaticReturns, StartFails, CommandReturns
    <3> QED BY <2>2, <3>1, <3>2, <3>3, <3>4, <3>5 DEF Backend, AdapterStep
  <2>3. ASSUME NEW q \in Requests,
               Outside(q) \/ Dispatched(q) \/ RequestEnds(q) \/ Goroutines(q)
        PROVE  UNCHANGED adapterVars
    BY <2>3, OutsideShape DEF Dispatched, RequestEnds, Goroutines
  <2>4. ASSUME UNCHANGED allVars PROVE UNCHANGED adapterVars
    BY <2>4 DEF allVars
  <2> QED BY <2>1, <2>2, <2>3, <2>4, StepKinds DEF Inside
<1> DEFINE EdgeTypes ==
             /\ edge \in [Requests -> {"idle", "received", "refused", "forwarding", "closed"}]
             /\ refused \in [Requests -> Refusals \cup {Nil}]
             /\ gone \in [Requests -> BOOLEAN]
<1>2. EdgeTypes'
  <2>1. EdgeTypes
    BY <1>0 DEF PathTypeOK
  <2>2. ASSUME NEW q \in Requests, Outside(q) PROVE EdgeTypes'
    BY <2>1, <2>2 DEF Outside, Post, GiveUp, EdgeRefuses, EdgeForwards, EdgeFails,
                      EdgeRelays, EdgeCuts, Refuse
  <2>3. ASSUME UNCHANGED pathVars PROVE EdgeTypes'
    BY <2>1, <2>3 DEF pathVars
  <2> QED BY <2>2, <2>3, StepKinds, InsideShape DEF allVars
<1>3. heard' \in [Requests -> Answers \cup {Nil}]
  <2>1. ASSUME heard' = heard PROVE heard' \in [Requests -> Answers \cup {Nil}]
    BY <1>0, <2>1 DEF PathTypeOK
  <2>2. ASSUME NEW q \in Requests, Outside(q) PROVE heard' \in [Requests -> Answers \cup {Nil}]
    <3>1. ASSUME Post(q) \/ GiveUp(q) \/ EdgeForwards(q) \/ Refuse(q) PROVE heard' = heard
      BY <3>1 DEF Post, GiveUp, EdgeForwards, Refuse
    <3>2. CASE EdgeRefuses(q)
      BY <1>0, <3>2, TellShape DEF EdgeRefuses, Statuses, Refusals
    <3>3. CASE EdgeFails(q)
      BY <1>0, <3>3, TellShape DEF EdgeFails, Statuses, Unheard
    <3>4. CASE EdgeCuts(q)
      BY <1>0, <3>4, TellShape DEF EdgeCuts, Statuses, Unheard
    <3>5. CASE EdgeRelays(q)
      <4> DEFINE task == IF pc[q] = "accepted" THEN taskID[q] ELSE BlankID
      <4>1. task \in TaskIDs \cup {BlankID}
        BY <1>0 DEF TypeOK
      <4>2. StatusOf(q) \in Statuses /\ Tell(q, StatusOf(q), task)
        BY <3>5, AnswerShape DEF EdgeRelays
      <4> HIDE DEF task
      <4> QED BY <1>0, <4>1, <4>2, TellShape
    <3> QED BY <2>1, <2>2, <3>1, <3>2, <3>3, <3>4, <3>5 DEF Outside
  <2>3. ASSUME UNCHANGED pathVars PROVE heard' = heard
    BY <2>3 DEF pathVars
  <2> QED BY <2>1, <2>2, <2>3, StepKinds, InsideShape DEF allVars
<1> QED BY <1>0, <1>1, <1>2, <1>3 DEF PathTypeOK

-----------------------------------------------------------------------------
(***************************************************************************)
(* Before the first request nobody has been told anything.                 *)
(***************************************************************************)
LEMMA PathInitInv == PathInit => PathInv
<1> SUFFICES ASSUME PathInit PROVE PathInv
  OBVIOUS
<1>1. Init /\ IInv /\ TypeOK
  BY InitInv DEF PathInit, IInv
<1>2. PathTypeOK
  BY <1>1 DEF PathInit, PathTypeOK, AdapterInit, AdapterTypeOK
<1>3. OutcomeOfAdapter /\ OutputOfExited
  BY <1>1, DispatchConstants DEF Init, OutcomeOfAdapter, OutputOfExited, Responses
<1>4. RefusedIsIdle /\ HeardFrom /\ ClosedIsTold /\ GoneHasPosted
  BY <1>1 DEF PathInit, Init, RefusedIsIdle, HeardFrom, ClosedIsTold, GoneHasPosted
<1> QED BY <1>1, <1>2, <1>3, <1>4 DEF PathInv

(***************************************************************************)
(* The inductive invariant holds in every reachable state of the path.     *)
(***************************************************************************)
THEOREM PathInductive == PathSpec => []PathInv
<1>1. PathInv /\ [PathNext]_allVars => PathInv'
  <2> SUFFICES ASSUME PathInv, [PathNext]_allVars PROVE PathInv'
    OBVIOUS
  <2>1. IInv'
    BY StepInv, StepOfDispatch DEF PathInv
  <2> QED BY <2>1, PathTypeStep, OutcomeStep, OutputStep, RefusedStep, HeardStep, ToldStep,
          GoneStep
          DEF PathInv
<1> QED BY PathInitInv, <1>1, PTL DEF PathSpec

(***************************************************************************)
(* Type correctness of the whole path.                                     *)
(***************************************************************************)
THEOREM PathTypeCorrect == PathSpec => []PathTypeOK
<1>1. PathInv => PathTypeOK
  BY DEF PathInv
<1> QED BY PathInductive, <1>1, PTL

(* A record belongs to a call that was, or is being, accepted under its id.*)
LEMMA RecordOfAccepted ==
  ASSUME IInv, NEW t \in DOMAIN records
  PROVE  /\ records[t].request \in Requests
         /\ pc[records[t].request] \in {"handoff", "accepted"}
         /\ taskID[records[t].request] = t
  BY RecordOfRequest DEF IInv, RecordHasStorer, StorerOwnsRecord

(***************************************************************************)
(* What the agent is told is so: "accepted" names a task of its own        *)
(* request, and any other answer of the service means that there is none.  *)
(***************************************************************************)
THEOREM HeardTrue == PathSpec => []HeardIsTrue
<1>1. PathInv => HeardIsTrue
  <2> SUFFICES ASSUME PathInv, NEW r \in Requests, heard[r] # Nil
               PROVE  IF heard[r].status = "accepted"
                      THEN heard[r].task \in DOMAIN records /\ records[heard[r].task].request = r
                      ELSE heard[r].status \in Unheard
                             \/ \A t \in DOMAIN records : records[t].request # r
    BY DEF HeardIsTrue
  <2>0. IInv /\ TypeOK /\ RefusedIsIdle /\ HeardFrom
    BY DEF PathInv, IInv
  <2>1. pc[r] \notin {"handoff", "accepted"} => \A t \in DOMAIN records : records[t].request # r
    BY <2>0, RecordOfAccepted
  <2>2. CASE edge[r] = "refused" /\ heard[r].status = "invalid_request"
    BY <2>0, <2>1, <2>2 DEF RefusedIsIdle
  <2>3. CASE heard[r].status \in Unheard
    BY <2>3 DEF Unheard
  <2>4. CASE refused[r] # Nil /\ heard[r].status \in Refusals
    BY <2>0, <2>1, <2>4 DEF RefusedIsIdle, Refusals
  <2>5. CASE pc[r] = "accepted" /\ heard[r] = [status |-> "accepted", task |-> taskID[r]]
    <3>1. storer[r] # "none"
      BY <2>0, <2>5, VoiceConstants DEF IInv, HandoffHasStorer
    <3>2. taskID[r] \in DOMAIN records /\ records[taskID[r]].request = r
      BY <2>0, <3>1 DEF IInv, StorerOwnsRecord
    <3> QED BY <2>5, <3>2
  <2>6. CASE pc[r] \in Answered \ {"accepted"} /\ heard[r].status # "accepted"
    BY <2>1, <2>6 DEF Answered
  <2> QED BY <2>0, <2>2, <2>3, <2>4, <2>5, <2>6 DEF HeardFrom, FromService
<1> QED BY PathInductive, <1>1, PTL

(***************************************************************************)
(* A task whose id nobody was given is left only by a visible failure.     *)
(***************************************************************************)
THEOREM NoTaskIsSecret == PathSpec => []NoSecretTask
<1>1. PathInv => NoSecretTask
  <2> SUFFICES ASSUME PathInv, NEW t \in DOMAIN records, NEW r, r = records[t].request,
                      edge[r] = "closed", ~gone[r]
               PROVE  \/ heard[r] \in [status : {"accepted"}, task : {t}]
                      \/ heard[r].status \in Unheard
    BY DEF NoSecretTask
  <2>0. IInv /\ TypeOK /\ RefusedIsIdle /\ HeardFrom /\ ClosedIsTold
    BY DEF PathInv, IInv
  <2>1. r \in Requests /\ pc[r] \in {"handoff", "accepted"} /\ taskID[r] = t
    BY <2>0, RecordOfAccepted
  <2>2. heard[r] # Nil
    BY <2>0, <2>1 DEF ClosedIsTold
  <2>3. heard[r].status \in Unheard \/ FromService(r)
    BY <2>0, <2>1, <2>2 DEF HeardFrom
  <2> QED BY <2>0, <2>1, <2>3 DEF FromService, RefusedIsIdle, Answered
<1> QED BY PathInductive, <1>1, PTL

(***************************************************************************)
(* A result, told or filed, is the answer of a process that ended by       *)
(* itself.                                                                 *)
(***************************************************************************)
THEOREM WholeResults == PathSpec => []ResultIsWhole
<1>1. PathInv => ResultIsWhole
  <2> SUFFICES ASSUME PathInv, mode = "hermes-cli", NEW r \in Requests,
                      \/ heard[r] # Nil /\ heard[r].status = "completed"
                      \/ \E t \in DOMAIN records :
                           records[t].request = r /\ records[t].status = "completed"
               PROVE  outcome[r] = "completed"
    BY DEF ResultIsWhole, PathInv, OutputOfExited
  <2>0. IInv /\ TypeOK /\ OutcomeOfAdapter /\ HeardFrom
    BY DEF PathInv, IInv
  <2>1. CASE heard[r] # Nil /\ heard[r].status = "completed"
    <3>1. heard[r] # [status |-> "accepted", task |-> taskID[r]]
      BY <2>1
    <3> QED BY <2>0, <2>1, <3>1 DEF HeardFrom, FromService, Refusals, Unheard
  <2>2. ASSUME NEW t \in DOMAIN records,
               records[t].request = r /\ records[t].status = "completed"
        PROVE  outcome[r] = "completed"
    <3>1. records[t].error = Nil
      BY <2>0, <2>2 DEF TypeOK, Store!Record, Store!AcceptedRecord,
                        Store!CompletedRecord, Store!FailedRecord
    <3>2. \A o \in Failures : FailureCode[o] # Nil
      BY DispatchConstants DEF TaskErrors
    <3>3. outcome[r] \in Responses
      BY <2>0, <2>2, <3>1, <3>2 DEF IInv, SettledWithOwnResult
    <3> QED BY <2>0, <3>3, DispatchConstants DEF OutcomeOfAdapter, OwnOutcomes, Responses
  <2> QED BY <2>1, <2>2
<1> QED BY PathInductive, <1>1, PTL

-----------------------------------------------------------------------------
(* The refinement of TaskService: what an agent sees of the whole path.    *)

exchangeBar == [r \in Requests |-> ExchangeOf(r)]
taskBarID   == [r \in Requests |-> IF storer[r] = "none" THEN BlankID ELSE taskID[r]]
recordsBar  == [t \in DOMAIN records |->
                  [request |-> records[t].request, status |-> records[t].status]]

(* An agent that has heard "accepted" has heard of its own task.           *)
LEMMA AcceptedIsOwn ==
  ASSUME PathInv, NEW r \in Requests, heard[r] # Nil, heard[r].status = "accepted"
  PROVE  pc[r] = "accepted" /\ heard[r] = [status |-> "accepted", task |-> taskID[r]]
  BY DEF PathInv, HeardFrom, FromService, Refusals, Unheard

(***************************************************************************)
(* As long as neither agent nor forwarder does anything, no exchange       *)
(* changes, whatever the service does.                                     *)
(***************************************************************************)
LEMMA ExchangeStays ==
  ASSUME PathInv, [PathNext]_allVars, NEW r \in Requests,
         edge'[r] = edge[r], heard'[r] = heard[r], gone'[r] = gone[r]
  PROVE  ExchangeOf(r)' = ExchangeOf(r)
<1> DEFINE Promised == heard[r] = [status |-> "accepted", task |-> taskID[r]]
<1>1. heard[r] # Nil => Promised' = Promised
  <2>1. CASE heard[r] # Nil /\ heard[r].status = "accepted"
    <3>1. pc[r] \in Answered
      BY <2>1, AcceptedIsOwn DEF Answered
    <3>2. taskID'[r] = taskID[r]
      BY <3>1, AnswersStay, StepOfDispatch DEF PathInv, IInv
    <3> QED BY <3>2
  <2>2. CASE heard[r].status # "accepted"
    BY <2>2
  <2> QED BY <2>1, <2>2
<1> QED BY <1>1 DEF ExchangeOf, Meaning

LEMMA ExchangesStay ==
  ASSUME PathInv, [PathNext]_allVars, UNCHANGED pathVars
  PROVE  exchangeBar' = exchangeBar
  BY ExchangeStays DEF exchangeBar, pathVars

(* Where no task comes or goes, there is nothing to see of it.             *)
LEMMA TasksStay ==
  ASSUME UNCHANGED <<taskID, storer, records>>
  PROVE  UNCHANGED <<taskBarID, recordsBar>>
  BY DEF taskBarID, recordsBar

(* One agent's exchange moves.                                             *)
LEMMA ExchangeMoves ==
  ASSUME NEW r \in Requests, NEW to, ExchangeOf(r)' = to,
         \A u \in Requests \ {r} : ExchangeOf(u)' = ExchangeOf(u)
  PROVE  exchangeBar' = [exchangeBar EXCEPT ![r] = to]
  BY DEF exchangeBar

(***************************************************************************)
(* The forwarder ends the exchange: an agent that has given up does not    *)
(* see it, any other hears the status, and only that one does.             *)
(***************************************************************************)
LEMMA TellEnds ==
  ASSUME PathInv, [PathNext]_allVars, NEW q \in Requests,
         NEW status \in Statuses, NEW task \in TaskIDs \cup {BlankID},
         NEW e \in {"refused", "closed"},
         edge[q] \in {"received", "forwarding"},
         edge' = [edge EXCEPT ![q] = e], gone' = gone,
         Tell(q, status, task)
  PROVE  \/ gone[q] /\ exchangeBar' = exchangeBar
         \/ /\ ExchangeOf(q) = "open"
            /\ exchangeBar' = [exchangeBar EXCEPT ![q] =
                 Meaning([status |-> status, task |-> task], taskID'[q])]
<1>0. PathTypeOK /\ HeardFrom
  BY DEF PathInv
<1>1. heard[q] = Nil
  BY <1>0 DEF HeardFrom
<1>2. \A u \in Requests \ {q} : edge'[u] = edge[u] /\ heard'[u] = heard[u] /\ gone'[u] = gone[u]
  BY <1>0, TellShape DEF PathTypeOK
<1>3. \A u \in Requests \ {q} : ExchangeOf(u)' = ExchangeOf(u)
  BY <1>2, ExchangeStays
<1>4. edge'[q] # "idle" /\ edge[q] # "idle"
  BY <1>0 DEF PathTypeOK
<1>5. CASE gone[q]
  <2>1. heard' = heard
    BY <1>5 DEF Tell
  <2>2. ExchangeOf(q)' = "lost" /\ ExchangeOf(q) = "lost"
    BY <1>1, <1>4, <1>5, <2>1 DEF ExchangeOf
  <2>3. \A u \in Requests : ExchangeOf(u)' = ExchangeOf(u)
    BY <1>3, <2>2
  <2> QED BY <1>5, <2>3 DEF exchangeBar
<1>6. CASE ~gone[q]
  <2> DEFINE word == [status |-> status, task |-> task]
             to == Meaning(word, taskID'[q])
  <2>1. heard'[q] = word
    BY <1>0, <1>1, <1>6, TellShape
  <2>2. word \in Answers /\ word # Nil
    BY VoiceConstants DEF Answers
  <2>3. ExchangeOf(q)' = to
    BY <1>4, <2>1, <2>2 DEF ExchangeOf
  <2>4. ExchangeOf(q) = "open"
    BY <1>1, <1>4, <1>6 DEF ExchangeOf
  <2>5. exchangeBar' = [exchangeBar EXCEPT ![q] = to]
    BY <1>3, <2>3, ExchangeMoves
  <2> QED BY <2>4, <2>5
<1> QED BY <1>5, <1>6

(* Only a call that is, or is being, accepted has a task.                  *)
LEMMA TaskOfAccepted ==
  ASSUME IInv, NEW r \in Requests
  PROVE  /\ pc[r] \notin {"handoff", "accepted"} => taskBarID[r] = BlankID
         /\ pc[r] = "accepted" => taskBarID[r] = taskID[r] /\ taskID[r] # BlankID
  BY VoiceConstants, DispatchConstants
     DEF taskBarID, IInv, TypeOK, StorerOwnsRecord, HandoffHasStorer

(***************************************************************************)
(* What agent and forwarder do is a step of the service's exchange, or     *)
(* nothing an agent sees.                                                  *)
(***************************************************************************)
LEMMA OutsideServes ==
  ASSUME PathInv, [PathNext]_allVars, NEW q \in Requests, Outside(q)
  PROVE  \/ Service!Post(q) \/ Service!Answer(q) \/ Service!Promise(q) \/ Service!Lose(q)
         \/ UNCHANGED <<exchangeBar, taskBarID, recordsBar>>
<1> DEFINE Goal == \/ Service!Post(q) \/ Service!Answer(q)
                   \/ Service!Promise(q) \/ Service!Lose(q)
                   \/ UNCHANGED <<exchangeBar, taskBarID, recordsBar>>
<1>0. IInv /\ PathTypeOK /\ HeardFrom /\ RefusedIsIdle /\ GoneHasPosted
  BY DEF PathInv
<1>1. UNCHANGED <<pc, taskID, storer, records>>
  BY OutsideShape DEF vars, invokeVars, taskVars
<1>2. UNCHANGED <<taskBarID, recordsBar>>
  BY <1>1, TasksStay
<1>3. ASSUME NEW to, ExchangeOf(q)' = to,
             \A u \in Requests \ {q} :
               edge'[u] = edge[u] /\ heard'[u] = heard[u] /\ gone'[u] = gone[u]
      PROVE  exchangeBar' = [exchangeBar EXCEPT ![q] = to]
  BY <1>3, ExchangeStays, ExchangeMoves
<1>4. ASSUME exchangeBar[q] = "none", exchangeBar' = [exchangeBar EXCEPT ![q] = "open"]
      PROVE  Service!Post(q)
  BY <1>2, <1>4 DEF Service!Post, exchangeBar, taskBarID, recordsBar
<1>5. ASSUME exchangeBar[q] = "open", taskBarID[q] = BlankID,
             exchangeBar' = [exchangeBar EXCEPT ![q] = "answered"]
      PROVE  Service!Answer(q)
  BY <1>2, <1>5 DEF Service!Answer, exchangeBar, taskBarID, recordsBar
<1>6. ASSUME exchangeBar[q] = "open", taskBarID[q] # BlankID,
             exchangeBar' = [exchangeBar EXCEPT ![q] = "promised"]
      PROVE  Service!Promise(q)
  BY <1>2, <1>6 DEF Service!Promise, exchangeBar, taskBarID, recordsBar
<1>7. ASSUME exchangeBar[q] = "open", exchangeBar' = [exchangeBar EXCEPT ![q] = "lost"]
      PROVE  Service!Lose(q)
  BY <1>2, <1>7 DEF Service!Lose, exchangeBar, taskBarID, recordsBar
<1>8. ExchangeOf(q) = exchangeBar[q]
  BY DEF exchangeBar
<1>9. CASE Post(q)
  <2>1. heard[q] = Nil /\ ~gone[q]
    BY <1>0, <1>9 DEF Post, HeardFrom, GoneHasPosted, PathTypeOK
  <2>2. ExchangeOf(q) = "none" /\ ExchangeOf(q)' = "open"
    BY <1>0, <1>9, <2>1 DEF Post, ExchangeOf, PathTypeOK
  <2>3. exchangeBar' = [exchangeBar EXCEPT ![q] = "open"]
    BY <1>0, <1>3, <1>9, <2>2 DEF Post, PathTypeOK
  <2> QED BY <1>4, <1>8, <2>2, <2>3
<1>10. CASE GiveUp(q)
  <2>1. ExchangeOf(q) = "open" /\ ExchangeOf(q)' = "lost"
    BY <1>0, <1>10 DEF GiveUp, ExchangeOf, PathTypeOK
  <2>2. exchangeBar' = [exchangeBar EXCEPT ![q] = "lost"]
    BY <1>0, <1>3, <1>10, <2>1 DEF GiveUp, PathTypeOK
  <2> QED BY <1>7, <1>8, <2>1, <2>2
<1>11. CASE EdgeForwards(q)
  <2>1. edge[q] = "received" /\ edge'[q] = "forwarding" /\ heard' = heard /\ gone' = gone
    BY <1>0, <1>11 DEF EdgeForwards, PathTypeOK
  <2>2. heard[q] = Nil
    BY <1>0, <2>1 DEF HeardFrom
  <2>3. ExchangeOf(q)' = ExchangeOf(q)
    BY <2>1, <2>2 DEF ExchangeOf
  <2>4. \A u \in Requests \ {q} : edge'[u] = edge[u]
    BY <1>0, <1>11 DEF EdgeForwards, PathTypeOK
  <2>5. exchangeBar' = [exchangeBar EXCEPT ![q] = exchangeBar[q]]
    BY <1>3, <1>8, <2>1, <2>3, <2>4
  <2> QED BY <1>2, <2>5 DEF exchangeBar
<1>12. CASE Refuse(q)
  <2>1. \A u \in Requests : edge'[u] = edge[u] /\ heard'[u] = heard[u] /\ gone'[u] = gone[u]
    BY <1>12 DEF Refuse
  <2>2. exchangeBar' = exchangeBar
    BY <2>1, ExchangeStays DEF exchangeBar
  <2> QED BY <1>2, <2>2
<1>13. CASE EdgeRefuses(q)
  <2>1. taskBarID[q] = BlankID
    BY <1>0, <1>13, TaskOfAccepted DEF EdgeRefuses, RefusedIsIdle
  <2>2. \/ gone[q] /\ exchangeBar' = exchangeBar
        \/ /\ ExchangeOf(q) = "open"
           /\ exchangeBar' = [exchangeBar EXCEPT ![q] =
                Meaning([status |-> "invalid_request", task |-> BlankID], taskID'[q])]
    BY <1>13, TellEnds DEF EdgeRefuses, Statuses, Refusals
  <2>3. Meaning([status |-> "invalid_request", task |-> BlankID], taskID'[q]) = "answered"
    BY DEF Meaning, Unheard
  <2> QED BY <1>2, <1>5, <1>8, <2>1, <2>2, <2>3
<1>14. ASSUME NEW status \in Unheard, Tell(q, status, BlankID), edge[q] = "forwarding",
              edge' = [edge EXCEPT ![q] = "closed"], gone' = gone
       PROVE  Goal
  <2>1. status \in Statuses
    BY <1>14 DEF Statuses
  <2>2. \/ gone[q] /\ exchangeBar' = exchangeBar
        \/ /\ ExchangeOf(q) = "open"
           /\ exchangeBar' = [exchangeBar EXCEPT ![q] =
                Meaning([status |-> status, task |-> BlankID], taskID'[q])]
    BY <1>14, <2>1, TellEnds
  <2>3. Meaning([status |-> status, task |-> BlankID], taskID'[q]) = "lost"
    BY <1>14 DEF Meaning, Unheard
  <2> QED BY <1>2, <1>7, <1>8, <2>2, <2>3
<1>15. CASE EdgeFails(q)
  BY <1>14, <1>15 DEF EdgeFails, Unheard
<1>16. CASE EdgeCuts(q)
  BY <1>14, <1>16 DEF EdgeCuts, Unheard
<1>17. CASE EdgeRelays(q)
  <2> DEFINE task == IF pc[q] = "accepted" THEN taskID[q] ELSE BlankID
             word == [status |-> StatusOf(q), task |-> task]
  <2>1. task \in TaskIDs \cup {BlankID}
    BY <1>0 DEF IInv, TypeOK
  <2>2. /\ edge[q] = "forwarding" /\ edge' = [edge EXCEPT ![q] = "closed"] /\ gone' = gone
        /\ HasAnswer(q) /\ Tell(q, StatusOf(q), task)
    BY <1>17 DEF EdgeRelays
  <2>3. /\ StatusOf(q) \in Statuses \ Unheard
        /\ \/ pc[q] \notin {"handoff", "accepted"} /\ StatusOf(q) # "accepted"
           \/ pc[q] = "accepted" /\ StatusOf(q) = "accepted"
    BY <2>2, AnswerShape DEF Refusals, Answered
  <2>4. \/ gone[q] /\ exchangeBar' = exchangeBar
        \/ /\ ExchangeOf(q) = "open"
           /\ exchangeBar' = [exchangeBar EXCEPT ![q] = Meaning(word, taskID'[q])]
    <3> HIDE DEF task
    <3> QED BY <2>1, <2>2, <2>3, TellEnds
  <2>5. CASE pc[q] = "accepted" /\ StatusOf(q) = "accepted"
    <3>1. taskBarID[q] # BlankID
      BY <1>0, <2>5, TaskOfAccepted
    <3>2. Meaning(word, taskID'[q]) = "promised"
      BY <1>1, <2>5 DEF Meaning
    <3> QED BY <1>2, <1>6, <1>8, <2>4, <3>1, <3>2
  <2>6. CASE pc[q] \notin {"handoff", "accepted"} /\ StatusOf(q) # "accepted"
    <3>1. taskBarID[q] = BlankID
      BY <1>0, <2>6, TaskOfAccepted
    <3>2. Meaning(word, taskID'[q]) = "answered"
      BY <2>3, <2>6 DEF Meaning
    <3> QED BY <1>2, <1>5, <1>8, <2>4, <3>1, <3>2
  <2> QED BY <2>3, <2>5, <2>6
<1> QED BY <1>9, <1>10, <1>11, <1>12, <1>13, <1>15, <1>16, <1>17 DEF Outside

(***************************************************************************)
(* A storer settles the task of its own request.                           *)
(***************************************************************************)
LEMMA StoreServes ==
  ASSUME PathInv, NEW q \in Requests, StoreResult(q), exchangeBar' = exchangeBar
  PROVE  Service!Settle(q)
<1>0. IInv /\ TypeOK
  BY DEF PathInv, IInv
<1>1. /\ storer[q] = "waiting" /\ result[q] # Nil
      /\ storer' = [storer EXCEPT ![q] = "done"]
      /\ UNCHANGED taskID
  BY DEF StoreResult, invokeVars
<1> DEFINE id == taskID[q]
<1>2. /\ id \in DOMAIN records /\ id \in TaskIDs
      /\ records[id].status = "accepted" /\ records[id].request = q
  BY <1>0, <1>1 DEF IInv, TypeOK, StorerOwnsRecord
<1>3. records[id] \in Store!AcceptedRecord
  BY <1>0, <1>2 DEF TypeOK, Store!Record, Store!AcceptedRecord, Store!CompletedRecord,
                    Store!FailedRecord
<1>4. PICK rec :
        /\ rec.status \in {"completed", "failed"} /\ rec.request = q
        /\ records' = [t \in DOMAIN records |-> IF t = id THEN rec ELSE records[t]]
  <2>1. PICK err :
          \/ result[q] \in Failures /\ Store!Fail(id, FailureCode[result[q]], err)
          \/ result[q] \in Responses /\ Store!Complete(id, result[q], err)
    BY DEF StoreResult, Settle
  <2>2. CASE Store!Fail(id, FailureCode[result[q]], err)
    <3>1. /\ Store!FailedWith(records[id], FailureCode[result[q]]).status = "failed"
          /\ Store!FailedWith(records[id], FailureCode[result[q]]).request = q
      BY <1>2, <1>3 DEF Store!FailedWith, Store!AcceptedRecord
    <3> QED BY <1>2, <2>2, <3>1, FailShape
  <2>3. CASE result[q] \in Responses /\ Store!Complete(id, result[q], err)
    <3>1. /\ Store!CompletedWith(records[id], result[q]).status = "completed"
          /\ Store!CompletedWith(records[id], result[q]).request = q
      BY <1>2, <1>3 DEF Store!CompletedWith, Store!AcceptedRecord
    <3> QED BY <1>2, <2>3, <3>1, CompleteShape
  <2> QED BY <2>1, <2>2, <2>3
<1>5. taskBarID' = taskBarID
  BY <1>0, <1>1 DEF taskBarID, TypeOK
<1>6. id \in DOMAIN recordsBar /\ recordsBar[id] = [request |-> q, status |-> "accepted"]
  BY <1>2 DEF recordsBar
<1>7. recordsBar' = [recordsBar EXCEPT ![id].status = rec.status]
  <2>1. recordsBar' = [t \in DOMAIN records |->
                         IF t = id THEN [request |-> q, status |-> rec.status]
                         ELSE [request |-> records[t].request, status |-> records[t].status]]
    BY <1>4 DEF recordsBar
  <2>2. [recordsBar[id] EXCEPT !.status = rec.status] = [request |-> q, status |-> rec.status]
    BY <1>6
  <2> QED BY <1>6, <2>1, <2>2 DEF recordsBar
<1>8. rec.status \in Service!Settled
  BY <1>4 DEF Service!Settled
<1> QED BY <1>5, <1>6, <1>7, <1>8 DEF Service!Settle, exchangeBar, taskBarID, recordsBar

(***************************************************************************)
(* A call that becomes a task is one no agent has had an answer for.       *)
(***************************************************************************)
LEMMA CreateServes ==
  ASSUME PathInv, NEW q \in Requests, CreateTask(q), exchangeBar' = exchangeBar
  PROVE  \/ \E id \in DOMAIN recordsBar' : Service!Accept(q, id)
         \/ UNCHANGED <<taskBarID, recordsBar>>
<1>0. IInv /\ TypeOK /\ RefusedIsIdle /\ HeardFrom
  BY DEF PathInv, IInv
<1> DEFINE id == taskID[q]
<1>1. pc[q] = "named" /\ taskID' = taskID /\ storer[q] = "none" /\ id \in TaskIDs
  BY <1>0 DEF CreateTask, IInv, StorerOwnsRecord, NamedHasID
<1>2. PICK err : /\ Store!CreateAccepted(id, q, err)
                 /\ err = "nil" => storer' = [storer EXCEPT ![q] = "waiting"]
                 /\ err # "nil" => storer' = storer
  BY DEF CreateTask
<1>3. \/ err # "nil" /\ records' = records
      \/ /\ err = "nil"
         /\ id \notin DOMAIN records
         /\ records' = [t \in DOMAIN records \cup {id} |->
                          IF t = id THEN Store!NewRecord(q) ELSE records[t]]
  BY <1>1, <1>2, CreateShape
<1>4. CASE err # "nil"
  BY <1>1, <1>2, <1>3, <1>4, TasksStay
<1>5. CASE err = "nil"
  <2>1. exchangeBar[q] \in {"open", "lost"}
    <3>1. edge[q] # "idle" /\ edge[q] # "refused" /\ refused[q] = Nil
      BY <1>0, <1>1 DEF RefusedIsIdle
    <3>2. CASE heard[q] = Nil
      BY <3>1, <3>2 DEF exchangeBar, ExchangeOf
    <3>3. CASE heard[q] # Nil
      <4>1. heard[q].status \in Unheard
        BY <1>0, <1>1, <3>1, <3>3 DEF HeardFrom, FromService, Answered
      <4>2. heard[q] # [status |-> "accepted", task |-> taskID[q]]
        BY <4>1 DEF Unheard
      <4> QED BY <3>1, <3>3, <4>1, <4>2 DEF exchangeBar, ExchangeOf, Meaning
    <3> QED BY <3>2, <3>3
  <2>2. taskBarID[q] = BlankID
    BY <1>1 DEF taskBarID
  <2>3. taskBarID' = [taskBarID EXCEPT ![q] = id]
    BY <1>0, <1>1, <1>2, <1>5 DEF taskBarID, TypeOK
  <2>4. DOMAIN recordsBar = DOMAIN records /\ id \notin DOMAIN recordsBar
    BY <1>3, <1>5 DEF recordsBar
  <2>5. Store!NewRecord(q).request = q /\ Store!NewRecord(q).status = "accepted"
    BY DEF Store!NewRecord
  <2>6. recordsBar' = [k \in DOMAIN recordsBar \cup {id} |->
                         IF k = id THEN [request |-> q, status |-> "accepted"]
                                   ELSE recordsBar[k]]
    BY <1>3, <1>5, <2>4, <2>5 DEF recordsBar
  <2>7. id \in DOMAIN recordsBar'
    BY <2>6
  <2>8. Service!Accept(q, id)
    BY <1>1, <2>1, <2>2, <2>3, <2>4, <2>6
       DEF Service!Accept, exchangeBar, taskBarID, recordsBar
  <2> DEFINE accepted(k) == Service!Accept(q, k)
  <2>9. accepted(id)
    BY <2>8
  <2> HIDE DEF accepted
  <2>10. \E k \in DOMAIN recordsBar' : accepted(k)
    BY <2>7, <2>9
  <2> QED BY <2>10 DEF accepted
<1> QED BY <1>4, <1>5

(***************************************************************************)
(* What the service does meanwhile is the acceptance of a request, the     *)
(* settling of a task, or nothing an agent sees.                           *)
(***************************************************************************)
LEMMA InsideServes ==
  ASSUME PathInv, [PathNext]_allVars, NEW q \in Requests, Inside(q)
  PROVE  \/ \E id \in DOMAIN recordsBar' : Service!Accept(q, id)
         \/ Service!Settle(q)
         \/ UNCHANGED <<exchangeBar, taskBarID, recordsBar>>
<1>0. IInv /\ TypeOK
  BY DEF PathInv, IInv
<1>1. exchangeBar' = exchangeBar
  BY InsideShape, ExchangesStay
<1>2. CASE StoreResult(q)
  BY <1>1, <1>2, StoreServes
<1>3. CASE CreateTask(q)
  BY <1>1, <1>3, CreateServes
<1>4. CASE NewTaskID(q)
  <2>1. storer[q] = "none" /\ UNCHANGED <<storer, records>>
    BY <1>0, <1>4 DEF NewTaskID, taskVars, IInv, StorerOwnsRecord
  <2>2. \A u \in Requests \ {q} : taskID'[u] = taskID[u]
    BY <1>0, <1>4 DEF NewTaskID, TypeOK
  <2>3. taskBarID' = taskBarID
    BY <2>1, <2>2 DEF taskBarID
  <2>4. recordsBar' = recordsBar
    BY <2>1 DEF recordsBar
  <2> QED BY <1>1, <2>3, <2>4
<1>5. ASSUME UNCHANGED <<taskID, storer, records>>
      PROVE  UNCHANGED <<exchangeBar, taskBarID, recordsBar>>
  BY <1>1, <1>5, TasksStay
<1>6. ASSUME Dispatched(q) \/ RequestEnds(q) PROVE UNCHANGED <<taskID, storer, records>>
  BY <1>6 DEF Dispatched, RequestEnds, Invoke, CallerGone, taskVars
<1>7. ASSUME \/ Select(q) \/ ReturnResult(q) \/ ReturnCanceled(q) \/ ReturnAccepted(q)
             \/ TimerFires(q) \/ SendResult(q)
      PROVE  UNCHANGED <<taskID, storer, records>>
  BY <1>7 DEF Select, ReturnResult, ReturnCanceled, ReturnAccepted, TimerFires, SendResult,
              taskVars
<1>8. ASSUME Backend(q) PROVE UNCHANGED <<taskID, storer, records>>
  BY <1>8, AdapterShape DEF Backend, BackendReturns, vars, invokeVars, taskVars
<1> QED BY <1>2, <1>3, <1>4, <1>5, <1>6, <1>7, <1>8 DEF Inside, Goroutines, Proceed

(***************************************************************************)
(* Before the first request the service is the empty service.              *)
(***************************************************************************)
LEMMA InitServes == PathInit => Service!Init
<1> SUFFICES ASSUME PathInit PROVE Service!Init
  OBVIOUS
<1>1. exchangeBar = [r \in Requests |-> "none"]
  BY DEF PathInit, exchangeBar, ExchangeOf
<1>2. taskBarID = [r \in Requests |-> BlankID]
  BY DEF PathInit, Init, taskBarID
<1>3. recordsBar = [id \in {} |-> BlankID]
  BY DEF PathInit, Init, recordsBar, Store!EmptyStore
<1> QED BY <1>1, <1>2, <1>3 DEF Service!Init, Service!EmptyStore, exchangeBar, taskBarID, recordsBar

(***************************************************************************)
(* The whole path, forwarder, handler, dispatcher, task store and adapter, *)
(* implements the service the conversation agent is modelled on, for any   *)
(* number of agents, any clash of task ids and any order of timeouts.      *)
(***************************************************************************)
THEOREM PathImplementsService == PathSpec => ImplementsService
<1>1. PathInv /\ [PathNext]_allVars => [Service!Next]_(Service!vars)
  <2> SUFFICES ASSUME PathInv, [PathNext]_allVars PROVE [Service!Next]_(Service!vars)
    OBVIOUS
  <2>1. ASSUME UNCHANGED <<exchangeBar, taskBarID, recordsBar>>
        PROVE  UNCHANGED Service!vars
    BY <2>1 DEF Service!vars, exchangeBar, taskBarID, recordsBar
  <2>2. ASSUME NEW q \in Requests, Outside(q) PROVE [Service!Next]_(Service!vars)
    BY <2>1, <2>2, OutsideServes DEF Service!Next
  <2>3. ASSUME NEW q \in Requests, Inside(q) PROVE [Service!Next]_(Service!vars)
    BY <2>1, <2>3, InsideServes DEF Service!Next, recordsBar
  <2>4. CASE UNCHANGED allVars
    BY <2>1, <2>4, ExchangesStay, TasksStay DEF allVars, vars, invokeVars, taskVars
  <2> QED BY <2>2, <2>3, <2>4, StepKinds
<1> QED BY InitServes, PathInductive, <1>1, PTL DEF PathSpec, ImplementsService, Service!Spec
=============================================================================
