---------------------------- MODULE TaskLifecycle ----------------------------
(***************************************************************************)
(* What the dispatcher promises, whatever its timers, channels and         *)
(* goroutines do: each call is answered exactly once; a background task    *)
(* exists for a call exactly when the call is (about to be) answered       *)
(* "accepted"; and a task that was accepted is settled exactly once.       *)
(*                                                                         *)
(* The statements come from internal/dispatch/dispatcher.go: Invoke (the   *)
(* four ways it returns) and storeBackendResult.                           *)
(***************************************************************************)
CONSTANTS
  Requests,   \* calls to Invoke
  Stored      \* whether accepted work is kept in a task store

VARIABLES
  call,       \* call[r]: how far the call is, and how it was answered
  task        \* task[r]: the status of the background task kept for it

vars == <<call, task>>

Answers == {"answered", "canceled", "rejected", "accepted"}
Settled == {"completed", "failed"}

LifecycleTypeOK ==
  /\ call \in [Requests -> {"none", "open"} \cup Answers]
  /\ task \in [Requests -> {"none", "accepted"} \cup Settled]

Init ==
  /\ call = [r \in Requests |-> "none"]
  /\ task = [r \in Requests |-> "none"]

Open(r) ==
  /\ call[r] = "none"
  /\ call' = [call EXCEPT ![r] = "open"]
  /\ UNCHANGED task

(* The backend's own result, the caller's cancellation, or a task id that  *)
(* is taken: the call ends and nothing is left behind.                     *)
End(r) ==
  /\ call[r] = "open"
  /\ task[r] = "none"
  /\ \E a \in Answers \ {"accepted"} : call' = [call EXCEPT ![r] = a]
  /\ UNCHANGED task

CreateTask(r) ==
  /\ Stored
  /\ call[r] = "open"
  /\ task[r] = "none"
  /\ task' = [task EXCEPT ![r] = "accepted"]
  /\ UNCHANGED call

Accept(r) ==
  /\ call[r] = "open"
  /\ Stored => task[r] # "none"
  /\ call' = [call EXCEPT ![r] = "accepted"]
  /\ UNCHANGED task

Settle(r) ==
  /\ task[r] = "accepted"
  /\ \E s \in Settled : task' = [task EXCEPT ![r] = s]
  /\ UNCHANGED call

Next == \E r \in Requests : Open(r) \/ End(r) \/ CreateTask(r) \/ Accept(r) \/ Settle(r)

Spec == Init /\ [][Next]_vars

(* Every open call is answered, every accepted task is settled.            *)
Fairness ==
  \A r \in Requests :
    /\ WF_vars(End(r) \/ CreateTask(r) \/ Accept(r))
    /\ WF_vars(Settle(r))

FairSpec == Spec /\ Fairness
=============================================================================
