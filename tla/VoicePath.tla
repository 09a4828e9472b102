------------------------------- MODULE VoicePath -------------------------------
(***************************************************************************)
(* The way of a spoken request, composed: the agent's POST, the edge       *)
(* forwarder (internal/forwarder/forwarder.go), the text handler of the    *)
(* central service (devText in internal/devclient/handler.go), its         *)
(* dispatcher and its backend adapter.                                     *)
(*                                                                         *)
(* Each hop gives up on its own: the agent after 75 s, the forwarder after *)
(* its own timeout, the dispatcher's caller when the connection is closed. *)
(* An answer may be under way when its reader gives up, and a request may  *)
(* reach the service after the forwarder has given it up.  The time limits *)
(* are configured separately, so any of them may come first.               *)
(***************************************************************************)
EXTENDS Adapters

VARIABLES
  edge,     \* edge[r]: the forwarder's text handler for request r
  refused,  \* refused[r]: the error code of an early return of devText
  heard,    \* heard[r]: what the agent was answered
  gone      \* gone[r]: the agent has given up

pathVars == <<edge, refused, heard, gone>>
allVars  == <<vars, adapterVars, pathVars>>

(* parseDevTextRequest, and Registry.Resolve.                              *)
Refusals == {"invalid_request", "route_error"}

(* What tells the agent nothing of the service: the forwarder's own error, *)
(* and a body that does not parse.                                         *)
Unheard == {"upstream_unavailable", "garbled"}

Statuses ==
  Refusals \cup Responses \cup
    {"failed", "backend_invalid_request", "backend_unauthorized", "backend_temporary",
     "backend_invocation_failed", "internal_error"} \cup Unheard

(* What an exchange tells the agent: a status, and with "accepted" a task. *)
Answers == [status : Statuses, task : TaskIDs \cup {BlankID}]

ASSUME VoiceConstants ==
  /\ HasStore            \* main.go builds the dispatcher with a store
  /\ Nil \notin Answers

(* Mutation of ResponseStatus: the adapter's own class is passed on.       *)
ResponseStatusRaw == [o \in Responses \cup Failures |-> o]

(* backendErrorStatus; a response keeps its status.                        *)
ResponseStatus ==
  [o \in Responses \cup Failures |->
     CASE o \in Responses \cup {"failed"} -> o
       [] o = "invalid_request"   -> "backend_invalid_request"
       [] o = "unauthorized"      -> "backend_unauthorized"
       [] o = "temporary"         -> "backend_temporary"
       [] o = "invocation_failed" -> "backend_invocation_failed"
       [] OTHER                   -> "internal_error"]

PathTypeOK ==
  /\ TypeOK
  /\ AdapterTypeOK
  /\ edge \in [Requests -> {"idle", "received", "refused", "forwarding", "closed"}]
  /\ refused \in [Requests -> Refusals \cup {Nil}]
  /\ heard \in [Requests -> Answers \cup {Nil}]
  /\ gone \in [Requests -> BOOLEAN]

PathInit ==
  /\ Init
  /\ AdapterInit
  /\ edge = [r \in Requests |-> "idle"]
  /\ refused = [r \in Requests |-> Nil]
  /\ heard = [r \in Requests |-> Nil]
  /\ gone = [r \in Requests |-> FALSE]

-----------------------------------------------------------------------------
(* The agent.                                                              *)

Post(r) ==
  /\ edge[r] = "idle"
  /\ edge' = [edge EXCEPT ![r] = "received"]
  /\ UNCHANGED <<refused, heard, gone, vars, adapterVars>>

GiveUp(r) ==
  /\ edge[r] # "idle"
  /\ heard[r] = Nil /\ ~gone[r]
  /\ gone' = [gone EXCEPT ![r] = TRUE]
  /\ UNCHANGED <<edge, refused, heard, vars, adapterVars>>

(* The exchange with the agent ends, which hears of it if it still listens.*)
Tell(r, status, task) ==
  heard' = IF gone[r] THEN heard
           ELSE [heard EXCEPT ![r] = [status |-> status, task |-> task]]

-----------------------------------------------------------------------------
(* The forwarder: text, and forward.                                       *)

(* Lines 59-79: method, size, JSON.                                        *)
EdgeRefuses(r) ==
  /\ edge[r] = "received"
  /\ edge' = [edge EXCEPT ![r] = "refused"]
  /\ Tell(r, "invalid_request", BlankID)
  /\ UNCHANGED <<refused, gone, vars, adapterVars>>

EdgeForwards(r) ==
  /\ edge[r] = "received"
  /\ edge' = [edge EXCEPT ![r] = "forwarding"]
  /\ UNCHANGED <<refused, heard, gone, vars, adapterVars>>

(* Client.Do or ReadAll fails: the timeout, a connection refused or lost,  *)
(* or the agent that hung up, before or after the service has answered.    *)
EdgeFails(r) ==
  /\ edge[r] = "forwarding"
  /\ edge' = [edge EXCEPT ![r] = "closed"]
  /\ Tell(r, "upstream_unavailable", BlankID)
  /\ UNCHANGED <<refused, gone, vars, adapterVars>>

HasAnswer(r) == refused[r] # Nil \/ pc[r] \in Answered

(* What devText writes.                                                    *)
StatusOf(r) ==
  CASE refused[r] # Nil    -> refused[r]
    [] pc[r] = "answered"  -> ResponseStatus[outcome[r]]
    [] pc[r] = "accepted"  -> "accepted"
    [] OTHER               -> "internal_error"

(* Mutation of EdgeRelays: the status is passed on and the body is not.    *)
EdgeRelaysStatus(r) ==
  /\ edge[r] = "forwarding"
  /\ HasAnswer(r)
  /\ edge' = [edge EXCEPT ![r] = "closed"]
  /\ Tell(r, StatusOf(r), BlankID)
  /\ UNCHANGED <<refused, gone, vars, adapterVars>>

EdgeRelays(r) ==
  /\ edge[r] = "forwarding"
  /\ HasAnswer(r)
  /\ edge' = [edge EXCEPT ![r] = "closed"]
  /\ Tell(r, StatusOf(r), IF pc[r] = "accepted" THEN taskID[r] ELSE BlankID)
  /\ UNCHANGED <<refused, gone, vars, adapterVars>>

(* Line 148: of an answer longer than the limit (devText returns the text  *)
(* and every step of its cleanup) only the beginning is passed on.         *)
EdgeCuts(r) ==
  /\ edge[r] = "forwarding"
  /\ refused[r] = Nil /\ HasAnswer(r)
  /\ StatusOf(r) \in Responses \cup {"failed"}
  /\ edge' = [edge EXCEPT ![r] = "closed"]
  /\ Tell(r, "garbled", BlankID)
  /\ UNCHANGED <<refused, gone, vars, adapterVars>>

-----------------------------------------------------------------------------
(* The service: the request arrives while the forwarder waits or later.    *)
Arrived(r) == edge[r] \in {"forwarding", "closed"} /\ refused[r] = Nil

Refuse(r) ==
  /\ Arrived(r) /\ pc[r] = "idle"
  /\ \E code \in Refusals : refused' = [refused EXCEPT ![r] = code]
  /\ UNCHANGED <<edge, heard, gone, vars, adapterVars>>

Dispatched(r) ==
  /\ Arrived(r)
  /\ Invoke(r)
  /\ UNCHANGED <<adapterVars, pathVars>>

(* net/http ends r.Context() when the connection is closed or the handler  *)
(* returns.                                                                *)
RequestEnds(r) ==
  /\ pc[r] # "idle"
  /\ edge[r] = "closed" \/ pc[r] \in Answered
  /\ CallerGone(r)
  /\ UNCHANGED <<adapterVars, pathVars>>

Goroutines(r) ==
  /\ Proceed(r) \/ TimerFires(r) \/ SendResult(r) \/ StoreResult(r)
  /\ UNCHANGED <<adapterVars, pathVars>>

Backend(r) == AdapterStep(r) /\ UNCHANGED pathVars

(* Nobody is left to do anything.                                          *)
AtRest(r) ==
  /\ edge[r] \in {"refused", "closed"}
  /\ heard[r] # Nil \/ gone[r]
  /\ pc[r] = "idle" \/ Quiescent(r)

PathIdle == (\A r \in Requests : AtRest(r)) /\ UNCHANGED allVars

PathNext ==
  \/ \E r \in Requests :
       \/ Post(r) \/ GiveUp(r)
       \/ EdgeRefuses(r) \/ EdgeForwards(r) \/ EdgeFails(r) \/ EdgeRelays(r) \/ EdgeCuts(r)
       \/ Refuse(r) \/ Dispatched(r) \/ RequestEnds(r)
       \/ Goroutines(r) \/ Backend(r)
  \/ PathIdle

PathSpec == PathInit /\ [][PathNext]_allVars

(***************************************************************************)
(* Every timer fires and every runnable goroutine runs.  Nothing makes the *)
(* agent post, a process end or an answer overtake a timeout.              *)
(***************************************************************************)
PathFairness ==
  /\ Scheduling
  /\ AdapterFairness
  /\ \A r \in Requests :
       /\ WF_allVars(EdgeRefuses(r) \/ EdgeForwards(r))
       /\ WF_allVars(EdgeFails(r))
       /\ WF_allVars(RequestEnds(r))

FairPathSpec == PathSpec /\ PathFairness

-----------------------------------------------------------------------------
(***************************************************************************)
(* What the agent is told is so: after "accepted" the store has a task of  *)
(* this very request under the id it was given, which it may poll; after   *)
(* any other answer of the service no task of the request exists, now or   *)
(* ever, however the answer raced with the timeouts (lines 68-105 of the   *)
(* dispatcher, devText, forward).                                          *)
(***************************************************************************)
HeardIsTrue ==
  \A r \in Requests : heard[r] # Nil =>
    IF heard[r].status = "accepted"
    THEN heard[r].task \in DOMAIN records /\ records[heard[r].task].request = r
    ELSE heard[r].status \in Unheard
           \/ \A t \in DOMAIN records : records[t].request # r

(***************************************************************************)
(* A task nobody was given the id of is left only by an exchange that      *)
(* failed visibly: the agent gave up, was told that the upstream is        *)
(* unavailable (the forwarder's timeout, line 144 of forwarder.go), or got *)
(* an answer it cannot read (the limit of line 148).                       *)
(***************************************************************************)
NoSecretTask ==
  \A t \in DOMAIN records :
    LET r == records[t].request IN
    edge[r] = "closed" =>
      \/ gone[r]
      \/ heard[r] \in [status : {"accepted"}, task : {t}]
      \/ heard[r].status \in Unheard

(***************************************************************************)
(* A result, told at once or filed with the task, is what a process had to *)
(* say that ended by itself with success: output of a process that was     *)
(* killed by a timeout or a cancellation is never taken for an answer      *)
(* (lines 80-102 of hermes_cli.go).                                        *)
(***************************************************************************)
ResultIsWhole ==
  mode = "hermes-cli" =>
    \A r \in Requests :
      \/ heard[r] # Nil /\ heard[r].status = "completed"
      \/ \E t \in DOMAIN records : records[t].request = r /\ records[t].status = "completed"
      => proc[r] = "answered"

(***************************************************************************)
(* No work goes on for nobody: when the exchange with the forwarder is     *)
(* over, the adapter comes back, even from a process that would never end, *)
(* unless the request has become a task.  The close of one connection has  *)
(* to travel through r.Context(), the dispatcher's select, invokeCtx and   *)
(* the kill of the process.                                                *)
(***************************************************************************)
WorkEnds ==
  \A r \in Requests :
    edge[r] = "closed" /\ pc[r] # "idle" ~> backend[r] = "done" \/ pc[r] = "accepted"

(***************************************************************************)
(* An accepted task is settled, with a process that never ends too, if the *)
(* server was started with --hermes-timeout or without Hermes.             *)
(***************************************************************************)
AcceptedSettles ==
  \A r \in Requests :
    pc[r] = "accepted" /\ (mode = "static" \/ hermesTimeout)
      ~> TaskOf(r) \in {"completed", "failed"}

(***************************************************************************)
(* TestHermesCLIAdapterMapsTimeoutAsTemporary (hermes_cli_test.go:63): a   *)
(* process ended by the adapter's own timeout is a temporary failure.      *)
(***************************************************************************)
TimeoutIsTemporary ==
  \A r \in Requests :
    proc[r] = "killed" /\ expired[r] /\ outcome[r] # Nil => outcome[r] = "temporary"

-----------------------------------------------------------------------------
(* What an answer means to an agent whose task, if any, has the id.        *)
Meaning(answer, id) ==
  IF answer = [status |-> "accepted", task |-> id] THEN "promised"
  ELSE IF answer.status \in Unheard THEN "lost" ELSE "answered"

(* What all of it is to an agent.                                          *)
ExchangeOf(r) ==
  IF edge[r] = "idle" THEN "none"
  ELSE IF heard[r] # Nil THEN Meaning(heard[r], taskID[r])
  ELSE IF gone[r] THEN "lost" ELSE "open"

Service == INSTANCE TaskService
             WITH exchange <- [r \in Requests |-> ExchangeOf(r)],
                  taskID   <- [r \in Requests |-> IF storer[r] = "none" THEN BlankID ELSE taskID[r]],
                  records  <- [t \in DOMAIN records |->
                                 [request |-> records[t].request, status |-> records[t].status]],
                  restarts <- 0, MaxRestarts <- 0, Nil <- BlankID

(***************************************************************************)
(* The whole way keeps the promise of TaskService, on which the agent      *)
(* relies: an agent that is answered has no task and gets none any more,   *)
(* one that is told "accepted" has the task of the id it was told, only an *)
(* exchange that failed visibly may leave a task unknown to it, and a task *)
(* is settled once.                                                        *)
(***************************************************************************)
ImplementsService == Service!Spec
=============================================================================
