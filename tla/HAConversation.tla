---------------------------- MODULE HAConversation ----------------------------
(***************************************************************************)
(* The Home Assistant conversation agent                                   *)
(* (homeassistant/custom_components/hermes_voice/conversation.py), on top  *)
(* of the voice service it talks to (TaskService).                         *)
(*                                                                         *)
(* The agent forwards a turn's text to Hermes Voice.  When the answer is   *)
(* "accepted" it remembers the task as the last one, files it under its id *)
(* in _pending_tasks and starts a delivery loop that polls the task every  *)
(* five seconds and raises a notification when it is over.  A turn that    *)
(* asks for the task's status polls the last accepted task itself.         *)
(*                                                                         *)
(* Turns and loops are coroutines of one event loop: what they do between  *)
(* two awaits is one action.  A LastAcceptedTask or PendingTask object is  *)
(* named by the turn that created it.  An HTTP exchange is the start of    *)
(* the request (an await) and the arrival of its answer; what the service  *)
(* says is read when it arrives.                                           *)
(*                                                                         *)
(* A turn whose wording is a status request only while there is a last     *)
(* task (lines 209-214) belongs to both kinds of turn.  Without an         *)
(* endpoint a turn answers a fixed text and changes nothing: not modelled. *)
(***************************************************************************)
EXTENDS Naturals

CONSTANTS
  Commands,     \* conversation turns whose text may be forwarded
  Questions,    \* turns whose text may be a status request
  Faults,       \* what can go wrong with a poll: "exception" (timeout,
                \* connection lost), "upstream_unavailable" (the forwarder's
                \* 502 with an error object)
  TaskIDs,      \* task ids the service may give
  MaxRestarts,  \* bound on restarts of the service
  Nil

Turns == Commands \cup Questions

(* The result of a task, "I have no pending task", or any other answer,    *)
(* apology or progress report.                                             *)
Speech == {"result", "no_task", "other"}

ASSUME HAConstants ==
  /\ Nil \notin Turns /\ Nil \notin TaskIDs /\ Nil \notin Speech
  /\ Faults \subseteq {"exception", "upstream_unavailable"}
  /\ MaxRestarts \in Nat

VARIABLES
  turn,      \* _async_handle_message, per turn
  said,      \* what the turn told the user
  polled,    \* the local `task` of _poll_last_task
  last,      \* _last_accepted_task
  pending,   \* _pending_tasks: task id -> turn
  loop,      \* _deliver_pending_task_when_ready, per command
  notes,     \* persistent notifications, by the task id they are named after
  entity,    \* whether the entity is added to Home Assistant
  exchange, taskID, records, restarts  \* the service

turnVars    == <<turn, said, polled>>
serviceVars == <<exchange, taskID, records, restarts>>
agentVars   == <<last, pending, loop, notes, entity>>
vars == <<turnVars, serviceVars, agentVars>>

Service == INSTANCE TaskService WITH Requests <- Commands

Active == {"sleeping", "fetching"}
Kinds  == {"ready", "unavailable"}

TypeOK ==
  /\ turn \in [Turns -> {"idle", "posting", "polling", "done"}]
  /\ said \in [Turns -> Speech \cup {Nil}]
  /\ polled \in [Turns -> Commands \cup {Nil}]
  /\ last \in Commands \cup {Nil}
  /\ \A id \in DOMAIN pending :
       id \in TaskIDs /\ pending[id] \in Commands /\ taskID[pending[id]] = id
  /\ loop \in [Commands -> {"none", "ended", "cancelled"} \cup Active]
  /\ \A id \in DOMAIN notes : notes[id] \in [turn : Commands, kind : Kinds]
  /\ entity \in {"added", "removed"}
  /\ Service!ServiceTypeOK

Empty == [id \in {} |-> Nil]

Put(f, id, v) == [k \in DOMAIN f \cup {id} |-> IF k = id THEN v ELSE f[k]]
Pop(f, id)    == [k \in DOMAIN f \ {id} |-> f[k]]

Init ==
  /\ turn = [t \in Turns |-> "idle"]
  /\ said = [t \in Turns |-> Nil]
  /\ polled = [t \in Turns |-> Nil]
  /\ last = Nil
  /\ pending = Empty
  /\ loop = [t \in Commands |-> "none"]
  /\ notes = Empty
  /\ entity = "added"
  /\ Service!Init

-----------------------------------------------------------------------------
(* The service on its own.                                                 *)

ServiceAccepts(t) ==
  /\ \E id \in TaskIDs : Service!Accept(t, id)
  /\ UNCHANGED <<turnVars, agentVars>>

ServiceSettles(t) == Service!Settle(t) /\ UNCHANGED <<turnVars, agentVars>>

ServiceRestarts == Service!Restart /\ UNCHANGED <<turnVars, agentVars>>

(* What a poll of the task may bring.                                      *)
Answers(id) == {Service!Status(id)} \cup Faults

(* isinstance(data.get("error"), dict): error answers have one, and so has *)
(* the record of a failed task (taskResponseFromRecord).                   *)
HasError(a) == a \in {"not_found", "upstream_unavailable", "failed"}

-----------------------------------------------------------------------------
(* _forward_to_hermes                                                      *)

Forward(t) ==
  /\ entity = "added"
  /\ turn[t] = "idle"
  /\ turn' = [turn EXCEPT ![t] = "posting"]
  /\ Service!Post(t)
  /\ UNCHANGED <<said, polled, agentVars>>

(* A turn ends: it says what it has to say.                                *)
Say(t, speech) ==
  /\ turn' = [turn EXCEPT ![t] = "done"]
  /\ said' = [said EXCEPT ![t] = speech]

(* The backend's own answer or an error object comes within the quick      *)
(* timeout, or the exchange raises, before or after the service has        *)
(* accepted the task: the turn speaks and forgets.                         *)
NotAccepted(t) ==
  /\ turn[t] = "posting"
  /\ Service!Answer(t) \/ Service!Lose(t)
  /\ Say(t, "other")
  /\ UNCHANGED <<polled, agentVars>>

(* Mutation of Accepted: lines 190-197 without the test of line 188.       *)
AcceptedUnchecked(t) ==
  /\ turn[t] = "posting"
  /\ Service!Answer(t) \/ Service!Promise(t)
  /\ last' = t
  /\ pending' = Put(pending, taskID[t], t)
  /\ loop' = [loop EXCEPT ![t] = "sleeping"]
  /\ Say(t, "other")
  /\ UNCHANGED <<polled, notes, entity>>

(* Status "accepted": lines 190-197 and _enqueue_pending_task.             *)
Accepted(t) ==
  /\ turn[t] = "posting"
  /\ Service!Promise(t)
  /\ last' = t
  /\ pending' = Put(pending, taskID[t], t)
  /\ loop' = [loop EXCEPT ![t] = "sleeping"]
  /\ Say(t, "other")
  /\ UNCHANGED <<polled, notes, entity>>

-----------------------------------------------------------------------------
(* _poll_last_task                                                         *)

AskStatus(t) ==
  /\ entity = "added"
  /\ turn[t] = "idle"
  /\ \/ /\ last = Nil
        /\ Say(t, "no_task")
        /\ UNCHANGED polled
     \/ /\ last # Nil
        /\ turn' = [turn EXCEPT ![t] = "polling"]
        /\ polled' = [polled EXCEPT ![t] = last]
        /\ UNCHANGED said
  /\ UNCHANGED <<serviceVars, agentVars>>

StatusAnswered(t) ==
  /\ turn[t] = "polling"
  /\ LET id == taskID[polled[t]] IN
     \E a \in Answers(id) :
       \/ /\ a = "exception"
          /\ Say(t, "other")
          /\ UNCHANGED <<last, pending>>
       \/ /\ HasError(a)
          /\ Say(t, "other")
          /\ last' = Nil
          /\ UNCHANGED pending
       \/ /\ a = "accepted"
          /\ Say(t, "other")
          /\ UNCHANGED <<last, pending>>
       \/ /\ a = "completed"
          /\ Say(t, "result")
          /\ last' = Nil
          /\ pending' = Pop(pending, id)
  /\ UNCHANGED <<polled, loop, notes, entity, serviceVars>>

-----------------------------------------------------------------------------
(* _deliver_pending_task_when_ready                                        *)

(* The sleep is over; the task is polled whatever happened meanwhile.      *)
Wake(t) ==
  /\ loop[t] = "sleeping"
  /\ loop' = [loop EXCEPT ![t] = "fetching"]
  /\ UNCHANGED <<last, pending, notes, entity, turnVars, serviceVars>>

(* Mutations of Continue: the loop polls once, or for ever.                *)
PollOnce(t)    == loop' = [loop EXCEPT ![t] = "ended"]
PollForEver(t) == loop' = [loop EXCEPT ![t] = "sleeping"]

(* The loop's condition, after a poll: still in _pending_tasks?            *)
Continue(t) ==
  loop' = [loop EXCEPT ![t] =
             IF taskID[t] \in DOMAIN pending' THEN "sleeping" ELSE "ended"]

(* Mutation of Notify: the text of the last task, not of this one.         *)
NotifyLast(t, kind) ==
  notes' = Put(notes, taskID[t], [turn |-> IF last = Nil THEN t ELSE last, kind |-> kind])

(* _create_task_notification: a later one of the same id replaces it.      *)
Notify(t, kind) ==
  notes' = Put(notes, taskID[t], [turn |-> t, kind |-> kind])

(* Mutation of PollRaises: the task is taken off the list first.           *)
PollRaisesPopped(t) ==
  /\ loop[t] = "fetching"
  /\ "exception" \in Faults
  /\ pending' = Pop(pending, taskID[t])
  /\ loop' = [loop EXCEPT ![t] = "ended"]
  /\ UNCHANGED <<last, notes, entity, turnVars, serviceVars>>

(* The exchange raises: lines 285-286 swallow it.                          *)
PollRaises(t) ==
  /\ loop[t] = "fetching"
  /\ "exception" \in Faults
  /\ UNCHANGED pending
  /\ Continue(t)
  /\ UNCHANGED <<last, notes, entity, turnVars, serviceVars>>

(* _poll_pending_task_for_notification; line 323's "failed" has an error   *)
(* object and never gets past line 295.                                    *)
PollAnswered(t) ==
  /\ loop[t] = "fetching"
  /\ LET id == taskID[t] IN
     \E a \in Answers(id) \ {"exception"} :
       \/ /\ HasError(a)
          /\ pending' = Pop(pending, id)
          /\ Notify(t, "unavailable")
          /\ UNCHANGED last
       \/ /\ a = "accepted"
          /\ UNCHANGED <<last, pending, notes>>
       \/ /\ a = "completed"
          /\ pending' = Pop(pending, id)
          /\ last' = IF last # Nil /\ taskID[last] = id THEN Nil ELSE last
          /\ Notify(t, "ready")
  /\ Continue(t)
  /\ UNCHANGED <<entity, turnVars, serviceVars>>

-----------------------------------------------------------------------------
(* async_will_remove_from_hass: the loops of now are cancelled.            *)
RemoveEntity ==
  /\ entity = "added"
  /\ entity' = "removed"
  /\ loop' = [t \in Commands |-> IF loop[t] \in Active THEN "cancelled" ELSE loop[t]]
  /\ UNCHANGED <<last, pending, notes, turnVars, serviceVars>>

(* No turn is left to take and no coroutine runs.                          *)
Idle ==
  /\ entity = "removed" \/ \A t \in Turns : turn[t] = "done"
  /\ \A t \in Turns : turn[t] \in {"idle", "done"}
  /\ \A t \in Commands : loop[t] \notin Active
  /\ UNCHANGED vars

Next ==
  \/ \E t \in Commands :
       \/ Forward(t) \/ NotAccepted(t) \/ Accepted(t)
       \/ Wake(t) \/ PollRaises(t) \/ PollAnswered(t)
       \/ ServiceAccepts(t) \/ ServiceSettles(t)
  \/ \E t \in Questions : AskStatus(t) \/ StatusAnswered(t)
  \/ ServiceRestarts
  \/ RemoveEntity
  \/ Idle

Spec == Init /\ [][Next]_vars

(***************************************************************************)
(* Sleeps end, running tasks are settled in the end (with the static       *)
(* adapter or with --hermes-timeout, see VoicePath!AcceptedSettles), and a *)
(* poll that is tried again and again is answered at last, though maybe by *)
(* an error object.                                                        *)
(***************************************************************************)
Fairness ==
  \A t \in Commands :
    /\ WF_vars(Wake(t))
    /\ WF_vars(PollRaises(t) \/ PollAnswered(t)) /\ SF_vars(PollAnswered(t))
    /\ WF_vars(ServiceSettles(t))

FairSpec == Spec /\ Fairness

-----------------------------------------------------------------------------
(* The user has heard of the task of command t, by the notification that   *)
(* quotes its text or by voice.                                            *)
Told(t) ==
  \/ \E id \in DOMAIN notes : notes[id].turn = t
  \/ \E q \in Turns : said[q] = "result" /\ polled[q] = t

(* No other request was ever given the id of t's task, before a restart or *)
(* after it.                                                               *)
HasOwnID(t) == \A u \in Commands \ {t} : taskID[u] # taskID[t]

(***************************************************************************)
(* A task on the pending list has a delivery loop, as long as the entity   *)
(* lives: no answer, exception or status request leaves an entry nobody    *)
(* polls for (lines 249, 279-286, 297, 309).                               *)
(***************************************************************************)
PendingIsPolled ==
  entity = "added" =>
    \A id \in DOMAIN pending :
      \E t \in Commands : taskID[t] = id /\ loop[t] \in Active

(***************************************************************************)
(* A task the agent promised to report ("Я сообщу, когда будет готово",    *)
(* line 197) is on the pending list until this very task is reported, and  *)
(* so is one that a restart of the service has lost, unless its id was     *)
(* given to another request as well (PromiseIsKept is about that case).    *)
(***************************************************************************)
NoSilentDrop ==
  \A t \in Commands :
    loop[t] # "none" /\ HasOwnID(t) =>
      Told(t) \/ (taskID[t] \in DOMAIN pending /\ pending[taskID[t]] = t)

(***************************************************************************)
(* A notification quotes the text of the request whose result it brings,   *)
(* however many tasks are under way (as long as the service has not        *)
(* restarted and reused an id; lines 313-321, 343-352).                    *)
(***************************************************************************)
NoteMatchesRequest ==
  restarts = 0 =>
    \A id \in DOMAIN notes :
      id \in DOMAIN records /\ notes[id].turn = records[id].request

(***************************************************************************)
(* The promise of line 197: the user of an accepted task is told about     *)
(* that task, through any number of failed polls and a restart that loses  *)
(* it, unless the entity is removed or the service has given its id to     *)
(* another request as well.                                                *)
(***************************************************************************)
EventuallyTold ==
  \A t \in Commands :
    loop[t] = "sleeping" ~> Told(t) \/ entity = "removed" \/ ~HasOwnID(t)

(***************************************************************************)
(* Every delivery loop comes to an end, also one whose task a status       *)
(* request took off the list while it slept.                               *)
(***************************************************************************)
LoopsEnd == \A t \in Commands : loop[t] \in Active ~> loop[t] \notin Active

(***************************************************************************)
(* "Я сообщу, когда будет готово" (I shall tell you when it is ready, line *)
(* 197), whatever ids the service gives: a delivery loop that ends of its  *)
(* own accord leaves a user who has been told.                             *)
(***************************************************************************)
PromiseIsKept ==
  [][\A t \in Commands :
       loop[t] \in Active /\ loop'[t] = "ended" => Told(t)']_vars

(***************************************************************************)
(* "keep delivery task alive across transient errors" (line 285): a task   *)
(* is not given up as unavailable while it is still running.               *)
(***************************************************************************)
RunningIsNotGivenUp ==
  \A id \in DOMAIN notes :
    notes[id].kind = "unavailable" => Service!Status(id) # "accepted"

(***************************************************************************)
(* "У меня нет ожидающей задачи" (I have no pending task, line 228) is not *)
(* said while a task on the pending list is still running.                 *)
(***************************************************************************)
NoTaskIsTrue ==
  [][\A t \in Turns :
       said[t] = Nil /\ said'[t] = "no_task" =>
         \A id \in DOMAIN pending : Service!Status(id) # "accepted"]_vars
=============================================================================
