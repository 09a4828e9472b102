------------------------------- MODULE HAProofs -------------------------------
(***************************************************************************)
(* Proofs about the conversation agent, for any turns, any faults and any  *)
(* number of restarts of the service.                                      *)
(***************************************************************************)
EXTENDS HAConversation, TLAPS

USE HAConstants DEF Turns

-----------------------------------------------------------------------------
(* What the checked invariants need to be inductive.                       *)

(* A delivery loop was started for an answer with a task id.               *)
LoopHasTask == \A t \in Commands : loop[t] # "none" => taskID[t] \in TaskIDs

(* A turn speaks once, at its end.                                         *)
SaidAtTheEnd == \A t \in Turns : said[t] = "result" => turn[t] = "done"

(* A status request that waits for an answer has asked for a task.         *)
PollsATask == \A t \in Turns : turn[t] = "polling" => polled[t] # Nil

(* A notification is filed under the id of the task it quotes.             *)
NotesFiled == \A id \in DOMAIN notes : id \in TaskIDs /\ taskID[notes[id].turn] = id

(* Until the service restarts, a task id leads to its own record.          *)
IdsAreOwn ==
  restarts = 0 =>
    \A t \in Commands :
      taskID[t] # Nil => taskID[t] \in DOMAIN records /\ records[taskID[t]].request = t

IInv ==
  /\ TypeOK
  /\ LoopHasTask
  /\ SaidAtTheEnd
  /\ PollsATask
  /\ NotesFiled
  /\ IdsAreOwn
  /\ PendingIsPolled
  /\ NoSilentDrop
  /\ NoteMatchesRequest

-----------------------------------------------------------------------------
(* The steps of the service.                                               *)

(* What a turn has to do with its exchange makes and settles no task.      *)
Talk(t) == Service!Post(t) \/ Service!Answer(t) \/ Service!Promise(t) \/ Service!Lose(t)

LEMMA TalkShape ==
  ASSUME NEW t, Talk(t)
  PROVE  UNCHANGED <<taskID, records, restarts>>
  BY DEF Talk, Service!Post, Service!Answer, Service!Promise, Service!Lose

(* A new task gets an id that leads to no other.                           *)
LEMMA AcceptShape ==
  ASSUME NEW t, ServiceAccepts(t)
  PROVE  /\ taskID[t] = Nil
         /\ UNCHANGED <<restarts, turnVars, agentVars>>
         /\ \E id \in TaskIDs :
              /\ id \notin DOMAIN records
              /\ taskID' = [taskID EXCEPT ![t] = id]
              /\ records' = [k \in DOMAIN records \cup {id} |->
                               IF k = id THEN [request |-> t, status |-> "accepted"]
                                         ELSE records[k]]
  BY DEF ServiceAccepts, Service!Accept

(* A settled task stays its request's.                                     *)
LEMMA SettleShape ==
  ASSUME NEW t, ServiceSettles(t), TypeOK
  PROVE  /\ UNCHANGED <<taskID, restarts, turnVars, agentVars>>
         /\ DOMAIN records' = DOMAIN records
         /\ \A id \in DOMAIN records : records'[id].request = records[id].request
<1>1. PICK id \in DOMAIN records, s \in Service!Settled :
        records' = [records EXCEPT ![id].status = s]
  BY DEF ServiceSettles, Service!Settle
<1>2. \A k \in DOMAIN records : records'[k].request = records[k].request
  BY <1>1 DEF TypeOK, Service!ServiceTypeOK
<1> QED BY <1>1, <1>2 DEF ServiceSettles, Service!Settle

(* Every step of the service keeps its types.                              *)
LEMMA ServiceTypes ==
  ASSUME Service!ServiceTypeOK, NEW t \in Commands,
         Talk(t) \/ ServiceAccepts(t) \/ ServiceSettles(t) \/ ServiceRestarts
  PROVE  Service!ServiceTypeOK'
<1>1. CASE Talk(t)
  BY <1>1 DEF Service!ServiceTypeOK, Talk, Service!Post, Service!Answer, Service!Promise, Service!Lose
<1>2. CASE ServiceAccepts(t)
  <2>1. PICK id \in TaskIDs :
          /\ id \notin DOMAIN records
          /\ taskID' = [taskID EXCEPT ![t] = id]
          /\ records' = [k \in DOMAIN records \cup {id} |->
                           IF k = id THEN [request |-> t, status |-> "accepted"] ELSE records[k]]
    BY <1>2, AcceptShape
  <2>2. DOMAIN records' \subseteq TaskIDs
    BY <2>1 DEF Service!ServiceTypeOK
  <2>3. \A k \in DOMAIN records' :
          records'[k] \in [request : Commands, status : {"accepted"} \cup Service!Settled]
    BY <2>1 DEF Service!ServiceTypeOK
  <2> QED BY <1>2, <2>1, <2>2, <2>3 DEF Service!ServiceTypeOK, ServiceAccepts, Service!Accept
<1>3. CASE ServiceSettles(t)
  <2>1. PICK id \in DOMAIN records, s \in Service!Settled :
          records' = [records EXCEPT ![id].status = s]
    BY <1>3 DEF ServiceSettles, Service!Settle
  <2>2. DOMAIN records' = DOMAIN records
    BY <2>1
  <2>3. \A k \in DOMAIN records' :
          records'[k] \in [request : Commands, status : {"accepted"} \cup Service!Settled]
    BY <2>1 DEF Service!ServiceTypeOK
  <2> QED BY <1>3, <2>2, <2>3 DEF Service!ServiceTypeOK, ServiceSettles, Service!Settle
<1>4. CASE ServiceRestarts
  BY <1>4 DEF Service!ServiceTypeOK, ServiceRestarts, Service!Restart, Service!EmptyStore
<1> QED BY <1>1, <1>2, <1>3, <1>4

-----------------------------------------------------------------------------
(***************************************************************************)
(* The agent starts with nothing pending, nothing told and no task.        *)
(***************************************************************************)
LEMMA InitInv == Init => IInv
<1> SUFFICES ASSUME Init PROVE IInv
  OBVIOUS
<1>1. DOMAIN Empty = {}
  BY DEF Empty
<1>2. TypeOK
  <2>1. pending = Empty /\ notes = Empty
    BY DEF Init
  <2>2. /\ \A id \in DOMAIN pending :
             id \in TaskIDs /\ pending[id] \in Commands /\ taskID[pending[id]] = id
        /\ \A id \in DOMAIN notes : notes[id] \in [turn : Commands, kind : Kinds]
    BY <1>1, <2>1
  <2>3. Service!ServiceTypeOK
    BY DEF Init, Service!Init, Service!ServiceTypeOK, Service!EmptyStore
  <2> QED BY <2>2, <2>3 DEF Init, TypeOK, Active, Speech
<1>3. LoopHasTask /\ SaidAtTheEnd /\ PollsATask /\ NotesFiled /\ IdsAreOwn
  BY <1>1 DEF Init, Service!Init, LoopHasTask, SaidAtTheEnd, PollsATask, NotesFiled,
              IdsAreOwn, Speech
<1>4. PendingIsPolled /\ NoSilentDrop /\ NoteMatchesRequest
  BY <1>1 DEF Init, PendingIsPolled, NoSilentDrop, NoteMatchesRequest
<1> QED BY <1>2, <1>3, <1>4 DEF IInv

-----------------------------------------------------------------------------
(* Type correctness.                                                       *)

(***************************************************************************)
(* Every step keeps the types; an entry of _pending_tasks keeps the id of  *)
(* the task it was filed under.                                            *)
(***************************************************************************)
LEMMA TypeStep == TypeOK /\ LoopHasTask /\ [Next]_vars => TypeOK'
<1> SUFFICES ASSUME TypeOK, LoopHasTask, [Next]_vars PROVE TypeOK'
  OBVIOUS
<1> DEFINE Filed == \A id \in DOMAIN pending :
                      id \in TaskIDs /\ pending[id] \in Commands /\ taskID[pending[id]] = id
<1> USE DEF Active, Speech, Kinds
<1>0. Service!ServiceTypeOK /\ Filed
  BY DEF TypeOK
<1>s. ASSUME UNCHANGED serviceVars PROVE Service!ServiceTypeOK'
  BY <1>0, <1>s DEF serviceVars, Service!ServiceTypeOK
<1>1. ASSUME NEW t \in Commands, Forward(t) PROVE TypeOK'
  <2>1. Talk(t)
    BY <1>1 DEF Forward, Talk
  <2> QED BY <1>0, <1>1, <2>1, TalkShape, ServiceTypes DEF TypeOK, Forward, agentVars
<1>2. ASSUME NEW t \in Commands, NotAccepted(t) PROVE TypeOK'
  <2>1. Talk(t)
    BY <1>2 DEF NotAccepted, Talk
  <2> QED BY <1>0, <1>2, <2>1, TalkShape, ServiceTypes DEF TypeOK, NotAccepted, Say, agentVars
<1>3. ASSUME NEW t \in Commands, Accepted(t) PROVE TypeOK'
  <2>1. taskID[t] \in TaskIDs /\ Talk(t)
    BY <1>0, <1>3 DEF Accepted, Talk, Service!Promise, Service!ServiceTypeOK
  <2>2. taskID' = taskID /\ Service!ServiceTypeOK'
    BY <1>0, <2>1, TalkShape, ServiceTypes
  <2>3. Filed'
    BY <1>0, <1>3, <2>1, <2>2 DEF Accepted, Put
  <2> QED BY <1>3, <2>2, <2>3 DEF TypeOK, Accepted, Say
<1>4. ASSUME NEW t \in Questions, AskStatus(t) PROVE TypeOK'
  BY <1>s, <1>4 DEF TypeOK, AskStatus, Say, serviceVars, agentVars
<1>5. ASSUME NEW t \in Questions, StatusAnswered(t) PROVE TypeOK'
  <2>1. Filed'
    BY <1>0, <1>5 DEF StatusAnswered, Pop, serviceVars
  <2> QED BY <1>s, <1>5, <2>1 DEF TypeOK, StatusAnswered, Say
<1>6. ASSUME NEW t \in Commands, Wake(t) PROVE TypeOK'
  BY <1>s, <1>6 DEF TypeOK, Wake, turnVars, serviceVars
<1>7. ASSUME NEW t \in Commands, PollRaises(t) PROVE TypeOK'
  BY <1>s, <1>7 DEF TypeOK, PollRaises, Continue, turnVars, serviceVars
<1>8. ASSUME NEW t \in Commands, PollAnswered(t) PROVE TypeOK'
  <2>1. Filed'
    BY <1>0, <1>8 DEF PollAnswered, Pop, serviceVars
  <2>2. \A id \in DOMAIN notes' : notes'[id] \in [turn : Commands, kind : Kinds]
    BY <1>8 DEF TypeOK, PollAnswered, Notify, Put, LoopHasTask
  <2>3. last' \in Commands \cup {Nil}
    BY <1>8 DEF TypeOK, PollAnswered
  <2>4. UNCHANGED serviceVars
    BY <1>8 DEF PollAnswered
  <2> QED BY <1>s, <1>8, <2>1, <2>2, <2>3, <2>4 DEF TypeOK, PollAnswered, Continue, turnVars
<1>9. ASSUME NEW t \in Commands, ServiceAccepts(t) PROVE TypeOK'
  <2>1. Filed'
    <3>1. taskID[t] = Nil /\ UNCHANGED agentVars
      BY <1>9, AcceptShape
    <3>2. PICK id \in TaskIDs : taskID' = [taskID EXCEPT ![t] = id]
      BY <1>9, AcceptShape
    <3>3. \A k \in DOMAIN pending : pending[k] # t
      BY <1>0, <3>1
    <3> QED BY <1>0, <3>1, <3>2, <3>3 DEF agentVars, Service!ServiceTypeOK
  <2>2. Service!ServiceTypeOK'
    BY <1>0, <1>9, ServiceTypes
  <2> QED BY <1>9, <2>1, <2>2, AcceptShape DEF TypeOK, turnVars, agentVars
<1>10. ASSUME NEW t \in Commands, ServiceSettles(t) PROVE TypeOK'
  <2>1. Service!ServiceTypeOK'
    BY <1>0, <1>10, ServiceTypes
  <2> QED BY <1>10, <2>1, SettleShape DEF TypeOK, turnVars, agentVars
<1>11. CASE ServiceRestarts
  <2>1. Service!ServiceTypeOK'
    BY <1>0, <1>11 DEF ServiceRestarts, Service!Restart, Service!EmptyStore, Service!ServiceTypeOK
  <2>2. UNCHANGED <<taskID, turnVars, agentVars>>
    BY <1>11 DEF ServiceRestarts, Service!Restart
  <2> QED BY <2>1, <2>2 DEF TypeOK, turnVars, agentVars
<1>12. CASE RemoveEntity
  BY <1>s, <1>12 DEF TypeOK, RemoveEntity, turnVars, serviceVars
<1>13. CASE UNCHANGED vars
  BY <1>s, <1>13 DEF TypeOK, vars, turnVars, serviceVars, agentVars
<1> QED BY <1>1, <1>2, <1>3, <1>4, <1>5, <1>6, <1>7, <1>8, <1>9, <1>10, <1>11,
           <1>12, <1>13 DEF Next, Idle

-----------------------------------------------------------------------------
(* The steps that leave the tasks alone.                                   *)

(* Steps of the agent that change neither task nor record.                 *)
AgentStep ==
  \/ \E t \in Commands :
       \/ Forward(t) \/ NotAccepted(t) \/ Accepted(t)
       \/ Wake(t) \/ PollRaises(t) \/ PollAnswered(t)
  \/ \E t \in Questions : AskStatus(t) \/ StatusAnswered(t)
  \/ RemoveEntity
  \/ UNCHANGED vars

(* The agent makes, settles and forgets no task.                           *)
LEMMA AgentKeepsTasks == AgentStep => UNCHANGED <<taskID, records, restarts>>
<1> SUFFICES ASSUME AgentStep PROVE UNCHANGED <<taskID, records, restarts>>
  OBVIOUS
<1>1. ASSUME NEW t \in Commands, Forward(t) \/ NotAccepted(t) \/ Accepted(t)
      PROVE  UNCHANGED <<taskID, records, restarts>>
  <2>1. Talk(t)
    BY <1>1 DEF Forward, NotAccepted, Accepted, Talk
  <2> QED BY <2>1, TalkShape
<1>2. ASSUME UNCHANGED serviceVars PROVE UNCHANGED <<taskID, records, restarts>>
  BY <1>2 DEF serviceVars
<1>3. ASSUME NEW t \in Commands, Wake(t) \/ PollRaises(t) \/ PollAnswered(t)
      PROVE  UNCHANGED serviceVars
  BY <1>3 DEF Wake, PollRaises, PollAnswered
<1>4. ASSUME NEW t \in Questions, AskStatus(t) \/ StatusAnswered(t)
      PROVE  UNCHANGED serviceVars
  BY <1>4 DEF AskStatus, StatusAnswered
<1>5. ASSUME RemoveEntity \/ UNCHANGED vars PROVE UNCHANGED serviceVars
  BY <1>5 DEF RemoveEntity, vars
<1> QED BY <1>1, <1>2, <1>3, <1>4, <1>5 DEF AgentStep

(* The service's own steps leave the agent alone.                          *)
ServiceStep ==
  \/ \E t \in Commands : ServiceAccepts(t) \/ ServiceSettles(t)
  \/ ServiceRestarts

LEMMA ServiceKeepsAgent == ServiceStep => UNCHANGED <<turnVars, agentVars>>
  BY DEF ServiceStep, ServiceAccepts, ServiceSettles, ServiceRestarts

LEMMA StepSplits == [Next]_vars => AgentStep \/ ServiceStep
  BY DEF Next, Idle, AgentStep, ServiceStep

(***************************************************************************)
(* A task id, once assigned, is never taken back or replaced.              *)
(***************************************************************************)
LEMMA IdStays ==
  ASSUME TypeOK, [Next]_vars, NEW u \in Commands, taskID[u] # Nil
  PROVE  taskID'[u] = taskID[u]
<1>1. ASSUME NEW t \in Commands, ServiceAccepts(t) PROVE taskID'[u] = taskID[u]
  BY <1>1, AcceptShape DEF TypeOK, Service!ServiceTypeOK
<1>2. ASSUME NEW t \in Commands, ServiceSettles(t) PROVE taskID' = taskID
  BY <1>2 DEF ServiceSettles, Service!Settle
<1>3. ASSUME ServiceRestarts PROVE taskID' = taskID
  BY <1>3 DEF ServiceRestarts, Service!Restart
<1>4. ASSUME AgentStep PROVE taskID' = taskID
  BY <1>4, AgentKeepsTasks
<1> QED BY <1>1, <1>2, <1>3, <1>4, StepSplits DEF ServiceStep

-----------------------------------------------------------------------------
(* The parts that make the invariants inductive.                           *)

(***************************************************************************)
(* A delivery loop is started only for an answer with a task id.           *)
(***************************************************************************)
LEMMA LoopHasTaskStep == TypeOK /\ LoopHasTask /\ [Next]_vars => LoopHasTask'
<1> SUFFICES ASSUME TypeOK, LoopHasTask, [Next]_vars,
                    NEW u \in Commands, loop'[u] # "none"
             PROVE  taskID'[u] \in TaskIDs
  BY DEF LoopHasTask
<1>0. ASSUME taskID[u] \in TaskIDs PROVE taskID'[u] \in TaskIDs
  BY <1>0, IdStays
<1>1. ASSUME loop[u] # "none" PROVE taskID'[u] \in TaskIDs
  BY <1>0, <1>1 DEF LoopHasTask
<1>2. ASSUME NEW t \in Commands, Accepted(t) PROVE taskID'[u] \in TaskIDs
  <2>1. taskID[t] \in TaskIDs
    BY <1>2 DEF Accepted, Service!Promise, TypeOK, Service!ServiceTypeOK
  <2>2. u = t \/ loop[u] # "none"
    BY <1>2 DEF Accepted, TypeOK
  <2> QED BY <1>0, <1>1, <2>1, <2>2
<1>3. ASSUME NEW t \in Commands, Wake(t) \/ PollRaises(t) \/ PollAnswered(t)
      PROVE  loop[u] # "none"
  BY <1>3 DEF Wake, PollRaises, PollAnswered, Continue, TypeOK
<1>4. ASSUME NEW t \in Commands, Forward(t) \/ NotAccepted(t) PROVE loop[u] # "none"
  BY <1>4 DEF Forward, NotAccepted, agentVars
<1>5. ASSUME NEW t \in Questions, AskStatus(t) \/ StatusAnswered(t) PROVE loop[u] # "none"
  BY <1>5 DEF AskStatus, StatusAnswered, agentVars
<1>6. ASSUME RemoveEntity \/ UNCHANGED vars PROVE loop[u] # "none"
  BY <1>6 DEF RemoveEntity, vars, agentVars, Active
<1>7. ASSUME ServiceStep PROVE loop[u] # "none"
  BY <1>7, ServiceKeepsAgent DEF agentVars
<1> QED BY <1>1, <1>2, <1>3, <1>4, <1>5, <1>6, <1>7, StepSplits DEF AgentStep

(***************************************************************************)
(* What a turn has said, it has said at its end, and it says no more.      *)
(***************************************************************************)
LEMMA SaidStep == TypeOK /\ SaidAtTheEnd /\ [Next]_vars => SaidAtTheEnd'
<1> SUFFICES ASSUME TypeOK, SaidAtTheEnd, [Next]_vars,
                    NEW u \in Turns, said'[u] = "result"
             PROVE  turn'[u] = "done"
  BY DEF SaidAtTheEnd
<1> USE DEF TypeOK, SaidAtTheEnd
<1>1. ASSUME NEW t \in Commands, Forward(t) PROVE turn'[u] = "done"
  BY <1>1 DEF Forward
<1>2. ASSUME NEW t \in Commands, NotAccepted(t) \/ Accepted(t) PROVE turn'[u] = "done"
  BY <1>2 DEF NotAccepted, Accepted, Say
<1>3. ASSUME NEW t \in Questions, AskStatus(t) PROVE turn'[u] = "done"
  BY <1>3 DEF AskStatus, Say
<1>4. ASSUME NEW t \in Questions, StatusAnswered(t) PROVE turn'[u] = "done"
  BY <1>4 DEF StatusAnswered, Say
<1>5. ASSUME UNCHANGED turnVars PROVE turn'[u] = "done"
  BY <1>5 DEF turnVars
<1>6. ASSUME NEW t \in Commands, Wake(t) \/ PollRaises(t) \/ PollAnswered(t)
      PROVE  UNCHANGED turnVars
  BY <1>6 DEF Wake, PollRaises, PollAnswered
<1>7. ASSUME RemoveEntity \/ UNCHANGED vars PROVE UNCHANGED turnVars
  BY <1>7 DEF RemoveEntity, vars
<1> QED BY <1>1, <1>2, <1>3, <1>4, <1>5, <1>6, <1>7, StepSplits, ServiceKeepsAgent DEF AgentStep

(***************************************************************************)
(* A status request asks for the last task, and only if there is one.      *)
(***************************************************************************)
LEMMA PollsStep == TypeOK /\ PollsATask /\ [Next]_vars => PollsATask'
<1> SUFFICES ASSUME TypeOK, PollsATask, [Next]_vars,
                    NEW u \in Turns, turn'[u] = "polling"
             PROVE  polled'[u] # Nil
  BY DEF PollsATask
<1> USE DEF TypeOK, PollsATask
<1>1. ASSUME NEW t \in Commands, Forward(t) \/ NotAccepted(t) \/ Accepted(t)
      PROVE  polled'[u] # Nil
  BY <1>1 DEF Forward, NotAccepted, Accepted, Say
<1>2. ASSUME NEW t \in Questions, AskStatus(t) PROVE polled'[u] # Nil
  BY <1>2 DEF AskStatus, Say
<1>3. ASSUME NEW t \in Questions, StatusAnswered(t) PROVE polled'[u] # Nil
  BY <1>3 DEF StatusAnswered, Say
<1>4. ASSUME UNCHANGED turnVars PROVE polled'[u] # Nil
  BY <1>4 DEF turnVars
<1>5. ASSUME NEW t \in Commands, Wake(t) \/ PollRaises(t) \/ PollAnswered(t)
      PROVE  UNCHANGED turnVars
  BY <1>5 DEF Wake, PollRaises, PollAnswered
<1>6. ASSUME RemoveEntity \/ UNCHANGED vars PROVE UNCHANGED turnVars
  BY <1>6 DEF RemoveEntity, vars
<1> QED BY <1>1, <1>2, <1>3, <1>4, <1>5, <1>6, StepSplits, ServiceKeepsAgent DEF AgentStep

(***************************************************************************)
(* Only a loop that was polling raises a notification, for its own task.   *)
(***************************************************************************)
LEMMA NotesShape ==
  ASSUME TypeOK, [Next]_vars
  PROVE  \/ notes' = notes
         \/ \E t \in Commands, kind \in Kinds : loop[t] = "fetching" /\ Notify(t, kind)
<1>1. ASSUME NEW t \in Commands, PollAnswered(t)
      PROVE  notes' = notes \/ \E kind \in Kinds : loop[t] = "fetching" /\ Notify(t, kind)
  BY <1>1 DEF PollAnswered, Kinds
<1>2. ASSUME NEW t \in Commands,
             Forward(t) \/ NotAccepted(t) \/ Accepted(t) \/ Wake(t) \/ PollRaises(t)
      PROVE  notes' = notes
  BY <1>2 DEF Forward, NotAccepted, Accepted, Wake, PollRaises, agentVars
<1>3. ASSUME NEW t \in Questions, AskStatus(t) \/ StatusAnswered(t) PROVE notes' = notes
  BY <1>3 DEF AskStatus, StatusAnswered, agentVars
<1>4. ASSUME ServiceStep \/ RemoveEntity \/ UNCHANGED vars PROVE notes' = notes
  BY <1>4, ServiceKeepsAgent DEF RemoveEntity, vars, agentVars
<1> QED BY <1>1, <1>2, <1>3, <1>4, StepSplits DEF AgentStep

(***************************************************************************)
(* A notification bears the id of the task whose text it quotes.           *)
(***************************************************************************)
LEMMA FiledStep == TypeOK /\ LoopHasTask /\ NotesFiled /\ [Next]_vars => NotesFiled'
<1> SUFFICES ASSUME TypeOK, LoopHasTask, NotesFiled, [Next]_vars, NEW id \in DOMAIN notes'
             PROVE  id \in TaskIDs /\ taskID'[notes'[id].turn] = id
  BY DEF NotesFiled
<1>1. ASSUME id \in DOMAIN notes, notes'[id] = notes[id]
      PROVE  id \in TaskIDs /\ taskID'[notes'[id].turn] = id
  <2>1. id \in TaskIDs
    BY <1>1 DEF NotesFiled
  <2> QED BY <1>1, <2>1, IdStays DEF NotesFiled, TypeOK
<1>2. ASSUME NEW t \in Commands, NEW kind \in Kinds, loop[t] = "fetching", Notify(t, kind),
             id = taskID[t]
      PROVE  id \in TaskIDs /\ taskID'[notes'[id].turn] = id
  <2>1. id \in TaskIDs /\ taskID'[t] = taskID[t]
    BY <1>2, IdStays DEF LoopHasTask
  <2> QED BY <1>2, <2>1 DEF Notify, Put
<1>3. ASSUME NEW t \in Commands, NEW kind \in Kinds, Notify(t, kind), id # taskID[t]
      PROVE  id \in DOMAIN notes /\ notes'[id] = notes[id]
  BY <1>3 DEF Notify, Put
<1> QED BY <1>1, <1>2, <1>3, NotesShape

(***************************************************************************)
(* The service gives every accepted request a fresh id, until it restarts. *)
(***************************************************************************)
LEMMA IdsStep == TypeOK /\ IdsAreOwn /\ [Next]_vars => IdsAreOwn'
<1> SUFFICES ASSUME TypeOK, IdsAreOwn, [Next]_vars, restarts' = 0,
                    NEW u \in Commands, taskID'[u] # Nil
             PROVE  taskID'[u] \in DOMAIN records' /\ records'[taskID'[u]].request = u
  BY DEF IdsAreOwn
<1> DEFINE Own == taskID'[u] \in DOMAIN records' /\ records'[taskID'[u]].request = u
<1>1. ASSUME NEW t \in Commands, ServiceAccepts(t) PROVE Own
  <2>1. PICK id \in TaskIDs :
          /\ id \notin DOMAIN records
          /\ taskID' = [taskID EXCEPT ![t] = id]
          /\ records' = [k \in DOMAIN records \cup {id} |->
                           IF k = id THEN [request |-> t, status |-> "accepted"] ELSE records[k]]
    BY <1>1, AcceptShape
  <2>2. CASE u = t
    BY <2>1, <2>2 DEF TypeOK, Service!ServiceTypeOK
  <2>3. CASE u # t
    <3>1. taskID'[u] = taskID[u] /\ restarts = 0
      BY <1>1, <2>1, <2>3, AcceptShape DEF TypeOK, Service!ServiceTypeOK
    <3>2. taskID[u] \in DOMAIN records /\ records[taskID[u]].request = u
      BY <3>1 DEF IdsAreOwn
    <3> QED BY <2>1, <3>1, <3>2
  <2> QED BY <2>2, <2>3
<1>2. ASSUME NEW t \in Commands, ServiceSettles(t) PROVE Own
  BY <1>2, SettleShape DEF IdsAreOwn
<1>3. CASE ServiceRestarts
  BY <1>3 DEF ServiceRestarts, Service!Restart, TypeOK, Service!ServiceTypeOK
<1>4. CASE AgentStep
  BY <1>4, AgentKeepsTasks DEF IdsAreOwn
<1> QED BY <1>1, <1>2, <1>3, <1>4, StepSplits DEF ServiceStep

-----------------------------------------------------------------------------
(* The invariants the runs check.                                          *)

(***************************************************************************)
(* The loop of a pending task goes on polling: it ends only after its task *)
(* has left the list.                                                      *)
(***************************************************************************)
LEMMA PolledStep == TypeOK /\ LoopHasTask /\ PendingIsPolled /\ [Next]_vars => PendingIsPolled'
<1> SUFFICES ASSUME TypeOK, LoopHasTask, PendingIsPolled, [Next]_vars,
                    entity' = "added", NEW id \in DOMAIN pending'
             PROVE  \E t \in Commands : taskID'[t] = id /\ loop'[t] \in Active
  BY DEF PendingIsPolled
<1> DEFINE Polled == \E t \in Commands : taskID'[t] = id /\ loop'[t] \in Active
<1>a. ASSUME AgentStep PROVE taskID' = taskID
  BY <1>a, AgentKeepsTasks
<1>0. ASSUME id \in DOMAIN pending, entity = "added"
      PROVE  \E u \in Commands : taskID[u] = id /\ taskID'[u] = id /\ loop[u] \in Active
  <2>1. PICK u \in Commands : taskID[u] = id /\ loop[u] \in Active
    BY <1>0 DEF PendingIsPolled
  <2>2. taskID[u] # Nil
    BY <2>1 DEF LoopHasTask, Active
  <2> QED BY <2>1, <2>2, IdStays
<1> USE DEF Active
<1>1. ASSUME NEW t \in Commands, Accepted(t) PROVE Polled
  <2>1. taskID' = taskID
    BY <1>1, <1>a DEF AgentStep
  <2>2. loop' = [loop EXCEPT ![t] = "sleeping"] /\ loop'[t] = "sleeping"
    BY <1>1 DEF Accepted, TypeOK
  <2>3. CASE id = taskID[t]
    BY <2>1, <2>2, <2>3
  <2>4. CASE id # taskID[t]
    <3>1. id \in DOMAIN pending /\ entity = "added"
      BY <1>1, <2>4 DEF Accepted, Put
    <3>2. PICK u \in Commands : taskID[u] = id /\ loop[u] \in Active
      BY <1>0, <3>1
    <3>3. u # t
      BY <2>4, <3>2
    <3> QED BY <2>1, <2>2, <3>2, <3>3
  <2> QED BY <2>3, <2>4
<1>2. ASSUME UNCHANGED <<pending, loop, entity>> PROVE Polled
  BY <1>0, <1>2
<1>3. ASSUME NEW t \in Commands, PollRaises(t) \/ PollAnswered(t) PROVE Polled
  <2>1. id \in DOMAIN pending /\ entity = "added"
    BY <1>3 DEF PollRaises, PollAnswered, Pop
  <2>2. PICK u \in Commands : taskID[u] = id /\ taskID'[u] = id /\ loop[u] \in Active
    BY <1>0, <2>1
  <2>3. loop'[u] \in Active
    BY <1>3, <2>2 DEF PollRaises, PollAnswered, Continue, TypeOK
  <2> QED BY <2>2, <2>3
<1>4. ASSUME NEW t \in Commands, Wake(t) PROVE Polled
  <2>1. PICK u \in Commands : taskID[u] = id /\ taskID'[u] = id /\ loop[u] \in Active
    BY <1>0, <1>4 DEF Wake
  <2> QED BY <1>4, <2>1 DEF Wake, TypeOK
<1>5. ASSUME NEW t \in Questions, StatusAnswered(t) PROVE Polled
  <2>1. id \in DOMAIN pending /\ entity = "added" /\ loop' = loop
    BY <1>5 DEF StatusAnswered, Pop
  <2> QED BY <1>0, <2>1
<1>6. ASSUME NEW t \in Commands, Forward(t) \/ NotAccepted(t)
      PROVE  UNCHANGED <<pending, loop, entity>>
  BY <1>6 DEF Forward, NotAccepted, agentVars
<1>7. ASSUME NEW t \in Questions, AskStatus(t)
      PROVE  UNCHANGED <<pending, loop, entity>>
  BY <1>7 DEF AskStatus, agentVars
<1>8. ASSUME ServiceStep \/ UNCHANGED vars PROVE UNCHANGED <<pending, loop, entity>>
  BY <1>8, ServiceKeepsAgent DEF vars, agentVars
<1>9. CASE RemoveEntity
  BY <1>9 DEF RemoveEntity
<1> QED BY <1>1, <1>2, <1>3, <1>4, <1>5, <1>6, <1>7, <1>8, <1>9, StepSplits DEF AgentStep

(***************************************************************************)
(* A task whose id no other request has now never shared it.               *)
(***************************************************************************)
LEMMA OwnIDBefore ==
  ASSUME TypeOK, [Next]_vars, NEW u \in Commands, taskID[u] # Nil, HasOwnID(u)'
  PROVE  HasOwnID(u)
<1> SUFFICES ASSUME NEW v \in Commands \ {u}, taskID[v] = taskID[u] PROVE FALSE
  BY DEF HasOwnID
<1>1. taskID'[v] = taskID[v] /\ taskID'[u] = taskID[u]
  BY IdStays
<1> QED BY <1>1 DEF HasOwnID

(***************************************************************************)
(* What the user has been told about a task stays told, unless another     *)
(* request was given its id: only then does the notification of one task   *)
(* replace that of another.  A turn's words and the task it polled do not  *)
(* change.                                                                 *)
(***************************************************************************)
LEMMA ToldStays ==
  ASSUME TypeOK, LoopHasTask, SaidAtTheEnd, NotesFiled, [Next]_vars,
         NEW u \in Commands, HasOwnID(u), Told(u)
  PROVE  Told(u)'
<1>1. ASSUME NEW id \in DOMAIN notes, notes[id].turn = u
      PROVE  id \in DOMAIN notes' /\ notes'[id].turn = u
  <2>1. ASSUME NEW t \in Commands, NEW kind \in Kinds, Notify(t, kind)
        PROVE  id \in DOMAIN notes' /\ notes'[id].turn = u
    <3>1. CASE taskID[t] = id
      <4>1. t = u
        BY <1>1, <3>1 DEF NotesFiled, HasOwnID
      <4> QED BY <2>1, <3>1, <4>1 DEF Notify, Put
    <3>2. CASE taskID[t] # id
      BY <1>1, <2>1, <3>2 DEF Notify, Put
    <3> QED BY <3>1, <3>2
  <2> QED BY <1>1, <2>1, NotesShape
<1>2. ASSUME NEW q \in Turns, said[q] = "result", polled[q] = u
      PROVE  said'[q] = "result" /\ polled'[q] = u
  <2>1. turn[q] = "done"
    BY <1>2 DEF SaidAtTheEnd
  <2> USE DEF TypeOK
  <2>2. ASSUME NEW t \in Commands, Forward(t) \/ NotAccepted(t) \/ Accepted(t)
        PROVE  said'[q] = "result" /\ polled'[q] = u
    BY <1>2, <2>1, <2>2 DEF Forward, NotAccepted, Accepted, Say
  <2>3. ASSUME NEW t \in Questions, AskStatus(t) \/ StatusAnswered(t)
        PROVE  said'[q] = "result" /\ polled'[q] = u
    BY <1>2, <2>1, <2>3 DEF AskStatus, StatusAnswered, Say
  <2>4. ASSUME UNCHANGED turnVars PROVE said'[q] = "result" /\ polled'[q] = u
    BY <1>2, <2>4 DEF turnVars
  <2>5. ASSUME NEW t \in Commands, Wake(t) \/ PollRaises(t) \/ PollAnswered(t)
        PROVE  UNCHANGED turnVars
    BY <2>5 DEF Wake, PollRaises, PollAnswered
  <2>6. ASSUME ServiceStep \/ RemoveEntity \/ UNCHANGED vars PROVE UNCHANGED turnVars
    BY <2>6, ServiceKeepsAgent DEF RemoveEntity, vars
  <2> QED BY <2>2, <2>3, <2>4, <2>5, <2>6, StepSplits DEF AgentStep
<1> QED BY <1>1, <1>2 DEF Told

(* The entry of u's own task.                                              *)
Filed(u) == taskID[u] \in DOMAIN pending /\ pending[taskID[u]] = u

(***************************************************************************)
(* Whoever takes a task off the list tells its user about it in the same   *)
(* step, and whoever files another leaves it where it is, as long as no    *)
(* two tasks have one id.                                                  *)
(***************************************************************************)
LEMMA DropStep ==
  TypeOK /\ LoopHasTask /\ SaidAtTheEnd /\ PollsATask /\ NotesFiled /\ NoSilentDrop
    /\ [Next]_vars => NoSilentDrop'
<1> SUFFICES ASSUME TypeOK, LoopHasTask, SaidAtTheEnd, PollsATask, NotesFiled, NoSilentDrop,
                    [Next]_vars, NEW u \in Commands, loop'[u] # "none", HasOwnID(u)'
             PROVE  Told(u)' \/ Filed(u)'
  BY DEF NoSilentDrop, Filed
<1> DEFINE Kept == Told(u)' \/ Filed(u)'
<1>0. ASSUME loop[u] # "none"
      PROVE  taskID[u] \in TaskIDs /\ taskID'[u] = taskID[u] /\ HasOwnID(u)
  BY <1>0, IdStays, OwnIDBefore DEF LoopHasTask
<1>1. ASSUME loop[u] # "none", HasOwnID(u) /\ Filed(u) => Kept PROVE Kept
  <2>1. HasOwnID(u)
    BY <1>0, <1>1
  <2>2. Told(u) \/ Filed(u)
    BY <1>1, <2>1 DEF NoSilentDrop, Filed
  <2> QED BY <1>1, <2>1, <2>2, ToldStays
<1>2. ASSUME NEW t \in Commands, Accepted(t) PROVE Kept
  <2>1. taskID' = taskID
    BY <1>2, AgentKeepsTasks DEF AgentStep
  <2>2. pending' = Put(pending, taskID[t], t)
    BY <1>2 DEF Accepted
  <2>3. CASE u = t
    BY <2>1, <2>2, <2>3 DEF Filed, Put
  <2>4. CASE u # t
    <3>1. loop[u] # "none"
      BY <1>2, <2>4 DEF Accepted, TypeOK
    <3>2. ASSUME HasOwnID(u), Filed(u) PROVE Kept
      BY <2>1, <2>2, <2>4, <3>2 DEF Filed, Put, HasOwnID
    <3> QED BY <1>1, <3>1, <3>2
  <2> QED BY <2>3, <2>4
<1>3. ASSUME NEW t \in Questions, StatusAnswered(t) PROVE Kept
  <2>1. loop' = loop /\ polled' = polled /\ taskID' = taskID
    BY <1>3, AgentKeepsTasks DEF AgentStep, StatusAnswered
  <2>2. pending' = pending \/ (pending' = Pop(pending, taskID[polled[t]]) /\ Say(t, "result"))
    BY <1>3 DEF StatusAnswered
  <2>3. ASSUME HasOwnID(u), Filed(u) PROVE Kept
    <3>1. CASE pending' = pending
      BY <2>1, <2>3, <3>1 DEF Filed
    <3>2. CASE pending' = Pop(pending, taskID[polled[t]]) /\ taskID[polled[t]] # taskID[u]
      BY <2>1, <2>3, <3>2 DEF Filed, Pop
    <3>3. CASE Say(t, "result") /\ taskID[polled[t]] = taskID[u]
      <4>1. polled[t] \in Commands
        BY <1>3 DEF StatusAnswered, PollsATask, TypeOK
      <4>2. polled'[t] = u
        BY <2>1, <2>3, <3>3, <4>1 DEF HasOwnID
      <4>3. said'[t] = "result"
        BY <3>3 DEF Say, TypeOK
      <4> QED BY <4>2, <4>3 DEF Told
    <3> QED BY <2>2, <3>1, <3>2, <3>3
  <2> QED BY <1>1, <2>1, <2>3
<1>4. ASSUME NEW t \in Commands, PollAnswered(t) PROVE Kept
  <2>1. loop[u] # "none"
    BY <1>4 DEF PollAnswered, Continue, TypeOK
  <2>2. taskID' = taskID
    BY <1>4, AgentKeepsTasks DEF AgentStep
  <2>3. \/ pending' = pending
        \/ pending' = Pop(pending, taskID[t]) /\ \E kind \in Kinds : Notify(t, kind)
    BY <1>4 DEF PollAnswered, Kinds
  <2>4. ASSUME HasOwnID(u), Filed(u) PROVE Kept
    <3>1. CASE pending' = pending
      BY <2>2, <2>4, <3>1 DEF Filed
    <3>2. CASE pending' = Pop(pending, taskID[t]) /\ t # u
      BY <2>2, <2>4, <3>2 DEF Filed, Pop, HasOwnID
    <3>3. CASE t = u /\ \E kind \in Kinds : Notify(t, kind)
      BY <3>3 DEF Notify, Put, Told
    <3> QED BY <2>3, <3>1, <3>2, <3>3
  <2> QED BY <1>1, <2>1, <2>4
<1>5. ASSUME loop[u] # "none", pending' = pending PROVE Kept
  BY <1>0, <1>1, <1>5 DEF Filed
<1>6. ASSUME NEW t \in Commands,
             Forward(t) \/ NotAccepted(t) \/ PollRaises(t) \/ Wake(t)
      PROVE  pending' = pending /\ loop[u] # "none"
  BY <1>6 DEF Forward, NotAccepted, PollRaises, Wake, Continue, agentVars, TypeOK
<1>7. ASSUME NEW t \in Questions, AskStatus(t) PROVE pending' = pending /\ loop[u] # "none"
  BY <1>7 DEF AskStatus, agentVars
<1>8. ASSUME RemoveEntity \/ UNCHANGED vars PROVE pending' = pending /\ loop[u] # "none"
  BY <1>8 DEF RemoveEntity, vars, agentVars, Active
<1>9. ASSUME ServiceStep PROVE pending' = pending /\ loop[u] # "none"
  BY <1>9, ServiceKeepsAgent DEF agentVars
<1> QED BY <1>2, <1>3, <1>4, <1>5, <1>6, <1>7, <1>8, <1>9, StepSplits DEF AgentStep

(***************************************************************************)
(* A notification is filed by the loop of the turn it quotes, under the id *)
(* of that turn's own record.                                              *)
(***************************************************************************)
LEMMA NoteStep ==
  TypeOK /\ LoopHasTask /\ IdsAreOwn /\ NoteMatchesRequest /\ [Next]_vars
    => NoteMatchesRequest'
<1> SUFFICES ASSUME TypeOK, LoopHasTask, IdsAreOwn, NoteMatchesRequest, [Next]_vars,
                    restarts' = 0, NEW id \in DOMAIN notes'
             PROVE  id \in DOMAIN records' /\ notes'[id].turn = records'[id].request
  BY DEF NoteMatchesRequest
<1> DEFINE Match == id \in DOMAIN records' /\ notes'[id].turn = records'[id].request
<1>0. ASSUME UNCHANGED <<notes, records, restarts>> PROVE Match
  BY <1>0 DEF NoteMatchesRequest
<1>a. ASSUME AgentStep PROVE UNCHANGED <<taskID, records, restarts>>
  BY <1>a, AgentKeepsTasks
<1>1. ASSUME NEW t \in Commands, PollAnswered(t) PROVE Match
  <2>1. UNCHANGED <<records, restarts>>
    BY <1>1, <1>a DEF AgentStep
  <2>2. taskID[t] \in TaskIDs
    BY <1>1 DEF PollAnswered, LoopHasTask
  <2>3. taskID[t] \in DOMAIN records /\ records[taskID[t]].request = t
    BY <2>1, <2>2 DEF IdsAreOwn
  <2>4. notes' = notes \/ \E k \in Kinds : Notify(t, k)
    BY <1>1 DEF PollAnswered, Kinds
  <2>5. ASSUME NEW k \in Kinds, Notify(t, k) PROVE Match
    <3>1. CASE id = taskID[t]
      BY <2>1, <2>3, <2>5, <3>1 DEF Notify, Put
    <3>2. CASE id # taskID[t]
      <4>1. id \in DOMAIN notes /\ notes'[id] = notes[id]
        BY <2>5, <3>2 DEF Notify, Put
      <4> QED BY <2>1, <4>1 DEF NoteMatchesRequest
    <3> QED BY <3>1, <3>2
  <2> QED BY <1>0, <2>1, <2>4, <2>5
<1>2. ASSUME NEW t \in Commands, ServiceAccepts(t) PROVE Match
  <2>1. UNCHANGED <<notes, restarts>>
    BY <1>2, AcceptShape DEF agentVars
  <2>2. id \in DOMAIN records /\ notes[id].turn = records[id].request
    BY <2>1 DEF NoteMatchesRequest
  <2>3. PICK new \in TaskIDs :
          /\ new \notin DOMAIN records
          /\ records' = [k \in DOMAIN records \cup {new} |->
                           IF k = new THEN [request |-> t, status |-> "accepted"] ELSE records[k]]
    BY <1>2, AcceptShape
  <2>4. id \in DOMAIN records' /\ records'[id] = records[id]
    BY <2>2, <2>3
  <2> QED BY <2>1, <2>2, <2>4
<1>3. ASSUME NEW t \in Commands, ServiceSettles(t) PROVE Match
  <2>1. UNCHANGED <<notes, restarts>>
    BY <1>3, SettleShape DEF agentVars
  <2>2. id \in DOMAIN records /\ notes[id].turn = records[id].request
    BY <2>1 DEF NoteMatchesRequest
  <2> QED BY <1>3, <2>1, <2>2, SettleShape
<1>4. CASE ServiceRestarts
  BY <1>4 DEF ServiceRestarts, Service!Restart, TypeOK, Service!ServiceTypeOK
<1>5. ASSUME NEW t \in Commands,
             Forward(t) \/ NotAccepted(t) \/ Accepted(t) \/ Wake(t) \/ PollRaises(t)
      PROVE  notes' = notes
  BY <1>5 DEF Forward, NotAccepted, Accepted, Wake, PollRaises, agentVars
<1>6. ASSUME NEW t \in Questions, AskStatus(t) \/ StatusAnswered(t) PROVE notes' = notes
  BY <1>6 DEF AskStatus, StatusAnswered, agentVars
<1>7. ASSUME RemoveEntity \/ UNCHANGED vars PROVE notes' = notes
  BY <1>7 DEF RemoveEntity, vars, agentVars
<1>8. ASSUME AgentStep, notes' = notes PROVE Match
  BY <1>0, <1>a, <1>8
<1> QED BY <1>1, <1>2, <1>3, <1>4, <1>5, <1>6, <1>7, <1>8, StepSplits DEF AgentStep, ServiceStep

-----------------------------------------------------------------------------
(***************************************************************************)
(* The inductive invariant holds in every reachable state.                 *)
(***************************************************************************)
THEOREM Inductive == Spec => []IInv
<1>1. IInv /\ [Next]_vars => IInv'
  BY TypeStep, LoopHasTaskStep, SaidStep, PollsStep, FiledStep, IdsStep, PolledStep, DropStep,
     NoteStep DEF IInv
<1> QED BY InitInv, <1>1, PTL DEF Spec

(***************************************************************************)
(* Type correctness; an entry of _pending_tasks is filed under the id of   *)
(* the task it holds, also when the service reuses ids after a restart.    *)
(***************************************************************************)
THEOREM TypeCorrect == Spec => []TypeOK
<1>1. IInv => TypeOK
  BY DEF IInv
<1> QED BY Inductive, <1>1, PTL

(***************************************************************************)
(* While the entity lives, every pending task has a loop that polls for    *)
(* it.                                                                     *)
(***************************************************************************)
THEOREM PendingPolled == Spec => []PendingIsPolled
<1>1. IInv => PendingIsPolled
  BY DEF IInv
<1> QED BY Inductive, <1>1, PTL

(***************************************************************************)
(* A promised task is on the pending list until it is itself reported,     *)
(* with any faults of the polls and any restarts of the service, as long   *)
(* as no other request was given its id.                                   *)
(***************************************************************************)
THEOREM NothingDropped == Spec => []NoSilentDrop
<1>1. IInv => NoSilentDrop
  BY DEF IInv
<1> QED BY Inductive, <1>1, PTL

(***************************************************************************)
(* Until the service restarts, a notification quotes the request whose     *)
(* result it brings.                                                       *)
(***************************************************************************)
THEOREM NotesMatch == Spec => []NoteMatchesRequest
<1>1. IInv => NoteMatchesRequest
  BY DEF IInv
<1> QED BY Inductive, <1>1, PTL
=============================================================================
