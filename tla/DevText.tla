-------------------------------- MODULE DevText --------------------------------
(***************************************************************************)
(* What a service makes of a text request before it asks the backend: the  *)
(* request is read (EdgeText), as it was sent or as an edge forwarder has  *)
(* passed it on, and the text of an accepted one is cleaned (Cleanup) for  *)
(* the backend (devText in internal/devclient/handler.go).  The cleaner is *)
(* made first; a service without one does not start (buildHTTPHandler in   *)
(* cmd/hermes-voice/main.go).                                              *)
(***************************************************************************)
EXTENDS EdgeText, Cleanup

(* The texts of EdgeText are those of Cleanup.                             *)
ASSUME DevConstants == \A input \in Inputs : input \in Texts /\ ~IsBlank(input)

vars == <<textVars, cleanerVars>>

TypeOK == TextTypeOK /\ CleanerTypeOK

Init == TextInit /\ CleanerInit

Start == New /\ UNCHANGED textVars

Read == cleaner = "ready" /\ TextNext /\ UNCHANGED cleanerVars

Clean ==
  /\ result = <<>>
  /\ \E answer \in {direct, through} :
       Accepted(answer) /\ result' = CleanWithTrace(given, answer.input)
  /\ UNCHANGED <<given, cleaner, textVars>>

Next == Start \/ Read \/ Clean

Spec == Init /\ [][Next]_vars

-----------------------------------------------------------------------------
(***************************************************************************)
(* "if non-whitespace input would be cleaned to an empty string, cleanup   *)
(* falls back" (README.md:63): whatever a client sends, by whatever way,   *)
(* no backend is asked an empty question, under any rules, and under the   *)
(* default rules none without a word in it, which backend.Validate would   *)
(* refuse after the request has been accepted.                             *)
(***************************************************************************)
NeverSilenced ==
  result # <<>> =>
    /\ result.cleaned # <<>>
    /\ given = DefaultRules => ~IsBlank(result.cleaned)
=============================================================================
