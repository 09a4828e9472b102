----------------------------- MODULE DevTextProofs -----------------------------
(***************************************************************************)
(* DevText, for any device ids, texts and rules.                           *)
(*                                                                         *)
(* The invariant says where the two answers come from and that the result  *)
(* is what CleanWithTrace makes of an accepted text with rules that New    *)
(* let pass.  What the answers have to do with each other is then a matter *)
(* of Parse and ApplyEdgeMetadata, and what the result is one of the loops *)
(* of package cleanup (CleanupProofs).                                     *)
(***************************************************************************)
EXTENDS DevText, CleanupProofs

-----------------------------------------------------------------------------
(* The answers.                                                            *)

AnswersAreMade ==
  /\ forwarded \in {Nil, ApplyEdgeMetadata(request)}
  /\ forwarded # Nil => request.body \in Objects
  /\ direct \in {Nil, Parse(request)}
  /\ \/ through = Nil
     \/ through.code # "ok" /\ request.body \notin Objects
     \/ forwarded # Nil /\ through = Parse(forwarded)

TextInv == TextTypeOK /\ AnswersAreMade

(* A payload the edge has mended is a payload.                             *)
LEMMA MendedIsPayload ==
  ASSUME NEW p \in Payloads, DefaultDeviceID \in Devices \cup Blanks
  PROVE  ApplyEdgeMetadata(p) \in Payloads
<1>1. EdgeDevice(p) \in Devices \cup Blanks \cup {Mistyped}
  BY DEF EdgeDevice, Payloads
<1>2. (IF p.body = "object_near_limit" THEN "too_large" ELSE p.body) \in Bodies
  BY DEF Payloads, Bodies
<1>3. (IF p.metadata = "mixed" THEN p.metadata ELSE "strings") \in Metadatas
  BY DEF Payloads, Metadatas
<1> QED BY <1>1, <1>2, <1>3 DEF ApplyEdgeMetadata, Payloads

(* The service accepts nothing but a device id and a text.                 *)
LEMMA ParseAnswers ==
  ASSUME NEW p \in Payloads
  PROVE  Parse(p) \in Answers
<1>1. CASE Parse(p) = NotAccepted("invalid_request")
  BY <1>1 DEF NotAccepted, Answers
<1>2. CASE /\ Decodes(p) /\ DeviceOf(p) \notin Blanks /\ InputOf(p) \notin Blanks
           /\ Parse(p) = Accept(DeviceOf(p), InputOf(p))
  <2>1. DeviceOf(p) \in Devices
    BY <1>2 DEF DeviceOf, Decodes, Payloads
  <2>2. InputOf(p) \in Inputs
    BY <1>2 DEF InputOf, Decodes, Payloads
  <2> QED BY <1>2, <2>1, <2>2 DEF Accept, Answers
<1> QED BY <1>1, <1>2 DEF Parse

(* Requests are payloads.                                                  *)
LEMMA RequestIsPayload == Requests \subseteq Payloads
  BY TextConstants

LEMMA TextInitially == TextInit => TextInv
  BY RequestIsPayload DEF TextInit, TextInv, TextTypeOK, AnswersAreMade

(* Each step that answers does it by Parse, or refuses without an object.  *)
LEMMA TextStep == TextInv /\ [TextNext]_textVars => TextInv'
<1> SUFFICES ASSUME TextInv, [TextNext]_textVars
             PROVE  TextInv'
  OBVIOUS
<1> USE DEF TextInv, TextTypeOK, AnswersAreMade
<1>p. request \in Payloads
  OBVIOUS
<1>1. CASE ServeDirect
  BY <1>1, <1>p, ParseAnswers DEF ServeDirect, ApplyEdgeMetadata, EdgeDevice
<1>2. CASE EdgeRefuses
  BY <1>2 DEF EdgeRefuses, NotAccepted, Answers, Objects, ApplyEdgeMetadata, EdgeDevice
<1>3. CASE EdgePanics
  BY <1>3 DEF EdgePanics, NotAccepted, Answers, Objects, ApplyEdgeMetadata, EdgeDevice
<1>4. CASE EdgeForwards
  <2>1. ApplyEdgeMetadata(request) \in Payloads
    BY <1>p, MendedIsPayload
  <2>2. ApplyEdgeMetadata(request)' = ApplyEdgeMetadata(request)
    BY <1>4 DEF EdgeForwards, ApplyEdgeMetadata, EdgeDevice
  <2> QED BY <1>4, <2>1, <2>2 DEF EdgeForwards
<1>5. CASE ServeForwarded
  BY <1>5, ParseAnswers DEF ServeForwarded, ApplyEdgeMetadata, EdgeDevice
<1>6. CASE UNCHANGED textVars
  BY <1>6 DEF textVars, ApplyEdgeMetadata, EdgeDevice
<1> QED BY <1>1, <1>2, <1>3, <1>4, <1>5, <1>6 DEF TextNext

-----------------------------------------------------------------------------
(* The result.                                                             *)

CleanedAsGiven ==
  /\ given \in RuleLists
  /\ cleaner \in {"none", "error", "ready"}
  /\ cleaner = "ready" =>
       ~DuplicateID(given) /\ \A k \in DOMAIN given : ~RuleError(given[k])
  /\ direct # Nil \/ through # Nil => cleaner = "ready"
  /\ result # <<>> =>
       cleaner = "ready" /\ \E input \in Inputs : result = CleanWithTrace(given, input)

IInv == TextInv /\ CleanedAsGiven

LEMMA InitInvariant == Init => IInv
  BY TextInitially DEF Init, TextInit, CleanerInit, IInv, CleanedAsGiven

(* An accepted text is one of the texts.                                   *)
LEMMA AcceptedInput ==
  ASSUME NEW answer \in {direct, through}, TextTypeOK, Accepted(answer)
  PROVE  answer.input \in Inputs
<1>1. answer \in Answers /\ answer.code = "ok"
  BY DEF TextTypeOK, Accepted
<1> QED BY <1>1 DEF Answers

LEMMA NextInvariant == IInv /\ [Next]_vars => IInv'
<1> SUFFICES ASSUME IInv, [Next]_vars
             PROVE  IInv'
  OBVIOUS
<1>1. CASE Start
  <2>1. TextInv'
    BY <1>1, TextStep DEF Start, IInv
  <2>2. /\ cleaner' \in {"error", "ready"} /\ UNCHANGED <<given, result, direct, through>>
        /\ cleaner = "none"
        /\ cleaner' = "ready" =>
             ~(DuplicateID(given) \/ \E k \in DOMAIN given : RuleError(given[k]))
    BY <1>1 DEF Start, New, textVars
  <2>3. result = <<>> /\ direct = Nil /\ through = Nil
    BY <2>2 DEF IInv, CleanedAsGiven
  <2> QED BY <2>1, <2>2, <2>3 DEF IInv, CleanedAsGiven, DuplicateID, RuleError
<1>2. CASE Read
  <2>1. TextInv'
    BY <1>2, TextStep DEF Read, IInv
  <2>2. cleaner = "ready" /\ UNCHANGED <<given, cleaner, result>>
    BY <1>2 DEF Read, cleanerVars
  <2> QED BY <2>1, <2>2 DEF IInv, CleanedAsGiven, DuplicateID, RuleError
<1>3. CASE Clean
  <2>1. TextInv'
    BY <1>3, TextStep DEF Clean, IInv
  <2>2. PICK answer \in {direct, through} :
          Accepted(answer) /\ result' = CleanWithTrace(given, answer.input)
    BY <1>3 DEF Clean
  <2>3. answer.input \in Inputs
    BY <2>2, AcceptedInput DEF IInv, TextInv
  <2>4. cleaner = "ready"
    BY <2>2 DEF IInv, CleanedAsGiven, Accepted
  <2>5. UNCHANGED <<given, cleaner, direct, through>>
    BY <1>3 DEF Clean, textVars
  <2>6. \E input \in Inputs : result' = CleanWithTrace(given', input)
    BY <2>2, <2>3, <2>5
  <2>7. /\ given' \in RuleLists /\ cleaner' = "ready"
        /\ ~DuplicateID(given') /\ \A k \in DOMAIN given' : ~RuleError(given'[k])
    BY <2>4, <2>5 DEF IInv, CleanedAsGiven
  <2> QED BY <2>1, <2>6, <2>7 DEF IInv, CleanedAsGiven
<1>4. CASE UNCHANGED vars
  <2>1. UNCHANGED textVars /\ UNCHANGED <<given, cleaner, result, direct, through>>
    BY <1>4 DEF vars, textVars, cleanerVars
  <2>2. TextInv'
    BY <2>1, TextStep DEF IInv
  <2> QED BY <2>1, <2>2 DEF IInv, CleanedAsGiven, DuplicateID, RuleError
<1> QED BY <1>1, <1>2, <1>3, <1>4 DEF Next

(* IInv holds of every behaviour: where the answers and the result come    *)
(* from.                                                                   *)
THEOREM Inductive == Spec => []IInv
  BY InitInvariant, NextInvariant, PTL DEF Spec

(* Payloads stay payloads through the edge, answers name a device id and a *)
(* text, and only rules that can be applied are run (Parse,                *)
(* ApplyEdgeMetadata, New).                                                *)
THEOREM TypeCorrect == Spec => []TypeOK
<1>1. IInv => TypeOK
  BY DEF IInv, TextInv, CleanedAsGiven, RuleError, TypeOK, CleanerTypeOK
<1> QED BY <1>1, Inductive, PTL

-----------------------------------------------------------------------------
(* What is accepted is accepted as it is read.                             *)
LEMMA AcceptedAsRead ==
  ASSUME NEW p \in Payloads, Accepted(Parse(p))
  PROVE  /\ Decodes(p) /\ DeviceOf(p) \notin Blanks
         /\ ~Conflict(p) /\ InputOf(p) \notin Blanks
         /\ Parse(p) = Accept(DeviceOf(p), InputOf(p))
  BY DEF Accepted, Parse, NotAccepted

(* The edge changes nothing of a request the service accepts (applyEdge-   *)
(* Metadata): EdgeServesTheSame for any device ids and texts.              *)
THEOREM EdgeTransparent == Spec => []EdgeServesTheSame
<1>1. IInv => EdgeServesTheSame
  <2> SUFFICES ASSUME IInv, Accepted(direct), through # Nil,
                      request.body # "object_near_limit",
                      DefaultDeviceID # Empty => request.folded = Empty
               PROVE  through = direct
    BY DEF EdgeServesTheSame
  <2>1. request \in Payloads /\ direct = Parse(request)
    BY DEF IInv, TextInv, TextTypeOK, AnswersAreMade, Accepted
  <2>2. /\ Decodes(request) /\ DeviceOf(request) \notin Blanks
        /\ ~Conflict(request) /\ InputOf(request) \notin Blanks
        /\ direct = Accept(DeviceOf(request), InputOf(request))
    BY <2>1, AcceptedAsRead
  <2>3. request.body = "object"
    BY <2>2 DEF Decodes, Objects
  <2> DEFINE f == ApplyEdgeMetadata(request)
  <2>4. through = Parse(f)
    BY <2>3 DEF IInv, TextInv, AnswersAreMade, Objects
  <2>5. /\ f.body = "object" /\ f.metadata = "strings"
        /\ f.folded = request.folded /\ f.input = request.input
        /\ f.text = request.text /\ f.unknown = request.unknown
        /\ f.device = EdgeDevice(request)
    BY <2>1, <2>2, <2>3 DEF Decodes, ApplyEdgeMetadata, Payloads
  <2>6. EdgeDevice(request) = request.device
    BY <2>2, TextConstants DEF EdgeDevice, Decodes, DeviceOf
  <2>7. Decodes(f)
    BY <2>2, <2>5, <2>6 DEF Decodes, Objects
  <2>8. DeviceOf(f) = DeviceOf(request) /\ InputOf(f) = InputOf(request) /\ ~Conflict(f)
    BY <2>2, <2>5, <2>6 DEF DeviceOf, InputOf, Conflict
  <2> HIDE DEF f
  <2> QED BY <2>2, <2>4, <2>7, <2>8 DEF Parse
<1> QED BY <1>1, Inductive, PTL

(* What the edge makes acceptable is acceptable by the edge's device or    *)
(* metadata: EdgeMendsItsOwn for any device ids and texts.                 *)
THEOREM EdgeMends == Spec => []EdgeMendsItsOwn
<1>1. IInv => EdgeMendsItsOwn
  <2> SUFFICES ASSUME IInv, direct # Nil, ~Accepted(direct), Accepted(through)
               PROVE  /\ \/ request.device \notin Devices /\ through.device = DefaultDeviceID
                         \/ request.metadata = "not_object" /\ through.device = DeviceOf(request)
                      /\ through.input = InputOf(request)
    BY DEF EdgeMendsItsOwn
  <2>1. request \in Payloads /\ direct = Parse(request)
    BY DEF IInv, TextInv, TextTypeOK, AnswersAreMade
  <2> DEFINE f == ApplyEdgeMetadata(request)
  <2>2. forwarded = f /\ through = Parse(f) /\ request.body \in Objects
    BY DEF IInv, TextInv, AnswersAreMade, Accepted
  <2>3. f \in Payloads
    BY <2>1, MendedIsPayload DEF IInv, TextInv, TextTypeOK
  <2>4. /\ Decodes(f) /\ DeviceOf(f) \notin Blanks
        /\ ~Conflict(f) /\ InputOf(f) \notin Blanks
        /\ through = Accept(DeviceOf(f), InputOf(f))
    BY <2>2, <2>3, AcceptedAsRead
  <2>5. /\ f.folded = request.folded /\ f.input = request.input
        /\ f.text = request.text /\ f.unknown = request.unknown
        /\ f.device = EdgeDevice(request)
        /\ request.metadata # "mixed"
    BY <2>1, <2>4 DEF Decodes, ApplyEdgeMetadata, Payloads
  <2>6. InputOf(f) = InputOf(request) /\ (Conflict(f) <=> Conflict(request))
    BY <2>5 DEF InputOf, Conflict
  <2>7. through.device = DeviceOf(f) /\ through.input = InputOf(request)
    BY <2>4, <2>6 DEF Accept
  <2> HIDE DEF f
  <2>8. CASE request.device \in Devices \/ DefaultDeviceID = Empty
    <3>1. EdgeDevice(request) = request.device
      BY <2>8, TextConstants DEF EdgeDevice
    <3>2. DeviceOf(f) = DeviceOf(request)
      BY <2>5, <3>1 DEF DeviceOf
    <3>3. request.metadata \notin {"none", "strings"}
      BY <2>1, <2>2, <2>4, <2>5, <2>6, <3>1, <3>2 DEF Parse, Decodes, Accept, Accepted
    <3> QED BY <2>1, <2>5, <2>7, <3>2, <3>3 DEF Payloads, Metadatas
  <2>9. CASE request.device \notin Devices /\ DefaultDeviceID # Empty
    <3>1. EdgeDevice(request) = DefaultDeviceID
      BY <2>1, <2>9 DEF EdgeDevice, Payloads
    <3> QED BY <2>5, <2>7, <2>9, <3>1 DEF DeviceOf
  <2> QED BY <2>8, <2>9
<1> QED BY <1>1, Inductive, PTL

-----------------------------------------------------------------------------
(* A result is that of a text which is not blank, with rules of which no   *)
(* two have the same id.                                                   *)
LEMMA ResultIsCleaned ==
  ASSUME IInv, result # <<>>
  PROVE  /\ given \in Seq(Rules) /\ UniqueIDs(given)
         /\ \E input \in Texts : ~IsBlank(input) /\ result = CleanWithTrace(given, input)
<1>1. /\ given \in RuleLists /\ ~DuplicateID(given)
      /\ \E input \in Inputs : result = CleanWithTrace(given, input)
  BY DEF IInv, CleanedAsGiven
<1>2. given \in Seq(Rules)
  BY <1>1, CleanerConstants
<1>3. UniqueIDs(given)
  <2> SUFFICES ASSUME NEW i \in 1..Len(given), NEW j \in 1..Len(given),
                      given[i].id = given[j].id, i # j
               PROVE  FALSE
    BY DEF UniqueIDs
  <2>1. DOMAIN given = 1..Len(given)
    BY <1>2
  <2>2. i < j \/ j < i
    OBVIOUS
  <2> QED BY <1>1, <2>1, <2>2 DEF DuplicateID
<1> QED BY <1>1, <1>2, <1>3, DevConstants

(* The backend is never asked an empty question (the fallback of Clean-    *)
(* WithTrace), nor under the default rules a blank one: NeverSilenced for  *)
(* any texts and rules.                                                    *)
THEOREM FallbackSpeaks == Spec => []NeverSilenced
<1>1. IInv => NeverSilenced
  <2> SUFFICES ASSUME IInv, result # <<>>
               PROVE  /\ result.cleaned # <<>>
                      /\ given = DefaultRules => ~IsBlank(result.cleaned)
    BY DEF NeverSilenced
  <2>1. given \in Seq(Rules)
    BY ResultIsCleaned
  <2>2. PICK input \in Texts : ~IsBlank(input) /\ result = CleanWithTrace(given, input)
    BY ResultIsCleaned
  <2>3. result.cleaned # <<>>
    BY <2>1, <2>2, CleanedIsSome
  <2>4. given = DefaultRules => ~IsBlank(result.cleaned)
    BY <2>1, <2>2, DefaultHasWords
  <2> QED BY <2>3, <2>4
<1> QED BY <1>1, Inductive, PTL

(* The trace of CleanWithTrace tells what each rule did: TraceReplays for  *)
(* any rules that New lets pass and any text.                              *)
THEOREM TraceIsReplay == Spec => []TraceReplays
<1>1. IInv => TraceReplays
  <2> SUFFICES ASSUME IInv, result # <<>>
               PROVE  TraceReplays
    BY DEF TraceReplays
  <2> QED BY ResultIsCleaned, CleaningReplays
<1> QED BY <1>1, Inductive, PTL

(* The default rules strip words and phrases, whatever the spacing:        *)
(* CleanedByWords for any text.                                            *)
THEOREM DefaultsStripWords == Spec => []CleanedByWords
<1>1. IInv => CleanedByWords
  <2> SUFFICES ASSUME IInv, result # <<>>
               PROVE  CleanedByWords
    BY DEF CleanedByWords
  <2> QED BY ResultIsCleaned, CleaningByWords
<1> QED BY <1>1, Inductive, PTL
=============================================================================
