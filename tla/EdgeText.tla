-------------------------------- MODULE EdgeText -------------------------------
(***************************************************************************)
(* One text request, sent to the service itself and through an edge        *)
(* forwarder that mends it on the way (text and applyEdgeMetadata in       *)
(* internal/forwarder/forwarder.go), to be read by parseDevTextRequest in  *)
(* internal/devclient/handler.go.                                          *)
(*                                                                         *)
(* A payload is what its JSON object decodes to, a missing or null member  *)
(* being the empty string.  Go's decoder also takes "Device_ID" for        *)
(* device_id, the forwarder's map does not: such a member is "folded".     *)
(***************************************************************************)
CONSTANTS
  Devices,   \* device ids, not blank
  Inputs,    \* texts, not blank
  Empty,     \* the empty string
  Blanks,    \* what strings.TrimSpace empties
  Mistyped,  \* a value that is not a string
  Requests,  \* the payloads a client may send
  Nil

Objects == {"object", "object_near_limit"}
Bodies  == Objects \cup {"too_large", "null", "malformed"}

(* No object, or one with string members, other members, or no object.     *)
Metadatas == {"none", "strings", "mixed", "not_object"}

Payloads ==
  [body     : Bodies,
   device   : Devices \cup Blanks \cup {Mistyped},  \* device_id
   folded   : Devices \cup Blanks \cup {Mistyped},  \* the same in other letters
   input    : Inputs \cup Blanks \cup {Mistyped},
   text     : Inputs \cup Blanks \cup {Mistyped},
   metadata : Metadatas,
   unknown  : BOOLEAN]                              \* a member of another name

NoObject(body) ==
  [body |-> body, device |-> Empty, folded |-> Empty, input |-> Empty, text |-> Empty,
   metadata |-> "none", unknown |-> FALSE]

(* A client sends an object with one spelling of device_id, or no object.  *)
ASSUME TextConstants ==
  /\ Empty \in Blanks
  /\ Blanks \cap (Devices \cup Inputs) = {}
  /\ Mistyped \notin Devices \cup Inputs \cup Blanks
  /\ \A p \in Requests :
       /\ p \in Payloads /\ Empty \in {p.device, p.folded}
       /\ p.body \in Objects \/ p = NoObject(p.body)

VARIABLES
  request,          \* what the client sends
  DefaultDeviceID,  \* Config.DefaultDeviceID of the forwarder, Empty for none
  forwarded,        \* what the forwarder makes of it
  direct,           \* the service's answer to the request itself
  through           \* and to the forwarded one, or the forwarder's own answer

textVars == <<request, DefaultDeviceID, forwarded, direct, through>>

-----------------------------------------------------------------------------
(* The decoder: members come in the order of their bytes from the          *)
(* forwarder, and the last one of a field counts.                          *)
DeviceOf(p) == IF p.device = Empty THEN p.folded ELSE p.device

Decodes(p) ==
  /\ p.body \in Objects
  /\ Mistyped \notin {p.device, p.folded, p.input, p.text}
  /\ p.metadata \in {"none", "strings"}
  /\ ~p.unknown

Answers ==
  [code : {"ok"}, device : Devices, input : Inputs]
    \cup [code : {"invalid_request", "panic"}, device : {Empty}, input : {Empty}]

Accept(device, input) == [code |-> "ok", device |-> device, input |-> input]
NotAccepted(code)     == [code |-> code, device |-> Empty, input |-> Empty]

InputOf(p)  == IF p.input = Empty THEN p.text ELSE p.input
Conflict(p) == Empty \notin {p.input, p.text} /\ p.input # p.text

(* parseDevTextRequest; every refusal is an "invalid_request".             *)
Parse(p) ==
  IF Decodes(p) /\ DeviceOf(p) \notin Blanks /\ ~Conflict(p) /\ InputOf(p) \notin Blanks
  THEN Accept(DeviceOf(p), InputOf(p))
  ELSE NotAccepted("invalid_request")

(* Mutation of EdgeDevice: the default replaces any device.                *)
EdgeDeviceAlways(p) == IF DefaultDeviceID = Empty THEN p.device ELSE DefaultDeviceID

EdgeDevice(p) ==
  IF DefaultDeviceID # Empty /\ p.device \in Blanks \cup {Mistyped}
  THEN DefaultDeviceID
  ELSE p.device

(* Mutation of ApplyEdgeMetadata: only the members it knows are passed on. *)
ApplyEdgeMetadataKnown(p) ==
  [p EXCEPT !.device = EdgeDevice(p), !.unknown = FALSE,
            !.metadata = IF @ = "mixed" THEN @ ELSE "strings"]

(* Encoded again, with the edge's members, a payload may be too long.      *)
ApplyEdgeMetadata(p) ==
  [p EXCEPT !.device = EdgeDevice(p),
            !.metadata = IF @ = "mixed" THEN @ ELSE "strings",
            !.body = IF @ = "object_near_limit" THEN "too_large" ELSE @]

-----------------------------------------------------------------------------
TextTypeOK ==
  /\ request \in Payloads
  /\ DefaultDeviceID \in Devices \cup Blanks
  /\ forwarded \in Payloads \cup {Nil}
  /\ direct \in Answers \cup {Nil}
  /\ through \in Answers \cup {Nil}

TextInit ==
  /\ request \in Requests
  /\ DefaultDeviceID \in Devices \cup Blanks
  /\ forwarded = Nil
  /\ direct = Nil
  /\ through = Nil

ServeDirect ==
  /\ direct = Nil
  /\ direct' = Parse(request)
  /\ UNCHANGED <<request, DefaultDeviceID, forwarded, through>>

EdgeRefuses ==
  /\ forwarded = Nil /\ through = Nil
  /\ request.body \in {"too_large", "malformed"}
  /\ through' = NotAccepted("invalid_request")
  /\ UNCHANGED <<request, DefaultDeviceID, forwarded, direct>>

(* Line 113: null decodes to a nil map, which takes no metadata.           *)
EdgePanics ==
  /\ forwarded = Nil /\ through = Nil
  /\ request.body = "null"
  /\ through' = NotAccepted("panic")
  /\ UNCHANGED <<request, DefaultDeviceID, forwarded, direct>>

EdgeForwards ==
  /\ forwarded = Nil
  /\ request.body \in Objects
  /\ forwarded' = ApplyEdgeMetadata(request)
  /\ UNCHANGED <<request, DefaultDeviceID, direct, through>>

ServeForwarded ==
  /\ forwarded # Nil /\ through = Nil
  /\ through' = Parse(forwarded)
  /\ UNCHANGED <<request, DefaultDeviceID, forwarded, direct>>

TextNext == ServeDirect \/ EdgeRefuses \/ EdgePanics \/ EdgeForwards \/ ServeForwarded

TextSpec == TextInit /\ [][TextNext]_textVars

-----------------------------------------------------------------------------
Accepted(answer) == answer # Nil /\ answer.code = "ok"

(***************************************************************************)
(* "The forwarder exposes the same local endpoints" (README.md:162): what  *)
(* the service would do for a client it does for the same device and text  *)
(* when asked through an edge, whatever the edge adds.  Two exceptions: a  *)
(* request that is too long with the edge's metadata is refused, and a     *)
(* device under a folded name is lost to the default device.               *)
(***************************************************************************)
EdgeServesTheSame ==
  /\ Accepted(direct) /\ through # Nil
  /\ request.body # "object_near_limit"
  /\ DefaultDeviceID # Empty => request.folded = Empty
  => through = direct

(***************************************************************************)
(* Nor does the edge make something else of a bad request: it is served    *)
(* only if all that was wrong with it is what the edge provides, a device  *)
(* or metadata (lines 98-114), and then for the edge's device and with the *)
(* client's text.                                                          *)
(***************************************************************************)
EdgeMendsItsOwn ==
  direct # Nil /\ ~Accepted(direct) /\ Accepted(through) =>
    /\ \/ request.device \notin Devices /\ through.device = DefaultDeviceID
       \/ request.metadata = "not_object" /\ through.device = DeviceOf(request)
    /\ through.input = InputOf(request)
=============================================================================
