-------------------------------- MODULE Routing --------------------------------
(***************************************************************************)
(* A service reads its registry file once, at start (buildHTTPHandler in   *)
(* cmd/hermes-voice/main.go), and then routes every request by it          *)
(* (devText in internal/devclient/handler.go).  A registry that does not   *)
(* load ends the program.                                                  *)
(***************************************************************************)
EXTENDS Registry

CONSTANTS
  Documents,   \* what the hand-edited file may hold, once decoded
  DeviceIDs,   \* the device ids requests come with, known or not
  AliasKeys,   \* the aliases they come with, Empty for none
  Nil

ASSUME NilIsNoError == Nil \notin LoadErrors \cup {"nil"}

VARIABLES
  file,      \* the document in the file
  loadErr,   \* the error of LoadFile, Nil before it is called
  registry,  \* the loaded registry
  route      \* the last request and where Resolve sent it

vars == <<file, loadErr, registry, route>>

TypeOK ==
  /\ file \in Documents
  /\ loadErr \in LoadErrors \cup {"nil", Nil}
  /\ registry = IF loadErr = "nil" THEN WithoutKeys(file) ELSE Nil
  /\ route # Nil => registry # Nil

Init ==
  /\ file \in Documents
  /\ loadErr = Nil
  /\ registry = Nil
  /\ route = Nil

(* Mutation of LoadFile: a registry comes along with its error.            *)
LoadFileRegardless ==
  /\ loadErr = Nil
  /\ loadErr' = LoadError(file)
  /\ registry' = WithoutKeys(file)
  /\ UNCHANGED <<file, route>>

LoadFile ==
  /\ loadErr = Nil
  /\ loadErr' = LoadError(file)
  /\ registry' = IF loadErr' = "nil" THEN WithoutKeys(file) ELSE Nil
  /\ UNCHANGED <<file, route>>

RouteRequest(device, alias) ==
  /\ registry # Nil
  /\ route' = [device |-> device, alias |-> alias,
               to |-> Resolve(registry, device, alias)]
  /\ UNCHANGED <<file, loadErr, registry>>

Next ==
  \/ LoadFile
  \/ \E device \in DeviceIDs, alias \in AliasKeys : RouteRequest(device, alias)

Spec == Init /\ [][Next]_vars

-----------------------------------------------------------------------------
(* A binding half that is blank without being empty: white space only.     *)
WhiteSpaceBinding(reg) ==
  \E d \in DOMAIN reg.devices : \E a \in DOMAIN reg.devices[d].aliases :
    LET b == reg.devices[d].aliases[a]
    IN  {b.person, b.profile} \cap (Blanks \ {Empty}) # {}

KnownRoute(reg, device, alias) ==
  /\ device \in DOMAIN reg.devices
  /\ alias # Empty => alias \in DOMAIN reg.devices[device].aliases

(***************************************************************************)
(* What Validate is for: once the registry has loaded, a device and alias  *)
(* it names lead all the way to a backend, whichever half of the route is  *)
(* bound and whichever inherited, so that a request can fail to be routed  *)
(* only by naming a device or alias that is not there (README, "Registry   *)
(* routing contract").  Bindings of mere white space are the exception.    *)
(***************************************************************************)
RouteResolves ==
  registry # Nil /\ route # Nil /\ ~WhiteSpaceBinding(registry) =>
    route.to.err = IF KnownRoute(registry, route.device, route.alias) THEN "nil"
                   ELSE IF route.device \in DOMAIN registry.devices
                        THEN "ErrAliasNotFound" ELSE "ErrDeviceNotFound"

(***************************************************************************)
(* A request is never answered under a profile (its system prompt and      *)
(* model) that belongs to someone other than the person it is routed to:   *)
(* not by default, not by an override, not by a mixture of the two         *)
(* (validateRoutePersonProfile).                                           *)
(***************************************************************************)
RouteOwned ==
  registry # Nil /\ route # Nil /\ route.to.err = "nil" =>
    registry.profiles[route.to.profile].person = route.to.person

(***************************************************************************)
(* The same without the exception, as the contract has it: "a missing      *)
(* alias person inherits the device default person", missing being what    *)
(* Validate takes for missing.                                             *)
(***************************************************************************)
LoadedRouteResolves ==
  /\ registry # Nil
  /\ route # Nil
  /\ KnownRoute(registry, route.device, route.alias)
  => route.to.err = "nil"
=============================================================================
