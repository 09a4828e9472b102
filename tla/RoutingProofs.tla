----------------------------- MODULE RoutingProofs -----------------------------
(***************************************************************************)
(* What a successful Load guarantees of every later Resolve, for registries*)
(* of any size and ids of any kind.                                        *)
(*                                                                         *)
(* The argument: an empty set of issues means that each table's references *)
(* lead into the next table (ValidTables) and that the route of each alias *)
(* does as well (ValidAlias); so Lookup finds all it looks for, provided   *)
(* Resolve's idea of what a binding leaves out is Validate's               *)
(* (KnownRouteFound).                                                      *)
(***************************************************************************)
EXTENDS Routing, TLAPS

(* An issue that is not raised is not there.                               *)
LEMMA NotRaised ==
  ASSUME NEW cond, NEW path, NEW code, Raise(cond, path, code) = {}
  PROVE  ~cond
BY DEF Raise

(* A reference nobody objects to leads into its table.                     *)
LEMMA ReferenceHolds ==
  ASSUME NEW table, NEW id, NEW path, ReferenceIssues(table, id, path) = {}
  PROVE  Refers(table, id)
<1>1. /\ Raise(Blank(id), path, "missing_required") = {}
      /\ Raise(~Blank(id) /\ id \notin DOMAIN table, path, "missing_reference") = {}
  BY DEF ReferenceIssues
<1> QED BY <1>1, NotRaised DEF Refers

(* A route whose two ends are known keeps person and profile together.     *)
LEMMA RouteHolds ==
  ASSUME NEW reg, NEW person, NEW profile, NEW path,
         RouteIssues(reg, person, profile, path) = {},
         Refers(reg.persons, person), Refers(reg.profiles, profile)
  PROVE  reg.profiles[profile].person = person
BY NotRaised DEF RouteIssues

(* A valid registry: no entry of any table has an issue of its own.        *)
LEMMA NoIssues ==
  ASSUME NEW reg, Issues(reg) = {}
  PROVE  /\ \A id \in DOMAIN reg.models : ModelIssues(reg, id) = {}
         /\ \A id \in DOMAIN reg.persons : PersonIssues(reg, id) = {}
         /\ \A id \in DOMAIN reg.profiles : ProfileIssues(reg, id) = {}
         /\ \A id \in DOMAIN reg.devices : DeviceIssues(reg, id) = {}
<1>1. /\ UNION {ModelIssues(reg, id) : id \in DOMAIN reg.models} = {}
      /\ UNION {PersonIssues(reg, id) : id \in DOMAIN reg.persons} = {}
      /\ UNION {ProfileIssues(reg, id) : id \in DOMAIN reg.profiles} = {}
      /\ UNION {DeviceIssues(reg, id) : id \in DOMAIN reg.devices} = {}
  BY DEF Issues
<1> QED BY <1>1

(* The tables of a valid registry refer to one another, and every device   *)
(* has a default route of its own.                                         *)
LEMMA ValidTables ==
  ASSUME NEW reg, Issues(reg) = {}
  PROVE  /\ \A m \in DOMAIN reg.models : Refers(reg.backends, reg.models[m].backend)
         /\ \A q \in DOMAIN reg.profiles : Refers(reg.models, reg.profiles[q].model)
         /\ \A d \in DOMAIN reg.devices :
              LET dev == reg.devices[d]
              IN  /\ Refers(reg.persons, dev.default_person)
                  /\ Refers(reg.profiles, dev.default_profile)
                  /\ reg.profiles[dev.default_profile].person = dev.default_person
                  /\ \A a \in DOMAIN dev.aliases : AliasIssues(reg, d, a) = {}
<1>1. ASSUME NEW m \in DOMAIN reg.models
      PROVE  Refers(reg.backends, reg.models[m].backend)
  <2>1. ReferenceIssues(reg.backends, reg.models[m].backend, <<"models", m>>) = {}
    BY NoIssues DEF ModelIssues
  <2> QED BY <2>1, ReferenceHolds
<1>2. ASSUME NEW q \in DOMAIN reg.profiles
      PROVE  Refers(reg.models, reg.profiles[q].model)
  <2>1. ReferenceIssues(reg.models, reg.profiles[q].model, <<"profiles", q>>) = {}
    BY NoIssues DEF ProfileIssues
  <2> QED BY <2>1, ReferenceHolds
<1>3. ASSUME NEW d \in DOMAIN reg.devices
      PROVE  LET dev == reg.devices[d]
             IN  /\ Refers(reg.persons, dev.default_person)
                 /\ Refers(reg.profiles, dev.default_profile)
                 /\ reg.profiles[dev.default_profile].person = dev.default_person
                 /\ \A a \in DOMAIN dev.aliases : AliasIssues(reg, d, a) = {}
  <2> DEFINE dev == reg.devices[d]
             path == <<"devices", d>>
  <2>0. DeviceIssues(reg, d) = {}
    BY NoIssues
  <2>1. /\ ReferenceIssues(reg.persons, dev.default_person, path) = {}
        /\ ReferenceIssues(reg.profiles, dev.default_profile, path) = {}
        /\ RouteIssues(reg, dev.default_person, dev.default_profile, path) = {}
        /\ UNION {AliasIssues(reg, d, a) : a \in DOMAIN dev.aliases} = {}
    BY <2>0 DEF DeviceIssues
  <2>2. Refers(reg.persons, dev.default_person) /\ Refers(reg.profiles, dev.default_profile)
    BY <2>1, ReferenceHolds
  <2>3. reg.profiles[dev.default_profile].person = dev.default_person
    BY <2>1, <2>2, RouteHolds
  <2>4. \A a \in DOMAIN dev.aliases : AliasIssues(reg, d, a) = {}
    BY <2>1
  <2> QED BY <2>2, <2>3, <2>4
<1> QED BY <1>1, <1>2, <1>3

(* The route of an alias, read as Validate reads it, is checked and both   *)
(* its ends are given.                                                     *)
LEMMA ValidAlias ==
  ASSUME NEW reg, Issues(reg) = {}, NEW d \in DOMAIN reg.devices,
         NEW a \in DOMAIN reg.devices[d].aliases
  PROVE  LET dev     == reg.devices[d]
             b       == dev.aliases[a]
             person  == IF Blank(b.person) THEN dev.default_person ELSE b.person
             profile == IF Blank(b.profile) THEN dev.default_profile ELSE b.profile
         IN  /\ Refers(reg.persons, person)
             /\ Refers(reg.profiles, profile)
             /\ reg.profiles[profile].person = person
<1> DEFINE dev     == reg.devices[d]
           b       == dev.aliases[a]
           person  == IF Blank(b.person) THEN dev.default_person ELSE b.person
           profile == IF Blank(b.profile) THEN dev.default_profile ELSE b.profile
           path    == <<"devices", d, a>>
<1>1. AliasIssues(reg, d, a) = {}
  BY ValidTables
<1>2. /\ Raise(~Blank(b.person) /\ b.person \notin DOMAIN reg.persons,
               path, "missing_reference") = {}
      /\ Raise(~Blank(b.profile) /\ b.profile \notin DOMAIN reg.profiles,
               path, "missing_reference") = {}
      /\ RouteIssues(reg, person, profile, path) = {}
  BY <1>1 DEF AliasIssues
<1>3. /\ ~Blank(b.person) => b.person \in DOMAIN reg.persons
      /\ ~Blank(b.profile) => b.profile \in DOMAIN reg.profiles
  BY <1>2, NotRaised
<1>4. Refers(reg.persons, dev.default_person) /\ Refers(reg.profiles, dev.default_profile)
  BY ValidTables
<1>5. Refers(reg.persons, person) /\ Refers(reg.profiles, profile)
  BY <1>3, <1>4 DEF Refers
<1>6. reg.profiles[profile].person = person
  <2> HIDE DEF person, profile, path
  <2> QED BY <1>2, <1>5, RouteHolds
<1> QED BY <1>5, <1>6

(* No person and no profile of a valid registry has a blank id.            *)
LEMMA IDsNotBlank ==
  ASSUME NEW reg, Issues(reg) = {}
  PROVE  (DOMAIN reg.persons \cup DOMAIN reg.profiles) \cap Blanks = {}
<1>1. ASSUME NEW id \in DOMAIN reg.persons PROVE id \in IDs
  <2>1. Raise(id \notin IDs, <<"persons", id>>, "invalid_id") = {}
    BY NoIssues DEF PersonIssues, IDIssues
  <2> QED BY <2>1, NotRaised
<1>2. ASSUME NEW id \in DOMAIN reg.profiles PROVE id \in IDs
  <2>1. Raise(id \notin IDs, <<"profiles", id>>, "invalid_id") = {}
    BY NoIssues DEF ProfileIssues, IDIssues
  <2> QED BY <2>1, NotRaised
<1> QED BY <1>1, <1>2, RegistryConstants

(* Where a binding's halves are empty or not blank, Resolve and Validate   *)
(* read the same route, and it is a good one.                              *)
LEMMA ValidRoute ==
  ASSUME NEW reg, Issues(reg) = {}, NEW d, NEW a, KnownRoute(reg, d, a),
         a # Empty =>
           LET b == reg.devices[d].aliases[a]
           IN  {b.person, b.profile} \cap (Blanks \ {Empty}) = {}
  PROVE  LET person  == RoutePerson(reg.devices[d], a)
             profile == RouteProfile(reg.devices[d], a)
         IN  /\ Refers(reg.persons, person)
             /\ Refers(reg.profiles, profile)
             /\ reg.profiles[profile].person = person
<1> DEFINE dev == reg.devices[d]
           b   == dev.aliases[a]
<1>1. CASE a = Empty
  <2>1. RoutePerson(dev, a) = dev.default_person /\ RouteProfile(dev, a) = dev.default_profile
    BY <1>1 DEF RoutePerson, RouteProfile
  <2> QED BY <2>1, ValidTables DEF KnownRoute
<1>2. CASE a # Empty
  <2>1. d \in DOMAIN reg.devices /\ a \in DOMAIN dev.aliases
    BY <1>2 DEF KnownRoute
  <2>2. /\ Blank(b.person) <=> b.person = Empty
        /\ Blank(b.profile) <=> b.profile = Empty
    BY <1>2, RegistryConstants DEF Blank
  <2>3. /\ RoutePerson(dev, a) = IF Blank(b.person) THEN dev.default_person ELSE b.person
        /\ RouteProfile(dev, a) = IF Blank(b.profile) THEN dev.default_profile ELSE b.profile
    BY <1>2, <2>2 DEF RoutePerson, RouteProfile, Inherit
  <2> DEFINE person  == IF Blank(b.person) THEN dev.default_person ELSE b.person
             profile == IF Blank(b.profile) THEN dev.default_profile ELSE b.profile
  <2>4. /\ Refers(reg.persons, person)
        /\ Refers(reg.profiles, profile)
        /\ reg.profiles[profile].person = person
    BY <2>1, ValidAlias
  <2> HIDE DEF dev, b, person, profile
  <2> QED BY <2>3, <2>4 DEF dev, b, person, profile
<1> QED BY <1>1, <1>2

(* A device and alias the registry knows are routed to a backend.          *)
LEMMA KnownRouteFound ==
  ASSUME NEW reg, Issues(reg) = {}, ~WhiteSpaceBinding(reg),
         NEW d, NEW a, KnownRoute(reg, d, a)
  PROVE  Resolve(reg, d, a).err = "nil"
<1> DEFINE person  == RoutePerson(reg.devices[d], a)
           profile == RouteProfile(reg.devices[d], a)
           model   == reg.profiles[profile].model
<1>1. Refers(reg.persons, person) /\ Refers(reg.profiles, profile)
  BY ValidRoute DEF WhiteSpaceBinding, KnownRoute
<1>2. Refers(reg.models, model) /\ Refers(reg.backends, reg.models[model].backend)
  BY <1>1, ValidTables DEF Refers
<1>3. person # Empty /\ profile # Empty
  BY <1>1, RegistryConstants DEF Refers, Blank
<1>4. Lookup(reg, person, profile).err = "nil"
  BY <1>1, <1>2, <1>3 DEF Lookup, Refers
<1>5. Resolve(reg, d, a) = Lookup(reg, person, profile)
  BY DEF Resolve, KnownRoute
<1> QED BY <1>4, <1>5

(* A route that was found keeps person and profile together.               *)
LEMMA FoundRouteOwned ==
  ASSUME NEW reg, Issues(reg) = {}, NEW d, NEW a, Resolve(reg, d, a).err = "nil"
  PROVE  reg.profiles[Resolve(reg, d, a).profile].person = Resolve(reg, d, a).person
<1> DEFINE person  == RoutePerson(reg.devices[d], a)
           profile == RouteProfile(reg.devices[d], a)
<1>1. KnownRoute(reg, d, a)
  BY DEF Resolve, KnownRoute, Failed
<1>2. Resolve(reg, d, a) = Lookup(reg, person, profile)
  BY <1>1 DEF Resolve, KnownRoute
<1>3. /\ person \in DOMAIN reg.persons /\ profile \in DOMAIN reg.profiles
      /\ Resolve(reg, d, a).person = person /\ Resolve(reg, d, a).profile = profile
  <2> HIDE DEF person, profile
  <2> QED BY <1>2 DEF Lookup, Failed
<1>4. person \notin Blanks /\ profile \notin Blanks
  BY <1>3, IDsNotBlank
<1>5. a # Empty =>
        LET b == reg.devices[d].aliases[a]
        IN  {b.person, b.profile} \cap (Blanks \ {Empty}) = {}
  BY <1>4 DEF RoutePerson, RouteProfile, Inherit
<1>6. reg.profiles[profile].person = person
  BY <1>1, <1>5, ValidRoute
<1> QED BY <1>3, <1>6

-----------------------------------------------------------------------------
(* The inductive invariant: the loaded registry has no issues, and the     *)
(* answer at hand is Resolve's.                                            *)
RInv ==
  /\ TypeOK
  /\ registry # Nil => Issues(registry) = {}
  /\ route # Nil => route.to = Resolve(registry, route.device, route.alias)

(* RInv holds throughout: the registry is checked when it is loaded, and   *)
(* nothing changes it afterwards (Load, Resolve).                          *)
THEOREM RoutingInvariance == Spec => []RInv
<1>1. Init => RInv
  BY NilIsNoError DEF Init, RInv, TypeOK
<1>2. RInv /\ [Next]_vars => RInv'
  <2> SUFFICES ASSUME RInv, [Next]_vars PROVE RInv'
    OBVIOUS
  <2>1. CASE LoadFile
    <3>1. LoadError(file) \in LoadErrors \cup {"nil"}
      BY DEF LoadError, LoadErrors
    <3>2. LoadError(file) = "nil" => Issues(WithoutKeys(file)) = {}
      BY DEF LoadError
    <3>3. registry = Nil /\ route = Nil /\ route' = Nil
      BY <2>1, NilIsNoError DEF RInv, TypeOK, LoadFile
    <3> QED BY <2>1, <3>1, <3>2, <3>3 DEF RInv, TypeOK, LoadFile
  <2>2. ASSUME NEW d \in DeviceIDs, NEW a \in AliasKeys, RouteRequest(d, a)
        PROVE  RInv'
    BY <2>2 DEF RInv, TypeOK, RouteRequest
  <2>3. CASE UNCHANGED vars
    BY <2>3 DEF RInv, TypeOK, vars
  <2> QED BY <2>1, <2>2, <2>3 DEF Next
<1> QED BY <1>1, <1>2, PTL DEF Spec

(* The program runs on a registry exactly when the file loaded without an  *)
(* error, and then on that file's (LoadFile, buildHTTPHandler).            *)
THEOREM RoutingTypeCorrect == Spec => []TypeOK
BY RoutingInvariance, PTL DEF RInv

(* RouteResolves for every registry: once the file has loaded, a request   *)
(* is routed to a backend unless it names what is not there.               *)
THEOREM EveryKnownRouteResolves == Spec => []RouteResolves
<1>1. RInv => RouteResolves
  <2> SUFFICES ASSUME RInv, registry # Nil, route # Nil, ~WhiteSpaceBinding(registry)
               PROVE  route.to.err =
                        IF KnownRoute(registry, route.device, route.alias) THEN "nil"
                        ELSE IF route.device \in DOMAIN registry.devices
                             THEN "ErrAliasNotFound" ELSE "ErrDeviceNotFound"
    BY DEF RouteResolves
  <2>1. CASE KnownRoute(registry, route.device, route.alias)
    BY <2>1, KnownRouteFound DEF RInv
  <2>2. CASE ~KnownRoute(registry, route.device, route.alias)
    BY <2>2 DEF RInv, KnownRoute, Resolve, Failed
  <2> QED BY <2>1, <2>2
<1> QED BY <1>1, RoutingInvariance, PTL

(* RouteOwned for every registry: whatever a loaded registry routes a      *)
(* request to, the profile is the person's own.                            *)
THEOREM EveryRouteOwned == Spec => []RouteOwned
<1>1. RInv => RouteOwned
  BY FoundRouteOwned DEF RInv, RouteOwned
<1> QED BY <1>1, RoutingInvariance, PTL
=============================================================================
