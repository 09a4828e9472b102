------------------------------- MODULE Registry -------------------------------
(***************************************************************************)
(* The local registry (internal/registry): what Load accepts, what         *)
(* Validate objects to, and where Resolve routes a device and an alias.    *)
(*                                                                         *)
(* A registry is a record of five tables, functions from the ids present   *)
(* to entries.  A string is a member of no particular set: all the code    *)
(* asks of one is whether it is empty, whether it is blank (empty after    *)
(* strings.TrimSpace) and whether it matches one of two patterns.          *)
(***************************************************************************)
CONSTANTS
  Empty,       \* ""
  Blanks,      \* the strings isBlank holds of
  IDs,         \* the strings registryIDPattern matches
  SecretRefs   \* the strings secretRefPattern matches

ASSUME RegistryConstants ==
  /\ Empty \in Blanks
  /\ Blanks \cap (IDs \cup SecretRefs) = {}

Blank(s) == s \in Blanks

-----------------------------------------------------------------------------
(***************************************************************************)
(* Validate: the set of its issues, each a code and the path of the entry  *)
(* it is about.  Validate looks at everything and reports all it finds.    *)
(***************************************************************************)
Raise(cond, path, code) == IF cond THEN {<<path, code>>} ELSE {}

(* An id that must be given and must be a key of the table.                *)
Refers(table, id) == ~Blank(id) /\ id \in DOMAIN table

ReferenceIssues(table, id, path) ==
  Raise(Blank(id), path, "missing_required")
    \cup Raise(~Blank(id) /\ id \notin DOMAIN table, path, "missing_reference")

IDIssues(path, id) == Raise(id \notin IDs, path, "invalid_id")

SectionIssues(reg) ==
  UNION {Raise(DOMAIN table[2] = {}, <<table[1]>>, "missing_required") :
           table \in {<<"backends", reg.backends>>, <<"models", reg.models>>,
                      <<"persons", reg.persons>>, <<"profiles", reg.profiles>>,
                      <<"devices", reg.devices>>}}

BackendIssues(reg, id) ==
  LET b    == reg.backends[id]
      path == <<"backends", id>>
  IN  IDIssues(path, id)
        \cup Raise(Blank(b.type), path, "missing_required")
        \cup Raise(~Blank(b.type) /\ b.type # "hermes", path, "unknown_backend_type")
        \cup Raise(b.type = "hermes" /\ Blank(b.endpoint), path, "missing_required")
        \cup Raise(b.api_key_ref # Empty /\ b.api_key_ref \notin SecretRefs,
                   path, "invalid_secret_ref")

ModelIssues(reg, id) ==
  LET path == <<"models", id>>
  IN  IDIssues(path, id)
        \cup ReferenceIssues(reg.backends, reg.models[id].backend, path)
        \cup Raise(Blank(reg.models[id].name), path, "missing_required")

PersonIssues(reg, id) ==
  LET path == <<"persons", id>>
  IN  IDIssues(path, id)
        \cup Raise(Blank(reg.persons[id].display_name), path, "missing_required")

(* Mutation of ProfileIssues: the model is only asked to be given.         *)
ProfileIssuesModelGiven(reg, id) ==
  LET path == <<"profiles", id>>
  IN  IDIssues(path, id)
        \cup ReferenceIssues(reg.persons, reg.profiles[id].person, path)
        \cup Raise(Blank(reg.profiles[id].model), path, "missing_required")

ProfileIssues(reg, id) ==
  LET path == <<"profiles", id>>
  IN  IDIssues(path, id)
        \cup ReferenceIssues(reg.persons, reg.profiles[id].person, path)
        \cup ReferenceIssues(reg.models, reg.profiles[id].model, path)

(* validateRoutePersonProfile, called once both ends of a route are known. *)
RouteIssues(reg, person, profile, path) ==
  Raise(/\ Refers(reg.persons, person)
        /\ Refers(reg.profiles, profile)
        /\ reg.profiles[profile].person # person,
        path, "incompatible_person_profile")

(* Mutation of AliasIssues: an inherited half of the route is not checked. *)
AliasIssuesWithoutInherited(reg, id, alias) ==
  LET b    == reg.devices[id].aliases[alias]
      path == <<"devices", id, alias>>
  IN  Raise(Blank(alias), path, "invalid_id")
        \cup Raise(Blank(b.person) /\ Blank(b.profile), path, "missing_required")
        \cup Raise(~Blank(b.person) /\ b.person \notin DOMAIN reg.persons,
                   path, "missing_reference")
        \cup Raise(~Blank(b.profile) /\ b.profile \notin DOMAIN reg.profiles,
                   path, "missing_reference")
        \cup RouteIssues(reg, b.person, b.profile, path)

(* The route of an alias: what the binding leaves blank is the default's.  *)
AliasIssues(reg, id, alias) ==
  LET dev     == reg.devices[id]
      b       == dev.aliases[alias]
      person  == IF Blank(b.person) THEN dev.default_person ELSE b.person
      profile == IF Blank(b.profile) THEN dev.default_profile ELSE b.profile
      path    == <<"devices", id, alias>>
  IN  Raise(Blank(alias), path, "invalid_id")
        \cup Raise(Blank(b.person) /\ Blank(b.profile), path, "missing_required")
        \cup Raise(~Blank(b.person) /\ b.person \notin DOMAIN reg.persons,
                   path, "missing_reference")
        \cup Raise(~Blank(b.profile) /\ b.profile \notin DOMAIN reg.profiles,
                   path, "missing_reference")
        \cup RouteIssues(reg, person, profile, path)

DeviceIssues(reg, id) ==
  LET dev  == reg.devices[id]
      path == <<"devices", id>>
  IN  IDIssues(path, id)
        \cup Raise(Blank(dev.label), path, "missing_required")
        \cup ReferenceIssues(reg.persons, dev.default_person, path)
        \cup ReferenceIssues(reg.profiles, dev.default_profile, path)
        \cup RouteIssues(reg, dev.default_person, dev.default_profile, path)
        \cup (UNION {AliasIssues(reg, id, alias) : alias \in DOMAIN dev.aliases})

Issues(reg) ==
  Raise(reg.schema_version # 1, <<"schema_version">>, "unsupported_schema_version")
    \cup SectionIssues(reg)
    \cup (UNION {BackendIssues(reg, id) : id \in DOMAIN reg.backends})
    \cup (UNION {ModelIssues(reg, id) : id \in DOMAIN reg.models})
    \cup (UNION {PersonIssues(reg, id) : id \in DOMAIN reg.persons})
    \cup (UNION {ProfileIssues(reg, id) : id \in DOMAIN reg.profiles})
    \cup (UNION {DeviceIssues(reg, id) : id \in DOMAIN reg.devices})

-----------------------------------------------------------------------------
(***************************************************************************)
(* Load.  A document is a registry whose backends may also carry an        *)
(* api_key; the first of three checks to fail is what Load reports.        *)
(***************************************************************************)
WithoutKeys(doc) ==
  [doc EXCEPT !.backends =
     [id \in DOMAIN doc.backends |->
        [type        |-> doc.backends[id].type,
         endpoint    |-> doc.backends[id].endpoint,
         api_key_ref |-> doc.backends[id].api_key_ref]]]

InlineSecret(doc) == \E id \in DOMAIN doc.backends : doc.backends[id].api_key # Empty

LoadErrors == {"ErrUnsupportedSchemaVersion", "ErrInlineSecret", "ErrInvalidRegistry"}

LoadError(doc) ==
  IF doc.schema_version # 1 THEN "ErrUnsupportedSchemaVersion"
  ELSE IF InlineSecret(doc) THEN "ErrInlineSecret"
  ELSE IF Issues(WithoutKeys(doc)) # {} THEN "ErrInvalidRegistry"
  ELSE "nil"

-----------------------------------------------------------------------------
(***************************************************************************)
(* Resolve.  Unlike Validate it lets a binding inherit the default only    *)
(* where it holds the empty string.                                        *)
(***************************************************************************)
Inherit(value, default) == IF value = Empty THEN default ELSE value

RoutePerson(dev, alias) ==
  IF alias = Empty THEN dev.default_person
                   ELSE Inherit(dev.aliases[alias].person, dev.default_person)

RouteProfile(dev, alias) ==
  IF alias = Empty THEN dev.default_profile
                   ELSE Inherit(dev.aliases[alias].profile, dev.default_profile)

Failed(err) == [err |-> err]

(* Lines 82-117: from a person and a profile to the resolved context.      *)
Lookup(reg, person, profile) ==
  LET model   == reg.profiles[profile].model
      backend == reg.models[model].backend
  IN  IF person = Empty THEN Failed("ErrMissingDefaultPerson")
      ELSE IF profile = Empty THEN Failed("ErrMissingDefaultProfile")
      ELSE IF person \notin DOMAIN reg.persons THEN Failed("ErrPersonNotFound")
      ELSE IF profile \notin DOMAIN reg.profiles THEN Failed("ErrProfileNotFound")
      ELSE IF model \notin DOMAIN reg.models THEN Failed("ErrModelNotFound")
      ELSE IF backend \notin DOMAIN reg.backends THEN Failed("ErrBackendNotFound")
      ELSE [err |-> "nil", person |-> person, profile |-> profile,
            model |-> model, backend |-> backend]

Resolve(reg, device, alias) ==
  IF device \notin DOMAIN reg.devices THEN Failed("ErrDeviceNotFound")
  ELSE LET dev == reg.devices[device]
       IN  IF alias # Empty /\ alias \notin DOMAIN dev.aliases
           THEN Failed("ErrAliasNotFound")
           ELSE Lookup(reg, RoutePerson(dev, alias), RouteProfile(dev, alias))
=============================================================================
