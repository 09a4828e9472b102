------------------------------- MODULE MCRouting -------------------------------
(***************************************************************************)
(* A kitchen device with at most one alias, two persons, two profiles:     *)
(* every way to bind the default and the alias, right or wrong, and every  *)
(* way to break a reference, the version, a backend or its key.            *)
(***************************************************************************)
EXTENDS Routing

MCBackends ==
  [{"hermes_home"} -> [type : {"hermes", "openai"}, endpoint : {"url"},
                       api_key_ref : {""}, api_key : {"", "secret"}]]

MCModels == [{"chat"} -> [backend : {"hermes_home", "ghost"}, name : {"gpt"}]]

MCPersons == UNION {[P -> [display_name : {"name"}]] : P \in {{"anna"}, {"anna", "boris"}}}

MCProfiles ==
  {[k \in {"annas", "shared"} |-> IF k = "annas" THEN [person |-> "anna", model |-> "chat"]
                                                 ELSE [person |-> p, model |-> m]] :
     p \in {"anna", "boris", " "}, m \in {"chat", "ghost"}}

MCBindings == [person  : {"", " ", "anna", "boris", "ghost"},
               profile : {"", " ", "annas", "shared", "ghost"}]

MCAliases == UNION {[A -> MCBindings] : A \in {{}, {"night"}, {" "}}}

MCDevices ==
  [{"kitchen"} -> [label : {"Kitchen"}, default_person : {"", "anna", "boris"},
                   default_profile : {" ", "annas", "shared", "ghost"},
                   aliases : MCAliases]]

(* A version of 2 and an inline key fail whatever the tables hold: they    *)
(* are tried with the first tables only.                                   *)
MCDocuments ==
  LET Documented(versions, backends, profiles, devices) ==
        [schema_version : versions, backends : backends, models : MCModels,
         persons : MCPersons, profiles : profiles, devices : devices]
      plain == {b \in MCBackends : b["hermes_home"].api_key = ""}
      simple == {d \in MCDevices : d["kitchen"].aliases = [a \in {} |-> ""]}
  IN  Documented({1}, plain, MCProfiles, MCDevices)
        \cup Documented({1, 2}, MCBackends, MCProfiles, simple)
=============================================================================
