SPECIFICATION Spec
CONSTANTS
  Empty = ""
  Blanks = {"", " "}
  IDs = {"hermes_home", "chat", "anna", "boris", "ghost", "annas", "shared", "kitchen"}
  SecretRefs = {"env:HERMES_API_KEY"}
  Documents <- MCDocuments
  DeviceIDs = {"kitchen", "ghost"}
  AliasKeys = {"", " ", "night", "ghost"}
  Nil = Nil
INVARIANT LoadedRouteResolves
CHECK_DEADLOCK FALSE
