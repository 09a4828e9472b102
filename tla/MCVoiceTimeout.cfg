SPECIFICATION PathSpec
CONSTANTS
  q1 = q1
  q2 = q2
  kitchen = kitchen
  Requests = {q1}
  Names = {kitchen}
  RequestName <- MCRequestName
  ConfiguredID <- MCConfiguredID
  BlankID = BlankID
  HasStore = TRUE
  HasRunner = FALSE
  Outcomes = {"completed", "canceled", "temporary", "invocation_failed"}
  Backends = {"hermes-cli"}
  Timeouts = {TRUE}
  Nil = Nil
INVARIANT TimeoutIsTemporary
