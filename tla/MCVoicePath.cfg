SPECIFICATION MCSpec
CONSTANTS
  q1 = q1
  q2 = q2
  kitchen = kitchen
  Requests = {q1, q2}
  Names = {kitchen}
  RequestName <- MCRequestName
  ConfiguredID <- MCConfiguredID
  BlankID = BlankID
  HasStore = TRUE
  HasRunner = FALSE
  Outcomes = {"completed", "canceled", "temporary", "invocation_failed"}
  Backends = {"static", "hermes-cli"}
  Timeouts = {TRUE, FALSE}
  Nil = Nil
INVARIANTS
  PathTypeOK
  HeardIsTrue
  NoSecretTask
  ResultIsWhole
PROPERTIES
  ImplementsService
  WorkEnds
  AcceptedSettles
