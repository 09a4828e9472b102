SPECIFICATION QuickSpec
CONSTANTS
  q1 = q1
  q2 = q2
  kitchen = kitchen
  Requests = {q1, q2}
  Names = {kitchen}
  RequestName <- MCRequestName
  ConfiguredID <- MCConfiguredID
  BlankID = BlankID
  HasStore = TRUE
  HasRunner = TRUE
  Outcomes = {"completed", "accepted", "canceled", "temporary", "no_response", "failed"}
  Nil = Nil
INVARIANTS
  TypeOK
  AcceptedIsKept
  AcceptedRunsDetached
  NoOrphanTask
  SettledWithOwnResult
PROPERTIES
  ImplementsLifecycle
  ImplementsFairLifecycle
  InvokeReturns
  BackendGoroutineEnds
