SPECIFICATION MCSpec
CONSTANTS
  MaxTokens = 4
  MaxWords = 5
  Mistyped = Mistyped
  Nil = Nil
  Empty <- MCEmpty
  Blanks <- MCBlanks
  Devices <- MCDevices
  Inputs <- MCInputs
  Requests <- MCRequests
  Tokens <- MCTokens
  RuleLists <- MCRuleLists
INVARIANTS
  TypeOK
  NeverSilenced
  TraceReplays
  CleanedByWords
  EdgeServesTheSame
  EdgeMendsItsOwn
CHECK_DEADLOCK FALSE
