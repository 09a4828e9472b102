SPECIFICATION FairSpec
CONSTANTS
  u1 = u1
  u2 = u2
  u3 = u3
  k1 = k1
  k2 = k2
  Commands = {u1, u2}
  Questions = {u3}
  Faults = {"exception", "upstream_unavailable"}
  TaskIDs = {k1, k2}
  MaxRestarts = 1
  Nil = Nil
INVARIANTS
  TypeOK
  PendingIsPolled
  NoSilentDrop
  NoteMatchesRequest
PROPERTIES
  EventuallyTold
  LoopsEnd
