SPECIFICATION Spec
CONSTANTS
  u1 = u1
  u2 = u2
  u3 = u3
  k1 = k1
  k2 = k2
  Commands = {u1}
  Questions = {}
  Faults = {"upstream_unavailable"}
  TaskIDs = {k1, k2}
  MaxRestarts = 0
  Nil = Nil
INVARIANT RunningIsNotGivenUp
