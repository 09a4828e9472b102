SPECIFICATION Spec
CONSTANTS
  t1 = t1
  t2 = t2
  q1 = q1
  q2 = q2
  a1 = a1
  a2 = a2
  e1 = e1
  e2 = e2
  TaskIDs = {t1, t2}
  Requests = {q1, q2}
  Responses = {a1, a2}
  Errors = {e1, e2}
  BlankID = BlankID
  Nil = Nil
INVARIANTS
  TypeOK
  GrantedIsStored
  StoredIsGranted
PROPERTY TaskHistory
