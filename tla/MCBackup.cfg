SPECIFICATION FairSpec
CONSTANTS
  c1 = c1
  c2 = c2
  a = a
  b = b
  Calls = {c1, c2}
  Seconds = {0}
  Blocks = {a, b}
  Texts <- MCTexts
  MaxEdits = 2
INVARIANTS
  TypeOK
  ReturnedIsWhole
  PartialIsExplained
PROPERTIES
  BackupsAreKept
  BackupEnds
