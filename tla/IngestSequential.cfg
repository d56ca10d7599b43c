SPECIFICATION Spec
CONSTANTS
  r1 = r1
  r2 = r2
  f1 = f1
  f2 = f2
  f3 = f3
  a = a
  b = b
  plain = plain
  scanned = scanned
  NoFile = NoFile
  Run = {r1, r2}
  File = {f1, f2}
  Content = {a, b}
  Name = {plain, scanned}
  RunOf <- MCRunOf
  NameOf <- MCNameOf
  ContentOf <- MCContentOf
  Sequential = TRUE
  MaxFaults = 2
INVARIANTS
  TypeOK
  RunIsAtomic
  FilesAreOwned
PROPERTIES
  SweepsAreOrderly
  ImplementsArchive
CHECK_DEADLOCK FALSE
