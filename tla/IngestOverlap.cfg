SPECIFICATION FairSpec
CONSTANTS
  r1 = r1
  r2 = r2
  f1 = f1
  f2 = f2
  f3 = f3
  a = a
  b = b
  plain = plain
  scanned = scanned
  NoFile = NoFile
  Run = {r1}
  File = {f1, f3}
  Content = {a, b}
  Name = {plain, scanned}
  RunOf <- MCRunOf
  NameOf <- MCNameOf
  ContentOf <- MCContentOf
  Sequential = FALSE
  MaxFaults = 1
INVARIANTS
  FinalizedIsSound
PROPERTIES
  StartupClears
  ComesToRest
CHECK_DEADLOCK FALSE
