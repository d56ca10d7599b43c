SPECIFICATION FairSpec
CONSTANTS
  d1 = d1
  d2 = d2
  d3 = d3
  same = same
  other = other
  Doc = {d1, d2}
  Content = {same, other}
  FileOf <- MCFileOf
  Impatient = {d1}
  MaxFaults = 2
INVARIANTS
  TypeOK
  ConfirmedIsArchived
  FinalizedIsSound
  StagingIsOwned
  PermanentIsOwned
PROPERTIES
  SweepClearsUnfinished
  SweepIsRepeatable
  ImplementsArchive
  RequestsEnd
CHECK_DEADLOCK FALSE
