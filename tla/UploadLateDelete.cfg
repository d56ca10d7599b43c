SPECIFICATION Spec
CONSTANTS
  d1 = d1
  d2 = d2
  d3 = d3
  same = same
  other = other
  Doc = {d1}
  Content = {same, other}
  FileOf <- MCFileOf
  Impatient = {d1}
  MaxFaults = 0
PROPERTY FinalizedIsNeverDeleted
CHECK_DEADLOCK FALSE
