SPECIFICATION FairSpec
CONSTANTS
  d1 = d1
  d2 = d2
  q1 = q1
  f1 = f1
  y = y
  Doc = {d1, d2}
  Value = {y}
  QueuePage = {q1}
  FormPage = {f1}
  PageSize = 1
  Given = {y}
  Metadata <- MCMetadata
  Opened = {d1}
  MaxFaults = 1
INVARIANTS
  TypeOK
PROPERTIES
  FlagsFallByClearing
  FlagsAreSurfaced
  DescriptionsStay
CHECK_DEADLOCK FALSE
