SPECIFICATION Spec
CONSTANTS
  d1 = d1
  d2 = d2
  q1 = q1
  f1 = f1
  y = y
  Doc = {d1}
  Value = {y}
  QueuePage = {}
  FormPage = {f1}
  PageSize = 1
  Given = {y}
  Metadata <- MCMetadata
  Opened = {d1}
  MaxFaults = 0
PROPERTY
  CorrectionsStand
CHECK_DEADLOCK FALSE
