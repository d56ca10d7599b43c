SPECIFICATION Spec
CONSTANTS
  n1 = n1
  n2 = n2
  d1 = d1
  d2 = d2
  r1 = r1
  r2 = r2
  c1 = c1
  c2 = c2
  Name = {n1, n2}
  Doc = {d1, d2}
  Report = {r1, r2}
  Curator = {c1, c2}
  DocOf <- MCDocOf
  EntitiesOf <- MCEntitiesOf
  RelatesOf <- MCRelatesOf
  WrittenPlain <- MCWrittenPlain
  NoId = NoId
PROPERTIES
  AcceptedIsPermanent
CHECK_DEADLOCK FALSE
