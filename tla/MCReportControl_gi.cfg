\* A second general interrogation.
CONSTANTS
  m1 = m1
  m2 = m2
  Members <- TwoMembers
  ValueSize <- ShortAndLong
  HeaderSize = 1
  Block = 5
  Clients = {c1, c2}
  Nobody = Nobody
  MaxReports = 4
  MaxGI = 2
SPECIFICATION Spec
INVARIANT AssertionsHold
CHECK_DEADLOCK FALSE
