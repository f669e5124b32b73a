\* Reports that wrap, push each other out and are taken up again by two clients.
CONSTANTS
  m1 = m1
  m2 = m2
  Members <- TwoMembers
  ValueSize <- ShortAndLong
  HeaderSize = 1
  Block = 5
  Clients = {c1, c2}
  Nobody = Nobody
  MaxReports = 4
  MaxGI = 1
SPECIFICATION FairSpec
INVARIANTS BufferLinked BufferApart FlagsTriggered
PROPERTIES ImplementsQueue ChangesKept SentToEnabler ReportsSent ChangesReported
CHECK_DEADLOCK FALSE
