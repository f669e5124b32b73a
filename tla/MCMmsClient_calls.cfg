\* Two threads make a call each, or one makes two, while a report comes in.
CONSTANTS
  c1 = c1
  c2 = c2
  Callers = {c1, c2}
  Slots = 2
  MaxCalls = 2
  MaxReports = 1
SPECIFICATION Spec
INVARIANTS OwnAnswer
PROPERTIES AnswersArrive CloseReturns
CHECK_DEADLOCK FALSE
