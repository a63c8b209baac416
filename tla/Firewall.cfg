SPECIFICATION Spec
CONSTANTS
  MaxTests = 2
  MaxHistory = 2
  MaxFaults = 1
INVARIANTS  OneTestAtATime
PROPERTIES HistoryExact
