\* Three operators work on one incident.
CONSTANTS
  Incidents = {i1}
  Operators = {o1, o2, o3}
  Notes = {n1}
  Null = Null
  MaxMoves = 4
SPECIFICATION Spec
SYMMETRY WorkflowSymmetry
INVARIANTS HistoryLegal ResolvedWasAcknowledged HistoryChains OwnerIsFirstMover
PROPERTIES TerminalFinal
CHECK_DEADLOCK FALSE
