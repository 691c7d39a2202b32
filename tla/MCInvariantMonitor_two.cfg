\* Two checkers of one invariant, one of which may be cut short.
CONSTANTS
  Checkers = {c1, c2}
  Invariants = {i1}
  Values = {"90", "101", "205"}
  Good = {"90"}
  Null = Null
  Score <- HighScore
  Flaky = TRUE
  IncidentMin = 70
  MaxBlock = 1
  MaxLag = 1
  MaxCrashes = 1
SPECIFICATION Spec
SYMMETRY CheckerSymmetry
INVARIANTS ViolationReported AlarmsAreTrue AlarmsPromoted RecoveryAfterAlarm
