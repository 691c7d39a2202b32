\* A call that keeps failing.
CONSTANTS
  Checkers = {c1}
  Invariants = {i1}
  Values = {"90", "101", "205"}
  Good = {"90"}
  Null = Null
  Score <- HighScore
  Flaky = TRUE
  IncidentMin = 70
  MaxBlock = 2
  MaxLag = 0
  MaxCrashes = 0
SPECIFICATION Spec
PROPERTIES UnchangedIsSilent
