\* Two refreshers, two profiles, a limit of one profile per run.
SPECIFICATION FairSpec
CONSTANTS
  r1 = r1  r2 = r2
  pa = pa  pb = pb
  Clients = {r1, r2}
  Profiles = {pa, pb}
  Deployed = {pa}
  Watched = {pa}
  Start <- MCStart
  Values <- MCValues
  Events <- MCEvents
  Scores = {25, 35, 80, 90, 100}
  Limit = 1
  IncidentMin = 70
  AlertMin = 70
  BatchLimit = 1
  DryRun = FALSE
  MaxChanges = 1
  MaxFaults = 1
  MaxCrashes = 1
INVARIANT
  DriftOnRecord
PROPERTY
  NoProfileStarved
CHECK_DEADLOCK FALSE
