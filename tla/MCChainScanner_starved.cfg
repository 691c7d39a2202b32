\* An ineligible event at the front of a full outbox query.
CONSTANTS
  d1 = d1  d2 = d2  d3 = d3  u1 = u1  u2 = u2
  a = a  b = b  c = c  dep = dep  prot = prot
  None = None
  Clients = {s1}
  Events = {u1, u2}
  Deployments = {}
  Nodes = {a, b}
  BlockOf <- LogsBlocks
  Subject <- LogsSubject
  Links <- LogsLinks
  Similar <- LogsSimilar
  RowLimit = 3
  SimilarLimit = 2
  Unanswered = {}
  Scores = {40, 60}
  IncidentMin = 70
  AlertMin = 60
  BatchLimit = 1
  DryRun = FALSE
  Confirmations = 0
  Lookback = 2
  MaxBlocks = 1
  MaxHead = 1
  MaxLag = 0
  MaxFailures = 0
SPECIFICATION FairSpec
PROPERTIES EligibleAlerted
