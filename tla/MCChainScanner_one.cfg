\* One scanner, every kind of failure, and its progress although deliveries may
\* fail for as long as they like.  The last of three similar contracts finds more
\* of them than similar_contracts returns.
CONSTANTS
  d1 = d1  d2 = d2  d3 = d3  u1 = u1  u2 = u2
  a = a  b = b  c = c  dep = dep  prot = prot
  None = None
  Clients = {s1}
  Events = {d1, d2, d3}
  Deployments = {d1, d2, d3}
  Nodes = {a, b, c}
  BlockOf <- CloneBlocks
  Subject <- CloneSubject
  Links <- CloneLinks
  Similar <- CloneSimilar
  RowLimit = 3
  SimilarLimit = 1
  Unanswered = {d3}
  Scores = {40, 80}
  IncidentMin = 70
  AlertMin = 60
  BatchLimit = 3
  DryRun = FALSE
  Confirmations = 1
  Lookback = 2
  MaxBlocks = 2
  MaxHead = 3
  MaxLag = 1
  MaxFailures = 1
SPECIFICATION FairSpec
INVARIANTS TypeOK NoBlockSkipped SimilarLinked
PROPERTIES CursorMonotone CatchesUp Recovers EligibleAlerted
