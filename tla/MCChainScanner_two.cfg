\* Two scanners of one chain, one failure.
CONSTANTS
  d1 = d1  d2 = d2  d3 = d3  u1 = u1  u2 = u2
  a = a  b = b  c = c  dep = dep  prot = prot
  None = None
  Clients = {s1, s2}
  Events = {d1, u1}
  Deployments = {d1}
  Nodes = {a, dep}
  BlockOf <- PairBlocks
  Subject <- PairSubject
  Links <- PairLinks
  Similar <- PairSimilar
  RowLimit = 3
  SimilarLimit = 2
  Unanswered = {}
  Scores = {40, 80}
  IncidentMin = 70
  AlertMin = 60
  BatchLimit = 2
  DryRun = FALSE
  Confirmations = 1
  Lookback = 1
  MaxBlocks = 2
  MaxHead = 3
  MaxLag = 1
  MaxFailures = 1
SPECIFICATION Spec
SYMMETRY ScannerSymmetry
INVARIANTS EvidenceBeforeEvent CursorConfirmed UpgradesReported NoDanglingEdge CompleteUnlessCut
PROPERTIES LedgerSpec
