\* The observer beside one flushing scanner.
CONSTANTS
  t1 = t1
  prot = prot  con = con  acc = acc
  None = None
  Watcher = w
  Clients = {w, f}
  Events = {t1}
  Routine = {r}
  Foreign = {x}
  Protocol <- OneProtocol
  Contract <- OneContract
  Sender <- OneSender
  HashesOnly = TRUE
  Scores = {50, 80}
  IncidentMin = 70
  AlertMin = 60
  BatchLimit = 2
  DryRun = FALSE
  Sockets = 2
  MaxBackoff = 3
  MaxMessages = 2
  MaxFailures = 2
SPECIFICATION FairSpec
INVARIANTS TypeOK OutageVisible CasesCompleteUnlessCut
PROPERTIES LedgerSpec Reconnects EligibleAlerted
