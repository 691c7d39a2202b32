\* One run of the command over two endpoints, of which either may drop an answer.
SPECIFICATION Spec
CONSTANTS
  EndpointCount = 2
  Retries = 2
  MaxFaults = 2
  MaxRuns = 1
  MaxFrames = 4
  MaxLogs = 2
  MaxTransfers = 2
  MaxEntities = 2
  MaxAccounts = 2
  MaxSlots = 2
  MaxReorgs = 2
  a = a  b = b  u = u  v = v  w = w
  Branches = {a, b}
  Addresses = {u, v, w}
  Pending = Pending  Unknown = Unknown
  Absent = Absent  Torn = Torn
  Methods <- MCMethods
  Lacks <- MCLacks
  Executions = {"replay", "metadata"}
  Number <- MCNumber
  Status <- MCStatus
  Frames <- MCFrames
  Logs <- MCLogs
  Slots <- MCSlots
  Options <- MCOptions
  BundleFiles <- MCBundleFiles
INVARIANTS
  TransportFailsOver
CHECK_DEADLOCK FALSE
