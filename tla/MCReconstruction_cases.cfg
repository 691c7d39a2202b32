\* Every history source, every limit met in turn, failures.
CONSTANTS
  seed = seed  x = x  y = y  z = z
  s = s  c = c  d = d  e = e
  Addresses = {s, c, d, e}
  Zero = zero
  Txs = {seed, x, y, z}
  Seed = seed
  SeedBlock = 2
  Ledgers <- SomeLedgers
  Transfers <- SomeTransfers
  SeedEnds = {s, c}
  ChainHead = 5
  Limits <- SomeLimits
  MaxOutages = 2
  Kinds = {"normal", "internal", "erc20"}
  MaxPage = 100
  MinPage = 1
  MaxBlocks = 4
  MaxInventory = 3
SPECIFICATION Spec
\* The command ends when the case is complete.
CHECK_DEADLOCK FALSE
INVARIANTS TypeOK EvidenceChain NothingDroppedSilently CompleteWhenClean
