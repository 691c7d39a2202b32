\* One ledger with a record that no committed transfer confirms.
CONSTANTS
  seed = seed  x = x  y = y  z = z
  s = s  c = c  d = d  e = e
  Addresses = {s, c, d, e}
  Zero = zero
  Txs = {seed, x, y, z}
  Seed = seed
  SeedBlock = 2
  Ledgers <- FanOnly
  Transfers <- SomeTransfers
  SeedEnds = {s, c}
  ChainHead = 5
  Limits <- NoLimits
  MaxOutages = 0
  Kinds = {"normal", "internal", "erc20"}
  MaxPage = 100
  MinPage = 1
  MaxBlocks = 4
  MaxInventory = 3
SPECIFICATION Spec
\* The command ends when the case is complete.
CHECK_DEADLOCK FALSE
INVARIANTS OnlyCommittedExtends
