SPECIFICATION Spec
CONSTANTS
  Clients = {c1, c2}
  Names = {n1}
  Sizes = {1, 2}
  MaxChanges = 3
  MaxSec = 1
  c1 = c1
  c2 = c2
  n1 = n1
  NoEntry = NoEntry
  NoStat = NoStat
SYMMETRY Symmetric
INVARIANTS TypeOK CacheCoherent ListingIsFresh
