SPECIFICATION LeaseSpec
CONSTANTS
  Holder = {h1, h2}
  NoHolder = NoHolder
  Ttl = 4
  RenewInterval = 1
  MaxSkew = 1
  MaxDelay = 1
  MaxTime = 9
  MaxToken = 4
SYMMETRY HolderSymmetry
INVARIANTS
  CachedCheckSound
  ExclusiveLease
CHECK_DEADLOCK FALSE
