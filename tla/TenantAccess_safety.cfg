SPECIFICATION AccessSpec
CONSTANTS
  Roles = {"owner", "editor"}
  TokenTtl = 2
  BlockTtl = 3
  Lag = 1
  MaxOthers = 1
  MaxAsked = 2
INVARIANTS
  AccessTypeOK
  AuthorityIsRecent
  CutOffHolds
  OldPatStaysDead
PROPERTIES
  OwnerRemains
