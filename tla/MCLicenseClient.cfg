SPECIFICATION LicenseFairSpec
CONSTANTS
  k1 = k1
  k2 = k2
  premium = premium
  Keys = {k1, k2}
  NoKey = NoKey
  Tiers = {"community", "enterprise"}
  Features = {premium}
  MaxChanges = 2
  MaxFaults = 1
  MaxBoots = 3
CHECK_DEADLOCK FALSE
INVARIANTS
  NothingInvented
  RestartKeeps
PROPERTY LicenceFollows
