SPECIFICATION SanctionsSpec
CONSTANTS
  m1 = m1
  m2 = m2
  MaxSanctions = 2
  Moderators <- OneModerator
  StaleReads = TRUE
CHECK_DEADLOCK FALSE
INVARIANTS
  BanHolds
