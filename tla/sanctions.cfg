SPECIFICATION FairSanctionsSpec
CONSTANTS
  m1 = m1
  m2 = m2
  MaxSanctions = 3
  Moderators <- OneModerator
  StaleReads = FALSE
CHECK_DEADLOCK FALSE
INVARIANTS
  SuspensionHolds
PROPERTIES
  UnlayeredAccessRestored
