SPECIFICATION Spec
CONSTANTS
  LastRelease = 4
  HeadOf <- Heads
  PackageOf <- Packages
  MaxWrites = 1
  MaxReceipts = 1
  OneFamily = TRUE
  FinishFirst = TRUE
  Plans <- AllPlans
CHECK_DEADLOCK FALSE
INVARIANTS
  NoWriteIsLost
  SchemaIsServed
  RecoveryIsPossible
  TelegramIsWhole
PROPERTIES
  DatabaseMovesAsProven
