CONSTANTS
  p1 = p1
  p2 = p2
  p3 = p3
  Creator = creator
  Performers <- TwoPerformers
  Responders <- TwoPerformers
  SlotChoices <- OneOrTwoSlots
  RewardChoices <- OneOrThree
  StartCredits = 6
  Codes <- AllCodes
  AcceptRace = TRUE
  Finalizers = TRUE
  MaxEdits = 1
CHECK_DEADLOCK FALSE
SPECIFICATION Spec
SYMMETRY PerformerSymmetry
INVARIANTS SettledAsDecided AskedOnlyWhileAccepted CatalogReserve
PROPERTIES OutcomeIsFinal
