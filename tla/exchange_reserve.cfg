CONSTANTS
  p1 = p1
  p2 = p2
  p3 = p3
  Creator = creator
  Performers <- ThreePerformers
  Responders <- Nobody
  SlotChoices <- OneOrTwoSlots
  RewardChoices <- OddReward
  StartCredits = 6
  Codes <- CoveredCodes
  AcceptRace = FALSE
  Finalizers = TRUE
  MaxEdits = 1
CHECK_DEADLOCK FALSE
SPECIFICATION Spec
SYMMETRY PerformerSymmetry
INVARIANTS ReserveCoversObligations
PROPERTIES IntakeNeverReopens ImplementsEscrow
