CONSTANTS
  p1 = p1
  p2 = p2
  p3 = p3
  Creator = creator
  Performers <- ThreePerformers
  Responders <- Nobody
  SlotChoices <- TwoSlots
  RewardChoices <- OddReward
  StartCredits = 6
  Codes <- AllCodes
  AcceptRace = FALSE
  Finalizers = FALSE
  MaxEdits = 0
CHECK_DEADLOCK FALSE
SPECIFICATION Spec
INVARIANTS NeverOverdrawn
