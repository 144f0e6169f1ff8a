CONSTANTS
  p1 = p1
  p2 = p2
  p3 = p3
  Creator = creator
  Performers <- TwoPerformers
  Responders <- TwoPerformers
  SlotChoices <- OneOrTwoSlots
  RewardChoices <- OddReward
  StartCredits = 6
  Codes <- AllCodes
  AcceptRace = FALSE
  Finalizers = TRUE
  MaxEdits = 0
CHECK_DEADLOCK FALSE
SPECIFICATION FairSpec
INVARIANTS SoleSlotSettles
PROPERTIES DeadlineSettles RequestEnds
