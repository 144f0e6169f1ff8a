CONSTANTS
  p1 = p1
  p2 = p2
  p3 = p3
  Creator = creator
  Performers <- TwoPerformers
  Responders <- Nobody
  SlotChoices <- OneSlot
  RewardChoices <- OddReward
  StartCredits = 3
  Codes <- AllCodes
  AcceptRace = FALSE
  Finalizers = FALSE
  MaxEdits = 0
CHECK_DEADLOCK FALSE
SPECIFICATION FairSpec
PROPERTIES ReviewSettles
