SPECIFICATION Spec
CONSTANTS
  s1 = s1
  s2 = s2
  Members <- People
  Sessions <- TwoSessions
  Mixes <- Everyday
  Phases <- PhasesAsked
  Opening <- History
  Threshold = 5
  Levels <- Scales
  Leavers <- Earners
  Newcomers <- Applicants
INVARIANTS
  HistoryAddsUp
  NoCollision
  TransferStaysEntitled
  LevelsAreCurrent
  NoWaitCycle
PROPERTY
  StoredIsNeverRefused
