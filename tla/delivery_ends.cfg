SPECIFICATION FairSpec
CONSTANTS
  w1 = w1
  w2 = w2
  transfer = transfer
  reminder = reminder
  post = post
  Workers <- OneWorker
  Events <- OneEvent
  Reminders <- None
  Post = post
  Tags <- OneTag
  Invalid <- OneEvent
  Poison <- None
  Wavering <- OnlyPost
  MaxAttempts = 2
  BatchSize = 2
  MaxRevisions = 1
  MaxCrashes = 1
  MaxOverruns = 0
PROPERTIES
  EverythingSettles
