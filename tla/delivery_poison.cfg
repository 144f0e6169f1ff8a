SPECIFICATION FairSpec
CONSTANTS
  w1 = w1
  w2 = w2
  transfer = transfer
  reminder = reminder
  post = post
  Workers <- OneWorker
  Events <- OneEvent
  Reminders <- None
  Post = post
  Tags <- OneTag
  Invalid <- None
  Poison <- OneEvent
  Wavering <- None
  MaxAttempts = 2
  BatchSize = 2
  MaxRevisions = 0
  MaxCrashes = 0
  MaxOverruns = 0
PROPERTIES
  OutboxSettles
