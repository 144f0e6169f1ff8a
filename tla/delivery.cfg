SPECIFICATION Spec
CONSTANTS
  w1 = w1
  w2 = w2
  transfer = transfer
  reminder = reminder
  post = post
  Workers <- TwoWorkers
  Events <- None
  Reminders <- OneReminder
  Post = post
  Tags <- TwoTags
  Invalid <- OneReminder
  Poison <- None
  Wavering <- OnlyPost
  MaxAttempts = 2
  BatchSize = 2
  MaxRevisions = 2
  MaxCrashes = 0
  MaxOverruns = 1
INVARIANTS
  AnnouncedAtMostOnce
PROPERTIES
  ClosedStaysClosed
