CONSTANTS
  x = x
  y = y
  z = z
  a1 = a1
  a2 = a2
  m1 = m1
  Assignments <- TwoAssignments
  Disputable <- OneAssignment
  Admins <- TwoAdmins
  Moderators <- OneModerator
  Related = {}
  Previewers <- TwoAdmins
  Reviewers <- OneAdmin
  Penalised <- NoneOrCreator
  Codes <- TwoCodes
  Credits = 3
  Threshold = 1
SPECIFICATION Spec
CHECK_DEADLOCK FALSE
INVARIANTS OneOutcomeStands CrossingIsAlerted
PROPERTIES DecidedAsSeen
