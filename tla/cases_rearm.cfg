CONSTANTS
  x = x
  y = y
  z = z
  a1 = a1
  a2 = a2
  m1 = m1
  Assignments <- ThreeAssignments
  Disputable = {}
  Admins <- TwoAdmins
  Moderators = {}
  Related = {}
  Previewers = {}
  Reviewers <- OneAdmin
  Penalised <- NoneOrCreator
  Codes = {}
  Credits = 3
  Threshold = 1
SPECIFICATION Spec
CHECK_DEADLOCK FALSE
PROPERTIES EveryCrossingIsAlerted
