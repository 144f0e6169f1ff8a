SPECIFICATION FairSpec
CONSTANTS
  o = o
  s = s
  a = a
  b = b
  g = g
  p = p
  Nobody = Nobody
  NoInvitation = NoInvitation
  Members <- Everybody
  Appointable <- OnlyS
  RightSets <- Offered
  Owner = o
  Staff = s
  Applicants <- Newcomers
  Answering <- OnlyA
  Movers <- OnlyA
  General <- OneGeneral
  Personal <- OnePersonal
  MaxUses <- UsedOnce
  Handlers <- WebOnly
  MaxMoves = 1
  MaxVersions = 2
  LegacyDrafts <- OnlyA
CHECK_DEADLOCK FALSE
INVARIANTS
  AdmittedOnce
  PreviewIsComplete
  InvitationLimits
PROPERTIES
  DecisionIsWarranted
