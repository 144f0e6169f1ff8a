SPECIFICATION FairSpec
CONSTANTS
  o = o
  s = s
  a = a
  b = b
  g = g
  p = p
  Nobody = Nobody
  NoInvitation = NoInvitation
  Members <- Everybody
  Appointable <- OnlyS
  RightSets <- Offered
  Owner = o
  Staff = s
  Applicants <- OnlyA
  Answering <- Nobodies
  Movers <- OnlyA
  General <- OneGeneral
  Personal <- OnePersonal
  MaxUses <- UsedOnce
  Handlers <- AllHandlers
  MaxMoves = 3
  MaxVersions = 2
  LegacyDrafts <- OnlyA
CHECK_DEADLOCK FALSE
PROPERTIES
  PresenceSettles
