SPECIFICATION Spec
CONSTANTS
  o = o
  author = author
  reviewer = reviewer
  w1 = w1
  w2 = w2
  s1 = s1
  s2 = s2
  t1 = t1
  t2 = t2
  Performer = author
  Sheets <- TwoSheets
  Texts <- TwoTexts
  Nobody = Nobody
  Nothing = Nothing
  Members <- Team
  Appointable <- Staff
  RightSets <- OfferedRights
  Founder = o
  Granted <- GrantedToTeam
  Wanderers <- CreatorOnly
  Budgets <- OnlyVotes
  Categories <- Commons
  TemplateCategory = "general"
  TemplateRewards <- TwoRewards
  TemplateSlots <- TwoSlots
  MaxVersions = 2
  Drafts <- TwoDrafts
  Creators <- CreatorOnly
  Sizes <- TwoSizes
  Rewards <- SomeRewards
  MaxSlots = 3
  Forms <- WebForms
  Wallet = 30
  Tabs <- TwoTabs
  Raters <- Team
  Targets <- TargetSet
  Paid <- AllPaid
  Disputed <- Disputes
  Values <- Scores
  Comments <- Words
  Burst = 2
CHECK_DEADLOCK FALSE
PROPERTIES
  VotedAsShown
