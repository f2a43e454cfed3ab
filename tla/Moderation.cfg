SPECIFICATION SideSpec
CONSTANTS
  v1 = v1
  v2 = v2
  v3 = v3
  Vacancy <- MCVacancy
  Seeker = {s1}
  Fits <- MCFits
  Referrals <- MCReferrals
  FreeLimit = 1
  BonusThreshold = 3
  BonusLimit = 2
  Nothing = Nothing
  MaxDecisions = 3
  MaxDays = 1
  MaxTold = 1
  MaxHandlers = 2
  MaxRestarts = 1
INVARIANTS
  TypeOK
  ApprovedIsPublished
  VerdictTold
  ResponseHeard
  CountExact
PROPERTIES
  ReactionKept
  WithinLimit
