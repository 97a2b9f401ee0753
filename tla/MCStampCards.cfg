SPECIFICATION Spec
CONSTANTS
  Challenges <- MCChallenges
  Kind <- MCKind
  Repeatable <- MCRepeatable
  Target <- MCTarget
  RewardPoints <- MCRewardPoints
  BadgeOf <- MCBadgeOf
  Badges = {"gold"}
  NoBadge = "none"
  BadgePoints <- MCBadgePoints
  Visits <- MCVisits
  Till <- MCTill
  IsVisit <- MCIsVisit
  Amount <- MCAmount
  MaxAmount = 5
  Calls = {a, b}
  MinPoints = 0
  MaxPoints = 2
SYMMETRY Symmetry
INVARIANT EveryStampCounts
INVARIANT RewardPerFilledCard
INVARIANT BonusesArePaidOnce
CHECK_DEADLOCK FALSE
