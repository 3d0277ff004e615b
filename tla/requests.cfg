CONSTANTS
  r1 = r1
  r2 = r2
  r3 = r3
  Requests = {r1, r2, r3}
  PoolSize = 1
  MaxOverflow = 1
  PageLimit = 1
  Seed = Seed
  Offers <- MCOffers
SPECIFICATION FairSpec
INVARIANTS PoolInv PagesMissOnlyLateRows ChangesAreAudited TrailTellsTheSetting AnswersAreCurrent
PROPERTY EveryRequestEnds
CHECK_DEADLOCK FALSE
