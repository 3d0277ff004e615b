CONSTANTS
  Files <- MCFiles
  MinRows = 20
  MinTrain = 12
  Steps = 12
  Trailing = 4
  SystemDate <- MCSystemDate
  Leads = {1, 8}
  MaxUploads = 2
  MaxModels = 2
SPECIFICATION Spec
INVARIANTS CacheInOrder OverlayNeedsUtc ForecastsFollowTheirData CalendarsAgree YearViewsAreOfTheDataset
CHECK_DEADLOCK FALSE
