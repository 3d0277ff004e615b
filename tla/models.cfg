CONSTANTS
  Weeks = {1, 2}
  Files = {{2}, {1, 2}}
  Uploads = {u1, u2}
  MatchesWeeks = TRUE
  Runs = {r1, r2}
  MinRows = 2
  None = None
SPECIFICATION Spec
SYMMETRY Symmetry
INVARIANTS OneBatch SnapshotIsTheBatch OneActive ServesAModel RowHasItsFile OrphanIsExplained TrainedOnItsDataset ReportsItsOwn
CHECK_DEADLOCK FALSE
