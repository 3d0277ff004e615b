CONSTANTS
  Weeks = {1, 2}
  Files = {{1, 2}}
  Uploads = {u1}
  MatchesWeeks = TRUE
  Runs = {r1, r2}
  MinRows = 1
  None = None
SPECIFICATION Spec
INVARIANTS ModelShowsItsDataset
CHECK_DEADLOCK FALSE
