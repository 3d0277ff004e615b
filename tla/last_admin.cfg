CONSTANTS
  Users = {u1, u2}
  Requests = {r1, r2}
  None = None
SPECIFICATION Spec
INVARIANT AdminRemains
