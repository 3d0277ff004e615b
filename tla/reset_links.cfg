CONSTANTS
  Users = {u1}
  Links = {t1, t2}
  Requests = {r1, r2}
  None = None
  Delivers = FALSE
SPECIFICATION Spec
PROPERTY OverrideHandsOutLink
