CONSTANTS
  Users = {u1}
  Tokens = {t1, t2, t3}
  Requests = {r1, r2}
  Passwords = {p1}
  None = None
SPECIFICATION Spec
INVARIANT TokenUsedOnce
