CONSTANTS
  Users = {u1}
  Tokens = {t1, t2, t3}
  Requests = {r1, r2}
  Passwords = {p1, p2}
  None = None
SPECIFICATION Spec
SYMMETRY Symmetry
INVARIANTS SuccessorStored RevocationComplete RotatedOnce DeadlocksAreFound
PROPERTIES OnlyResetChangesPassword DeleteDeactivates LedgerSpec
