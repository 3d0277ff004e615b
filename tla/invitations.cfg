CONSTANTS
  Emails = {e1}
  Invites = {i1, i2}
  Requests = {r1, r2}
  None = None
SPECIFICATION FairSpec
INVARIANTS PendingIsUnique NoneLeftAfterRegistration
PROPERTIES OneTimeSpec RevokedNeverUsed EveryRequestEnds
