CONSTANTS
  Users = {u1, u2}
  Requests = {r1, r2}
  None = None
SPECIFICATION FairSpec
INVARIANT CountGuardNeedsARace
PROPERTIES LastAdminFallsToALostActor OnlyAnInvitationEndsALockout EveryRequestEnds
