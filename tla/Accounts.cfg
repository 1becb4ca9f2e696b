SPECIFICATION FairSpec
CONSTANTS
  Users = {alice, bob}
  Nobody = Nobody
  Pool = {1, 2}
  MaxAttempts = 1
  FailureBound = 2
INVARIANTS TypeOK AdminRemains SessionFresh TabsFollowSession
PROPERTIES ChangesAudited Answered
