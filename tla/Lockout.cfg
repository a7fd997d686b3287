SPECIFICATION FairSpec
CONSTANTS
  Sessions = {s1, s2}
  MaxFailures = 1
  MaxTries = 1
  MaxCodes = 1
PROPERTY LockIsLifted
