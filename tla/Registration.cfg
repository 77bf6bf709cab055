CONSTANTS
  Challenges = {c1, c2, c3}
  Tokens = {t1, t2}
  Submissions = {s1, s2}
  Absent = Absent
  Wrong = Wrong
  ChallengeTtl = 1
  TokenExpiry = 1
  Leeway = 1
  MaxTime = 2
  MaxLoads = 1
  MaxFaults = 1
SPECIFICATION FairSpec
INVARIANTS TypeOK UsedOnceWhileValid
PROPERTIES OneAttempt NewcomerRegisters
CHECK_DEADLOCK FALSE
