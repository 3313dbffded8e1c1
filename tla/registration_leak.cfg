SPECIFICATION Spec
CONSTANTS
  r1 = r1
  r2 = r2
  r3 = r3
  s1 = s1
  s2 = s2
  Requests <- MCRequests
  Keys <- MCKeys
  Services = {s1}
  ServiceOf <- OneService
  MaxRetries = 1
  MaxCopies = 4
  NoUser = NoUser
INVARIANTS
  PublishedMeansRegistered
CHECK_DEADLOCK FALSE
