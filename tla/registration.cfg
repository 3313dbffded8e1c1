SPECIFICATION FairSpec
CONSTANTS
  r1 = r1
  r2 = r2
  r3 = r3
  s1 = s1
  s2 = s2
  Requests <- MCRequests
  Keys <- MCKeys
  Services = {s1, s2}
  ServiceOf <- TwoServices
  MaxRetries = 2
  MaxCopies = 4
  NoUser = NoUser
INVARIANTS
  TypeOK
  UniqueUsers
  OkMeansHandled
  EventsHandledOnce
  PublishedMeansTried
PROPERTIES
  RefinesAccounts
  Answered
CHECK_DEADLOCK FALSE
