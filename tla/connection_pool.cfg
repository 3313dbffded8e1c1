SPECIFICATION FairSpec
CONSTANTS
  Tasks = {t1, t2}
  Conns = {c1, c2, c3}
  Cleaner = Cleaner
  Closer = Closer
  NoConn = NoConn
  Nobody = Nobody
  MaxConnPoolSize = 2
  Threshold = 2
  CloseMayFail = TRUE
  Cancellable = {t1, t2}
  MaxGauge = 2
INVARIANTS
  TypeOK
  PermitAccounting
  BreakerAgreement
  GaugeExact
  NoOrphan
PROPERTIES
  RefinesSharedConnection
  ImplementsConnectionState
  RequestAnswered
  CloseReturns
