SPECIFICATION FairSpec
CONSTANTS
  Tasks = {t1, t2}
  Channels = {c1, c2}
  Checker = Checker
  Closer = Closer
  NoChannel = NoChannel
  Nobody = Nobody
  BrokerMayFail = TRUE
  Cancellable = {t1}
  Publishers = {t1}
  MaxGauge = 2
  MaxDrift = 1
INVARIANTS
  TypeOK
  GaugeExact
  NoOrphan
PROPERTIES
  DegradedMeansDown
  CloseReturns
