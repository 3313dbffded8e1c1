SPECIFICATION Spec
CONSTANTS
  Tasks = {t1, t2, t3}
  Channels = {c1, c2, c3, c4}
  Cleaner = Cleaner
  Closer = Closer
  NoChannel = NoChannel
  Nobody = Nobody
  MaxChannelPoolSize = 2
  BrokerMayFail = TRUE
  Cancellable = {t1, t2, t3}
  MaxGauge = 3
SYMMETRY Symmetry
INVARIANTS
  ExclusiveUse
  PoolBounded
  PermitAccounting
  RefusedOnlyByLeftover
  GaugeExact
  NoOrphan
PROPERTIES
  RefinesChannelLending
