SPECIFICATION Spec
CONSTANTS
  Tasks = {t1, t2}
  Channels = {c1, c2, c3}
  Cleaner = Cleaner
  Closer = Closer
  NoChannel = NoChannel
  Nobody = Nobody
  MaxChannelPoolSize = 2
  BrokerMayFail = FALSE
  Cancellable = {}
  MaxGauge = 3
PROPERTIES
  SweepsOnlyUnusable
