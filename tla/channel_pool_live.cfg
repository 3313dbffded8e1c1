SPECIFICATION FairSpec
CONSTANTS
  Tasks = {t1, t2}
  Channels = {c1, c2}
  Cleaner = Cleaner
  Closer = Closer
  NoChannel = NoChannel
  Nobody = Nobody
  MaxChannelPoolSize = 1
  BrokerMayFail = TRUE
  Cancellable = {t1}
  MaxGauge = 2
PROPERTIES
  RequestAnswered
  LeftoversRemoved
  CloseReturns
