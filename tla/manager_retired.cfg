SPECIFICATION Spec
CONSTANTS
  Tasks = {t1, t2}
  Channels = {c1, c2}
  Checker = Checker
  Closer = Closer
  NoChannel = NoChannel
  Nobody = Nobody
  BrokerMayFail = FALSE
  Cancellable = {}
  Publishers = {t1, t2}
  MaxGauge = 2
  MaxDrift = 1
PROPERTIES
  ConsumerKeepsChannel
