SPECIFICATION Spec
CONSTANTS
  Tasks = {t1, t2}
  Conns = {c1, c2, c3}
  Cleaner = Cleaner
  Closer = Closer
  NoConn = NoConn
  Nobody = Nobody
  MaxConnPoolSize = 2
  Threshold = 2
  CloseMayFail = TRUE
  Cancellable = {t1, t2}
  MaxGauge = 2
SYMMETRY Symmetry
INVARIANTS
  ClosedMeansNoConnection
