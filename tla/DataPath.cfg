SPECIFICATION MCSpec
CONSTANTS
  Cap = 3
  MaxByte = 6
  B = 4
  NameMax = 2
  BodyMax = 2
  TypeMax = 1
  ListMax = 2
  H = 2
  QCap = 4
  RCap = 3
  SockMax = 2
  HeaderLen = 2
  RecordMax = 3
  Lengths = {2, 3, 4}
  MaxRecords = 4
  MaxSpans = 3
  MaxTraces = 2
  SCap = 3
  Values = {1, 2, 5}
  MaxPush = 5
  MaxClock = 3
  Threads = {t1, t2, t3}
  MaxUpdates = 5
INVARIANTS  PipeSound Holds TraceWhole MeasuresExact
PROPERTIES Arrives
CHECK_DEADLOCK FALSE
