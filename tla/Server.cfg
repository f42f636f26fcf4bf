SPECIFICATION MCSpec
CONSTANTS
  Workers = {w1, w2}
  Submitters = {s1, s2, s3}
  Stoppers = {t1, t2}
  Nobody = Nobody
  queue_cap = 2
  Ips = {i1, i2}
  MaxPerIp = 2
  MaxGlobal = 3
  Timeout = 1
  MaxAdmits = 5
  MaxNow = 4
  Base = 1
  MaxLock = 4
  Threshold = 2
  Flight = 2
  MaxFails = 12
  MaxTime = 12
  Second = 3
  MaxIdle = 20
  WordSize = 64
  Rate = 2
  Burst = 3
  MaxAge = 5
  Costs = {1, 2}
  MaxT = 9
  Fds = {1, 2}
  Lfd = 0
  MaxPosts = 2
  MaxStops = 2
  MaxRuns = 2
  MaxClients = 2
  MaxSignals = 1
  MaxArrivals = 2
  MaxRounds = 2
  Names = {n1, n2}
  Runners = {r1, r2}
  MaxChecks = 2
  MaxRegs = 3
  Watchers = {h1, h2}
  Weights = {2, 5}
  AnomalyWeight = 4
  BlockScore = 8
  Warmup = 1
  K = 6
  MaxHalfLives = 3
  MaxReports = 3
  MaxSamples = 2
  Controllers = {c1}
  MaxTimerCalls = 6
INVARIANTS StopDrains LoopSound  LimitsHold ScoreHonest
PROPERTIES PoolRuns ThreadsEnd
CHECK_DEADLOCK FALSE
