SPECIFICATION MCSpec
CONSTANTS
  Pins = {"none", "idQ"}
  SeqMax = 3
  MaxEpoch = 3
  MaxSend = 3
  MaxFlight = 2
  Peers = {"a"}
  TicketKeys = {"k1", "k2"}
  RekeyBytes = 2
  RekeySeconds = 2
  TicketLifetime = 2
  IdleTimeout = 2
  MaxSessions = 2
  MaxTime = 2
  MaxBytes = 2
  MaxTickets = 1
  kWindow = 8
  WordBits = 2
  MaxSeq = 17
  MaxCalls = 5
  Window = 2
  Timeout = 1
  MaxSkew = 1
  Attempts = 1
  MaxInc = 2
  MaxBeacons = 3
  MaxLinks = 2
  MaxTick = 3
INVARIANTS  NonceOnce RecordsOpen  GuardExact BeaconsFresh AckHonest
PROPERTIES  ImplementsAntiReplay
CHECK_DEADLOCK FALSE
