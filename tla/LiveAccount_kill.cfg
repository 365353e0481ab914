SPECIFICATION Spec
CONSTANTS
  c1 = c1 c2 = c2 s1 = s1 long = long short = short
  Cells = {c1, c2}
  Scanners = {s1}
  ScannerOf <- TheScanner
  RestCells = {c1}
  Sides = {long, short}
  MaxSignals = 2
  Latency = 1
  PendingExpiry = 1
  QuietFill = 1
  LimitLife = 2
  LimitLate = 1
  MaxOpen = 1
  MaxTotal = 2
  PerScanner = 2
  LossLimit = 1
  DayTicks = 3
  CooldownAfter = 1
  CooldownTicks = 2
  CloseAllOnKill = TRUE
  LastTick = 4
  MaxDelay = 1
  MaxTrouble = 0
  FaultSites = {"fill", "receipt"}
  Sources = {"tape", "candles", "at once"}
PROPERTY TickTrips
CHECK_DEADLOCK FALSE
