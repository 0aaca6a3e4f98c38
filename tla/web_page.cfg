SPECIFICATION FairSpec
CONSTANTS
  None = None
  Blank = Blank
  Names = {"overview", "history", "energy", "settings"}
  Entities = {"temp", "valve"}
  Numeric = {"temp"}
  Ranges = {1, 30}
  UsualRange = 1
  LongRange = 30
  Spans = {3}
  MinSpan = 2
  Past = 3
  Panels = 2
  Sensors = {s1}
  s1 = s1
  Unit <- OneUnit
  Modes = {"days", "months"}
  InFlight = 3
  Acts = 3
  Failures = 1
  Overtakes = 1
  SlowTicks = 1
INVARIANTS NothingLeftBehind DrawerTruthful SettledIsRight
PROPERTY ViewHeals
CHECK_DEADLOCK FALSE
