SPECIFICATION FiguresSpec
CONSTANTS
  Null = Null
  Values = {0, 3, 12}
  MinGap = 4
  UsualStep = 1
  Horizon = 9
  Points = 4
  Windows <- MCWindows
  Clocks = {9, 6}
  Spark = 4
  Day = 2
  Month = 2
INVARIANTS LinesHonest DrawnIsInForce EnergyAddsUp
CHECK_DEADLOCK FALSE
