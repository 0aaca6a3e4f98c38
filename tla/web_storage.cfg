SPECIFICATION FairSpec
CONSTANTS
  temp = temp
  pump = pump
  None = None
  Absent = Absent
  Entities = {temp, pump}
  Numeric = {temp}
  Values = {0, 1}
  First = 0
  Heartbeat = 3
  MinInterval = 2
  Retention = 3
  MaxPoints = 2
  MaxTime = 4
  PendingBound = 2
  Changes = 1
  Removals = 1
  Downs = 1
  StepBacks = 1
  DbErrors = 1
INVARIANTS
  NumericApart
  HistoryCurrent
  RowIsNewest
  ChartFaithful
PROPERTIES
  StoredInTheEnd
