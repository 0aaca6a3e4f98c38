SPECIFICATION Spec
CONSTANTS
  temp = temp
  None = None
  Absent = Absent
  Entities = {temp}
  Values = {0, 1}
  QueueBound = 2
  WireBound = 1
  Reports = 2
  Discoveries = 2
  Removals = 1
  Flaps = 1
  Losses = 1
\* A quiet heat pump and a page that shows everything: nothing is left to do.
CHECK_DEADLOCK FALSE
INVARIANTS
  LastWordIsCurrent
PROPERTIES
  PageConverges
