SPECIFICATION Spec
CONSTANTS
  Entities <- Numbers
  None = None
  ReadOnly = FALSE
  ReportsBound = 1
  Clicks = 3
  Failures = 1
  Reorders = 1
INVARIANTS
  CommandsComeBack
  OneClickWaits
PROPERTIES
  PendingEnds
  
