SPECIFICATION Spec
CONSTANTS
  hours = hours
  minutes = minutes
  Msgs = {hours, minutes}
  DataType <- MCDataType
  Kind <- MCKind
  Options <- MCOptions
  Values = {0, 1, 2}
  IntMax = IntMax
  NoPayload = NoPayload
  Junk = Junk
  None = None
  RetryLimit = 1
  DisableWriteSend = FALSE
  InitialReadOut = TRUE
  Other = Other
  InboxBound = 2
  Changes = 2
  Losses = 2
  ForeignReads = 1
  Outages = 1
INVARIANTS
  FileHeld
PROPERTIES
  OnlyReads
  FileWritten
