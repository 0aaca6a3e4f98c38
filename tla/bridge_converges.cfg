\* Two commands, a change at the panel, a loss or a restart, a timely heat pump.
CONSTANTS
  zone = zone
  fsv = fsv
  mode = mode
  IntMax = IntMax
  NoPayload = NoPayload
  Junk = Junk
  None = None
  Msgs = {zone}
  Values = {0, 1}
  DataType <- MCDataType
  Kind <- MCKind
  Options <- MCOptions
  DisableWriteSend = FALSE
  InitialReadOut = TRUE
  ReadOnly = FALSE
  RetryLimit = 5
  InboxBound = 1
  BusBound = 2
  AnswerLag = 1
  MaxCommands = 2
  MaxChanges = 1
  MaxFaults = 1
SPECIFICATION FairSpec
PROPERTIES  StateConverges SingleCommandPrevails
