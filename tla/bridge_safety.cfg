\* A request and a write register, two commands that may share a batch, disable_write_send on,
\* two rounds under way, one loss or restart.
CONSTANTS
  zone = zone
  fsv = fsv
  mode = mode
  IntMax = IntMax
  NoPayload = NoPayload
  Junk = Junk
  None = None
  Msgs = {zone, fsv}
  Values = {0, 1}
  DataType <- MCDataType
  Kind <- MCKind
  Options <- MCOptions
  DisableWriteSend = TRUE
  InitialReadOut = FALSE
  ReadOnly = FALSE
  RetryLimit = 1
  InboxBound = 2
  BusBound = 1
  AnswerLag = 2
  MaxCommands = 2
  MaxChanges = 1
  MaxFaults = 1
SPECIFICATION OrdersSpec
INVARIANTS
  TypeOK
  SwitchesHonoured
  PendingIsLastCommand
  
PROPERTIES NoEarlyGiveUp ObeyedInOrder
