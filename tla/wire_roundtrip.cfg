\* The first tries of a command: the retry count fits its two bits.
CONSTANTS
  RetryCounts = {0, 1, 2, 3}
  PacketNumbers = {255}
  RegisterValues <- MCRegisterValues
SPECIFICATION WireSpec
INVARIANT HeaderSurvives
PROPERTY EchoConfirms
