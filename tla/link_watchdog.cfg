\* Outages of the connection, the gateway and the broker; a heat pump that goes on talking.
CONSTANTS
  Timeout = 3
  BufferLimit = 1
  ReadOnly = FALSE
  PublishWait = 1
  TrafficGap = 2
  ChunkBound = 2
  MaxOutages = 2
  MaxStalls = 1
SPECIFICATION FairSpec
INVARIANTS TypeOK ConnectedMeansReading
PROPERTIES NoReconnectStorm ForcedAfterSilenceOrHeld LinkRecovers
