SPECIFICATION FairSpec
CONSTANTS
  SizeByte = 5
  BytesPerPacket = 2
  Cwnd = 2
INVARIANTS TypeOK WindowExact OneTimerEach ReportedOnce
PROPERTIES FlowCompletes
