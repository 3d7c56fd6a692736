SPECIFICATION Spec
CONSTANTS
  Net <- MCNet
  NHosts <- MCNHosts
  Latency = 1
  Bandwidth = 9
  QSize = 3
  BytesPerPacket = 1
  AckBytes = 0
  DropBytes = 1
  Cwnd = 2
  MinRto = 30
  Workload <- MCWorkload
  Limit = 7
INVARIANTS NoDeadlock FlowsStarted RightHost
CHECK_DEADLOCK FALSE
