SPECIFICATION Spec
CONSTANTS
  Net <- Rack3
  NHosts = 3
  Latency = 8
  Bandwidth = 1
  QSize = 3
  BytesPerPacket = 2
  AckBytes = 0
  DropBytes = 1000
  Cwnd = 2
  MinRto = 20
  Workload <- Incast
  Limit = 48
INVARIANT DropsWhenFull
CHECK_DEADLOCK FALSE
