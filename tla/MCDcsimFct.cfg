SPECIFICATION Spec
CONSTANTS
  Net <- Rack2
  NHosts = 2
  Latency = 1000
  Bandwidth = 10
  QSize = 16384
  BytesPerPacket = 1500
  AckBytes = 10
  DropBytes = 1500000
  Cwnd = 30
  MinRto = 2000000
  Workload <- Single
  Limit = 16020
INVARIANT FctExact
