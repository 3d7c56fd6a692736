SPECIFICATION FairSpec
CONSTANT Networks <- MCNetworks
INVARIANTS CostsExact ShortestPaths ClosSound FcSound
PROPERTIES Ends
