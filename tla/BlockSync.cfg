CONSTANTS
  p1 = p1
  p2 = p2
  Peer <- MCPeer
  Remote <- LongChain
  SpanSize = 2
  IdCount = 4
  NearBlocks = 1
  MaxFilled = 1
  MaxCallbacks = 1
  MaxTrouble = 1
SPECIFICATION Spec
INVARIANTS TypeOK NoPhantoms HaveIsRequested NoWedge
PROPERTY DownloadCompletes
