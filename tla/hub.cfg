SPECIFICATION FairSpec
CONSTANTS
  c1 = c1
  c2 = c2
  c3 = c3
  Conns <- TwoConns
  NoConn = NoConn
  MaxCasts = 3
INVARIANTS
  TypeOK
  FeedGapless
  NoDeafClient
  NoLeakedClient
PROPERTIES
  BrokenClientRemoved
  BroadcastEnds
