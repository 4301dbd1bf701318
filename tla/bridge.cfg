SPECIFICATION FairSpec
CONSTANTS
  s1 = s1
  s2 = s2
  login = login
  junk = junk
  c1 = c1
  c2 = c2
  Subscribers <- JustS1
  Keys <- TwoKeys
  Route <- AllToS1
  Silent <- OnlyJunk
  Stored <- OnlyLogin
  NoStamp = NoStamp
  Window = 2
  MaxMsgs = 3
  MaxTime = 2
  Conns <- JustC1
  NoConn = NoConn
INVARIANTS
  TypeOK
  ShownInOrder
  ShownIsRecorded
  ReachesBrowsers
PROPERTIES
  ReachesDbWhilePeersRead
  AnnouncedWhilePeersRead
