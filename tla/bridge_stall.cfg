SPECIFICATION FairSpec
CONSTANTS
  s1 = s1
  s2 = s2
  login = login
  junk = junk
  c1 = c1
  c2 = c2
  Subscribers <- JustS1
  Keys <- OnlyLogin
  Route <- LoginToS1
  Silent <- Nothing
  Stored <- OnlyLogin
  NoStamp = NoStamp
  Window = 2
  MaxMsgs = 2
  MaxTime = 1
  Conns <- JustC1
  NoConn = NoConn
PROPERTY
  EveryMessageReachesDb
