SPECIFICATION FairSpec
CONSTANTS
  s1 = s1
  s2 = s2
  login = login
  junk = junk
  Subscribers <- TwoSubscribers
  Keys <- TwoKeys
  Route <- ExclusivePair
  Silent <- OnlyJunk
  Stored <- OnlyLogin
  NoStamp = NoStamp
  Window = 2
  MaxMsgs = 3
  MaxTime = 3
INVARIANTS
  TypeOK
  BroadcastsSpaced
  SuppressionSound
PROPERTIES
  ImplementsPromise
  ReachesDbWhileBroadcastsEnd
  AnnouncedWhileBroadcastsEnd
