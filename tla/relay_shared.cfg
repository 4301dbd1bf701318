SPECIFICATION Spec
CONSTANTS
  s1 = s1
  s2 = s2
  login = login
  junk = junk
  Subscribers <- TwoSubscribers
  Keys <- OnlyLogin
  Route <- SharedLogin
  Silent <- Nothing
  Stored <- OnlyLogin
  NoStamp = NoStamp
  Window = 2
  MaxMsgs = 2
  MaxTime = 3
INVARIANT
  BroadcastsSpaced
