SPECIFICATION Spec
CONSTANTS
  s1 = s1
  s2 = s2
  login = login
  junk = junk
  Subscribers <- JustS1
  Keys <- OnlyLogin
  Route <- OneSubscriber
  Silent <- Nothing
  Stored <- OnlyLogin
  NoStamp = NoStamp
  Window = 2
  MaxMsgs = 3
  MaxTime = 3
PROPERTY
  ReceivedRecentlyNotBroadcast
