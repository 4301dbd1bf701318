SPECIFICATION Spec
CONSTANTS
  amp = amp
  ampNew = ampNew
  amp10 = amp10
  nameAmp = nameAmp
  nameAmp10 = nameAmp10
  reply = reply
  r1 = r1
  r2 = r2
  Adverts <- TheAdverts
  Names <- TheNames
  NameOf <- TheNameOf
  Words <- NestedWords
  Ignored <- Nothing
  Replies <- JustReply
  Readers <- OneReader
  Nobody = Nobody
  Backlog = 2
PROPERTY
  ReplacesSameName
