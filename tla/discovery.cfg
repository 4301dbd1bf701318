SPECIFICATION FairSpec
CONSTANTS
  amp = amp
  ampNew = ampNew
  amp10 = amp10
  nameAmp = nameAmp
  nameAmp10 = nameAmp10
  reply = reply
  r1 = r1
  r2 = r2
  Adverts <- TheAdverts
  Names <- TheNames
  NameOf <- TheNameOf
  Words <- ExactWords
  Ignored <- Nothing
  Replies <- JustReply
  Readers <- TwoReaders
  Nobody = Nobody
  Backlog = 2
INVARIANTS
  TypeOK
  OneEntryPerDevice
PROPERTIES
  ImplementsTable
  AdvertListed
  TableForgets
