SPECIFICATION FairSpec
CONSTANTS
  d1 = d1
  d2 = d2
  com1 = com1
  com2 = com2
  Domains <- TheDomains
  Coms <- TheComs
  ComOf <- TheComOf
  NoDomain = NoDomain
  MaxEdits = 2
INVARIANTS
  TypeOK
  OneSubscription
  OnlyFoundDomains
  FoundDomainsServed
PROPERTY
  PollCatchesUp
