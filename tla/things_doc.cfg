SPECIFICATION Spec
CONSTANTS
  amp = amp
  console = console
  on = on
  off = off
  info1 = info1
  bare = bare
  note1 = note1
  note2 = note2
  Devices <- JustAmp
  Outputs <- TwoOutputs
  Platforms <- Nothing
  Statuses <- JustOn
  Infos <- OneInfo
  Bare <- Nothing
  Notes <- OneNote
  Unset = Unset
INVARIANT
  ChannelsFollowInfo
