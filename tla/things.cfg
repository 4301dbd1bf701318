SPECIFICATION FairSpec
CONSTANTS
  amp = amp
  console = console
  on = on
  off = off
  info1 = info1
  bare = bare
  note1 = note1
  note2 = note2
  Devices <- AmpAndConsole
  Outputs <- AmpOutputs
  Platforms <- JustConsole
  Statuses <- OnOff
  Infos <- InfoAndBare
  Bare <- JustBare
  Notes <- TwoNotes
  Unset = Unset
INVARIANTS
  TypeOK
  OnlineTogether
  InfoTogether
PROPERTIES
  EditsKept
  HandlingEnds
