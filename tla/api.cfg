SPECIFICATION MCSpec
CONSTANTS
  r1 = r1
  r2 = r2
  u1 = u1
  u2 = u2
  tasks = tasks
  console = console
  speaker = speaker
  Requests <- TwoConnections
  Asks <- Asking
  TaskFolders <- JustTasks
  TaskUuids <- TwoUuids
  SceneFolders <- JustConsole
  SceneUuids <- OneUuid
  Nothing = Nothing
  Things <- OneThing
INVARIANTS
  TypeOK
  ControlTypeOK
  NamesMatch
  CommandTrue
  NoClientLeft
PROPERTIES
  ImplementsPromise
  RequestAnswered
