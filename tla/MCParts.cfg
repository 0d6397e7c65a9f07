SPECIFICATION Spec
INVARIANTS
  StreamsFollow
  ChoicesHold
  ListsFollow
  EditsKept
  ProfilesFollow
  SettingsStick
  BackendAgrees
  ShellTells
  ExitGuarded
  ScriptsKeep
PROPERTIES
  
  StreamsGoOn
  WorkEnds
CHECK_DEADLOCK FALSE
