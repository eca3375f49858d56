SPECIFICATION Spec
CONSTANTS
  NewName <- MCNewName
  Names = {"New profile", "New profile - 1", "QuickConnect", "Work"}
  QuickConnect = "QuickConnect"
  Options = {"default", "other"}
  Default = "default"
  Topics = {"a"}
  Top = "top"
  Lost = "lost"
  MaxProfiles = 3
  MaxSteps = 6
INVARIANTS
  OnlyStraysAreFatal
PROPERTIES
  RestartKeepsProfiles
  ExitKeepsTopics
CHECK_DEADLOCK FALSE
