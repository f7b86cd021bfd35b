\* SIGTERM behind any other byte of the same read.
SPECIFICATION FairSpec
CONSTANTS
  Sent = {"TERM", "USR1"}
  MaxRaised = 2
  PipeCap = 3
  DrainCap = 2
  Keys = {"enter"}
  MaxKeys = 1
  ReadCap = 2
  Commands <- StrictCommands
  UserModes = {"cooked"}
PROPERTIES
  ShutdownHonoured
CHECK_DEADLOCK FALSE
