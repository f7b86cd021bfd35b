\* SIGINT without SIGCHLD or SIGALRM: nothing coalesces in front of it but SIGHUP and SIGTERM.
SPECIFICATION FairSpec
CONSTANTS
  Sent = {"INT", "TERM", "HUP"}
  MaxRaised = 3
  PipeCap = 2
  DrainCap = 2
  Keys <- EveryKey
  MaxKeys = 3
  ReadCap = 2
  Commands <- StrictCommands
  UserModes = {"cooked"}
INVARIANTS
  FlagHasWakeup
PROPERTIES
  ShutdownHonouredAlone
  InputNotStarved
  CancelClearedByNextPrompt
CHECK_DEADLOCK FALSE
