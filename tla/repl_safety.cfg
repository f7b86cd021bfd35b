\* Every key, every command, a self-pipe the signals can fill.
SPECIFICATION FairSpec
CONSTANTS
  Sent = {"INT", "TERM", "HUP", "WINCH"}
  MaxRaised = 2
  PipeCap = 2
  DrainCap = 2
  Keys <- EveryKey
  MaxKeys = 3
  ReadCap = 2
  Commands <- AnyCommand
  UserModes = {"cooked", "altered"}
INVARIANTS
  TypeOK
  TerminalHandedBack
  NeverBlocksInRead
  KeysInOrder
PROPERTIES
  WindowEventuallyCurrent
  ImplementsLease
CHECK_DEADLOCK FALSE
