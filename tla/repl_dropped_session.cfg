\* The loop fails with an I/O error and the session is dropped in raw mode.
SPECIFICATION Spec
CONSTANTS
  Sent = {}
  MaxRaised = 0
  PipeCap = 3
  DrainCap = 2
  Keys = {"char"}
  MaxKeys = 1
  ReadCap = 2
  Commands <- StrictCommands
  UserModes = {"cooked"}
INVARIANTS
  SessionDropRestoresTerminal
CHECK_DEADLOCK FALSE
