\* One command, which may be killed.
SPECIFICATION Spec
CONSTANTS
  Hosts = {"oneshot"}
  Shared <- Dirs
  ProcessDir <- Start
  Boxes = {"box"}
  Skeleton <- CaseDirs
  Scripts <- EveryLine
  Statuses = {0, 2}
  MaxScripts = 1
  MaxChanges = 0
INVARIANTS
  OneShotTellsFailure
CHECK_DEADLOCK FALSE
