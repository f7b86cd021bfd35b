\* Every host; scripts of up to three lines; directories come and go.
SPECIFICATION Spec
CONSTANTS
  Hosts = {"repl", "harness", "embedder", "oneshot"}
  Shared <- Dirs
  ProcessDir <- Start
  Boxes = {"box"}
  Skeleton <- CaseDirs
  Scripts <- Texts
  Statuses = {0, 2}
  MaxScripts = 2
  MaxChanges = 2
INVARIANTS
  TypeOK
  StatusIsLastLine
  RunsWhereCdSaid
  NoHiddenFallback
  CaseMeansItsScript
  ExitLeavesShell
CHECK_DEADLOCK FALSE
