\* One SIGINT, anywhere, and no system call fails.
SPECIFICATION Spec
CONSTANTS
  Sent = {"INT"}
  MaxRaised = 1
  PipeCap = 2
  DrainCap = 2
  Programs = {"fredshell"}
  MayFail = {}
INVARIANT NoWildStore
CHECK_DEADLOCK FALSE
