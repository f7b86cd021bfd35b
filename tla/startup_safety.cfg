\* Signals at every point of the installation, into a pipe they can fill.
SPECIFICATION Spec
CONSTANTS
  Sent = {"INT", "TERM", "WINCH", "ALRM", "CHLD"}
  MaxRaised = 4
  PipeCap = 3
  DrainCap = 2
  Programs <- BothPrograms
  MayFail <- AnyFailure
INVARIANTS
  TypeOK
  SignalsAccounted
  InterruptIsFlagged
  ResizeNotMissed
CHECK_DEADLOCK FALSE
