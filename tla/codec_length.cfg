\* A style with a bright background colour.
SPECIFICATION Spec
CONSTANTS
  MaxParams = 3
  ScreenSize = 3
  Batches <- BrightBackground
  Noise = {}
  MaxNoise = 0
  DeviceAttributes <- Attributes62
  Debug = TRUE
INVARIANT LenIsExact
CHECK_DEADLOCK FALSE
