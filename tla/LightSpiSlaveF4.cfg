\* The STM32F4's single data register, whose overrun status goes with any read of it.
CONSTANTS
  Ports = {"f4"}
  Depth <- MCDepth
  Threshold <- MCThreshold
  BufferSizes = {4}
  MaxRead = 2
  MaxBytes = 4
SPECIFICATION RxSpec
INVARIANT NoSilentLoss
CHECK_DEADLOCK FALSE
