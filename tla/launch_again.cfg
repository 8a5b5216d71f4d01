SPECIFICATION LaunchFairSpec
CONSTANTS
  Tty = TRUE
  MaxFaults = 0
PROPERTIES EachStartServes
CHECK_DEADLOCK FALSE
