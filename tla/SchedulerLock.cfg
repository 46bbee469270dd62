SPECIFICATION FairLockSpec
CONSTANTS
  Absent = Absent
  Blank = Blank
  SessionIds = {a, b}
  p1 = p1
  p2 = p2
  p3 = p3
  Processes <- MCProcesses
  Unseen <- MCUnseen
  TornWrites = TRUE
  MayStop = TRUE
  MayExit = TRUE
  MaySwitch = TRUE
INVARIANTS
  OneOwnerUntilRecovery
  StoppedLeavesNoLock
PROPERTIES
  SomeoneDrives
CHECK_DEADLOCK FALSE
