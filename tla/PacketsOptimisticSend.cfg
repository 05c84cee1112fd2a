SPECIFICATION FairSpec
CONSTANTS
  Ordering = "UNORDERED"
  Timeouts <- LiveTimeouts
  Senders = {"B"}
  TimeSteps <- UnitSteps
  Fallible = {}
  Replies = {"result"}
  MaxSequence = 1
  MaxHeight <- LiveMaxHeight
  ExtraBlocks = 6
PROPERTY ExpiredPacketTimesOut
CHECK_DEADLOCK FALSE
