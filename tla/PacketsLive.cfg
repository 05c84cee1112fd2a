SPECIFICATION FairSpec
CONSTANTS
  Ordering = "ORDERED"
  Timeouts <- LiveTimeouts
  Senders = {"B"}
  TimeSteps <- UnitSteps
  Fallible = {}
  Replies = {"result"}
  MaxSequence = 2
  MaxHeight <- LiveMaxHeight
  ExtraBlocks = 6
PROPERTY EveryPacketResolves
CHECK_DEADLOCK FALSE
