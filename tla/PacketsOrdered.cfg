SPECIFICATION Spec
CONSTANTS
  Ordering = "ORDERED"
  Timeouts <- OrderedTimeouts
  Senders = {"B"}
  TimeSteps <- UnitSteps
  Fallible = {}
  Replies = {"result", "error", "async"}
  MaxSequence = 2
  MaxHeight <- OrderedMaxHeight
  ExtraBlocks = 0
INVARIANTS NoDeliveryAndRefund OneOutcomePerPacket OrderedTimeoutIsFinal
PROPERTIES ClosedIsFinal ImplementsDelivery
CHECK_DEADLOCK FALSE
