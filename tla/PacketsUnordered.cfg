SPECIFICATION Spec
CONSTANTS
  Ordering = "UNORDERED"
  Timeouts <- MCTimeouts
  Senders = {"A"}
  TimeSteps <- MCTimeSteps
  Fallible = {"A", "B"}
  Replies = {"result", "error", "async"}
  MaxSequence = 1
  MaxHeight <- MCMaxHeight
  ExtraBlocks = 0
INVARIANTS TypeOK NoDeliveryAndRefund OneOutcomePerPacket ConfirmedWasApplied
PROPERTIES ImplementsDelivery RefusedStaysUseless
CHECK_DEADLOCK FALSE
