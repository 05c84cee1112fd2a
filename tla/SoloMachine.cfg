SPECIFICATION Spec
CONSTANTS
  Clients = {"k", "j", "m"}
  Start <- MCStart
  Messages <- MCMessages
  Headers <- MCHeaders
  Faulty = {"m"}
  AllowUpdateAfterProposal = {"m"}
  Times <- MCTimes
  MaxSequence <- MCMaxSequence
INVARIANTS FrozenForFault AppliedInOrder
CHECK_DEADLOCK FALSE
