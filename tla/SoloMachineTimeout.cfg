SPECIFICATION Spec
CONSTANTS
  Clients = {"k"}
  Start <- MCStart
  Messages <- MCTimeoutMessages
  Headers <- MCHeaders
  Faulty = {}
  AllowUpdateAfterProposal = {}
  Times <- MCTimes
  MaxSequence <- MCMaxSequence
INVARIANT TimeoutsCanBeProved
CHECK_DEADLOCK FALSE
