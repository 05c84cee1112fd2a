SPECIFICATION FairSpec
CONSTANTS
  Ends <- MCEnds
  Link <- MCLink
  Users = {"u"}
  Blocked = {"m"}
  Natives <- MCNatives
  Amounts = {1}
  Receivers <- MCReceivers
  Governed = {"B"}
  MaxHops = 2
  MaxSequence = 1
INVARIANTS TypeOK EscrowBalance ValueConserved VouchersHaveTraces
PROPERTY TransfersComplete
CHECK_DEADLOCK FALSE
