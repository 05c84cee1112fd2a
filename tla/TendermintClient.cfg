SPECIFICATION Spec
CONSTANTS
  Clients = {"k", "j"}
  Headers <- MCHeaders
  Trusted <- MCTrusted
  Plans <- MCPlans
  SentinelRoot = "sentinel"
  TrustingPeriod = 5
  MaxClockDrift = 1
  DelayPeriod = 3
  MaxExpectedTimePerBlock = 2
  AllowUpdateAfterExpiry = TRUE
  AllowUpdateAfterMisbehaviour = TRUE
  BlockTimes = {1, 3}
  MaxHeight = 4
INVARIANTS TypeOK TimesIncrease FrozenForCause DelayHasPassed
PROPERTY OnlyTrustedChanges
CHECK_DEADLOCK FALSE
