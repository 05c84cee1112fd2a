SPECIFICATION Spec
CONSTANTS
  Controllers = {"A", "X"}
  Foreign = {"X"}
  Connections <- MCConnections
  Owners = {"o"}
  Txs <- MCTxs
  Preexisting <- MCPreexisting
  Governed = {"host"}
  MaxChannels <- MCMaxChannels
  MaxPackets <- MCMaxPackets
  MaxSequence = 2
INVARIANTS AccountsHaveOneOwner TransactionsAreAtomic ActiveChannelsWork
CHECK_DEADLOCK FALSE
