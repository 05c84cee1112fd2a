SPECIFICATION FairSpec
CONSTANTS
  Clients <- MCClients
  Proposals <- MCProposals
  Forgeries <- MCForgeries
  Freezable <- MCFreezable
  MaxConnections <- MCMaxConnections
INVARIANTS TypeOK ClientsAreMutual VersionsNegotiated
PROPERTIES ConnectionsOnlyAdvance TriesComplete
CHECK_DEADLOCK FALSE
