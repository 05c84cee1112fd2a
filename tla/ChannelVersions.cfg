SPECIFICATION Spec
CONSTANTS
  Ports = {"p", "q"}
  Versions <- MCVersions
  Proposals <- MCProposals
  Negotiate <- OwnNegotiate
  MaxChannels <- MCMaxChannels
INVARIANT VersionsAgree
CHECK_DEADLOCK FALSE
