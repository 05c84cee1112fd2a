SPECIFICATION FairSpec
CONSTANTS
  Ports = {"p", "q"}
  Versions <- MCVersions
  Proposals <- MCProposals
  Negotiate <- SharedNegotiate
  MaxChannels <- MCMaxChannels
INVARIANTS TypeOK OpenEndsMatch AnswersArePaired VersionsAgree
PROPERTIES EndsOnlyAdvance TriesComplete ClosePropagates
CHECK_DEADLOCK FALSE
