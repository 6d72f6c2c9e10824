SPECIFICATION FairSpec
CONSTANTS
  Words <- MCWords
  PollCounts <- MCPollCounts
CHECK_DEADLOCK FALSE
INVARIANTS
  TypeOK
  SuccessWasRead
PROPERTIES
  CallSpec
  PollEnds
