CONSTANTS
  MaxAttempts <- MCMaxAttempts
  Hinted = {"link_unavailable"}
  MaxRetransmits = 1
  BaseDelay = 1
  MaxDelay = 1
  Floor = 1
  MinAttempt = 1
  Grace = 1
  Timeouts = {1, 2}
  MaxTransmits = 3
  MaxNotices = 7
  MaxIterations = 3
  MaxCalls = 1
  CallTimeout = 0
  TokenBudget = 1
  Timeout = 3
  ChannelTimeout = 2
  TurnTokens = {0, 1}
  MaxEmitted = 2
SPECIFICATION FairSpec
INVARIANTS
  Overshoot
  ToldStopsCalls
PROPERTIES
  AnswersAreWhole
  RelaySpec
  Ends
CHECK_DEADLOCK FALSE
