SPECIFICATION FairSpec
CONSTANTS
  DispatchInvoker = "requester"
  HomeInvoker = "self"
  Kinds = {"detach", "rewrite", "adopt", "requester", "stop"}
  MaxEpisodes = 2
  MaxFaults = 2
INVARIANT NoRepeats
PROPERTIES ReportsThePresent BlockIsTold
CHECK_DEADLOCK FALSE
