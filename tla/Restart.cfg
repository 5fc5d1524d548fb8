CONSTANT MaxServers = 2
SPECIFICATION FairSpec
PROPERTY StartedServerListens
CHECK_DEADLOCK FALSE
