SPECIFICATION Spec
CONSTANTS
  Host = "host"
  Gateway = "gw"
  Locals = {"gw", "a", "b"}
  Remotes = {"r"}
  PingTarget = "r"
  Movers = {"a"}
  Pingers = {"r"}
  Openers = {"a"}
  ArpSize = 2
  QueueLen = 2
  MaxFailed = 1
  PingTries = 2
INVARIANT SynSentInSynRcvd
CHECK_DEADLOCK FALSE
