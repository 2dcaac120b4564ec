SPECIFICATION Spec
CONSTANTS
  Hosts = {"h1", "h2"}
  TlsHosts = {}
  Replies = {"normal"}
  MaxCalls = 2
  MaxOpens = 2
CHECK_DEADLOCK FALSE
INVARIANT RequestReachesItsURL
