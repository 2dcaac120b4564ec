SPECIFICATION Spec
CONSTANTS
  Hosts = {"h1", "h2"}
  TlsHosts = {"h2"}
  Replies = {"normal", "interim", "big"}
  MaxCalls = 3
  MaxOpens = 3
CHECK_DEADLOCK FALSE
INVARIANTS TypeOK OwnResponse AnsweredOnce OneHost HostInv OneSecureCall PlacesInv PeerInv
PROPERTY InOrder
