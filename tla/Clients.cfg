\* Up to two sessions of at most two calls, of the caller and of get and post.
SPECIFICATION FairSpec
CONSTANTS
  Hosts = {"a", "b", "tls", "strict"}
  TlsHosts = {"tls", "strict"}
  CertHosts = {"strict"}
  Replies = {"normal"}
  Calls <- MCCalls
  Disk <- MCDisk
  Signer <- MCSigner
  MaxCalls = 2
  MaxOpens = 2
  MaxSessions = 2
CHECK_DEADLOCK FALSE
INVARIANTS TypeOK PeerIsNamed FunctionsAreAlone WholeResultsOutliveSessions VerifiedByFile CompositionInv
PROPERTY CallsReturn
