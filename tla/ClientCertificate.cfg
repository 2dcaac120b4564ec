SPECIFICATION Spec
CONSTANTS
  Hosts = {"a", "b", "tls", "strict"}
  TlsHosts = {"tls", "strict"}
  CertHosts = {"strict"}
  Replies = {"normal"}
  Calls <- MCCalls
  Disk <- MCDisk
  Signer <- MCSigner
  MaxCalls = 1
  MaxOpens = 2
  MaxSessions = 1
CHECK_DEADLOCK FALSE
INVARIANT CertificateIsPresented
