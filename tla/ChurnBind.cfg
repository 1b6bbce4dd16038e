SPECIFICATION FairSpec
CONSTANTS
  None = None
  Endpoints <- MCEndpoints
  ProbeLines = {"srflx", "malformed"}
  MaxProbe = 1
  Lines = {"host", "ipv6", "other"}
  MaxLines <- MCMaxLines
  BindResults = {"bound", "code", "rejected"}
  Remapped = {"callee"}
PROPERTIES BindRetried
CHECK_DEADLOCK FALSE
