\* A server that stops sending during the transfer.
CONSTANTS
  Configs <- MCConfigs
  Replies <- MCRepliesStall
  MaxCalls <- MCMaxCalls
  UIntBits <- MCUIntBits
SPECIFICATION Spec

PROPERTY CallReturns
\* The caller stops calling connect() after MaxCalls calls.
CHECK_DEADLOCK FALSE
