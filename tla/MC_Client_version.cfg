\* The version numbers read against the texts the server sent.
CONSTANTS
  Configs <- MCConfigs
  Replies <- MCReplies
  MaxCalls <- MCMaxCalls
  UIntBits <- MCUIntBits
SPECIFICATION Spec

PROPERTY VersionIsServerNumber
\* The caller stops calling connect() after MaxCalls calls.
CHECK_DEADLOCK FALSE
