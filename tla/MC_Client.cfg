\* connect() on every configuration against every reply, twice in a row.
CONSTANTS
  Configs <- MCConfigs
  Replies <- MCReplies
  MaxCalls <- MCMaxCalls
  UIntBits <- MCUIntBits
SPECIFICATION Spec
INVARIANTS BufferHoldsCurrentReply
PROPERTIES AuthenticatedInfo
\* The caller stops calling connect() after MaxCalls calls.
CHECK_DEADLOCK FALSE
