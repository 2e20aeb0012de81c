CONSTANTS
  NBytes <- MCNBytes
  ByteVals <- MCByteVals
  Prefixes <- MCPrefixes
SPECIFICATION Spec
INVARIANTS TypeOK LoopInvariant
PROPERTY ContractRefinement
\* has_address returns: a call that has returned takes no further step.
CHECK_DEADLOCK FALSE
