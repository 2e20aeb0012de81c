CONSTANTS
  Width <- MCWidth
  Lists <- MCLists
  Probes <- MCProbes
SPECIFICATION Spec
INVARIANTS TypeOK SearchCorrect
\* has_address returns (or throws): a call that has ended takes no step.
CHECK_DEADLOCK FALSE
