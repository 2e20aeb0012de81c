CONSTANTS
  Inputs <- MCInputs
SPECIFICATION Spec
PROPERTY ExhaustedReadFails
