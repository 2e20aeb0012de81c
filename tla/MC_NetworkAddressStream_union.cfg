CONSTANTS
  Inputs <- MCInputs
SPECIFICATION Spec
PROPERTY NetAllOrNothing
