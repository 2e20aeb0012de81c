CONSTANTS
  Inputs <- MCInputs
SPECIFICATION Spec
INVARIANT TypeOK
PROPERTIES FamilyAllOrNothing FormatRoundTrip
