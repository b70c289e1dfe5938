\* Every small matrix; the loops run to their end, where the system stops.
SPECIFICATION Spec
CONSTANTS
  Unit <- MCUnit
  Matrices <- MCMatrices
INVARIANTS
  MatchingIsBest
  PricesFeasible
PROPERTY
  Terminates
