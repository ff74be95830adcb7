SPECIFICATION Spec
CONSTANTS
  FunctionNode = {p, q, r}
  TokenId = {shape}
  TokenGeneration = {1, 2}
  NodeVersion = {1, 2}
SYMMETRY Symmetry
INVARIANTS
  ValidRestsOnValid
  OnlyPublishedTokenIsValid
