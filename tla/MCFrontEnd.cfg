CONSTANTS
  IntMax = 15
  ZeroBits = {0, 5}
  Inputs <- Files
  EncodePB <- PBEncoding
  EncodeCardinality <- CardEncoding
  EncodeAMO <- Ladder
SPECIFICATION NetSpec
INVARIANTS ParsedExactly ConstraintsKept NothingExcluded ObjectivesKept StopsJustified OutputsSorted NetworksExtend
CHECK_DEADLOCK FALSE
