SPECIFICATION Spec
CONSTANTS
    Lengths <- FiveLengths
    Blocks <- TwoBlocks
    Errors <- ThreeErrors
    Places <- Edges
INVARIANT EccOutcome
CHECK_DEADLOCK FALSE
