SPECIFICATION Spec
CONSTANTS
    Lengths <- FiveLengths
    Blocks <- TwoBlocks
    Errors <- ThreeErrors
    Places <- Edges
INVARIANT TwoErrorsDetected
CHECK_DEADLOCK FALSE
