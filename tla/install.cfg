SPECIFICATION Spec
CONSTANTS
    Blocks <- MCBlocks
    MaxWrites = 2
    FactoryAddress <- MCFactoryAddress
INVARIANTS
    CodeInstalled
    CodeAsSet
CHECK_DEADLOCK FALSE
