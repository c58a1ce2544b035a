\* Hashing stops after MaxCalls blocks: the last state has no successor.
CONSTANTS
    Width = 8
    MaxCalls = 2
    Blocks <- MCBlocks
SPECIFICATION Spec
INVARIANT TypeOK
PROPERTY RefinesFips
CHECK_DEADLOCK FALSE
