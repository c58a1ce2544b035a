\* A file of exactly 512 bytes marks two blocks; its delete frees a neighbour's block.
CONSTANTS
    n1 = n1
    n2 = n2
    Junk = Junk
    Names <- MCNames
    Sizes <- MCSizesBlock
    NBlocks = 4
    MaxFiles = 3
    NameBytes = 8
SPECIFICATION Spec
PROPERTY
    LiveBlocksReserved
