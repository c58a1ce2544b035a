\* Two names, three blocks, MAX_FILES 2: holes, a full map and a full directory.
CONSTANTS
    n1 = n1
    n2 = n2
    Junk = Junk
    Names <- MCNames
    Sizes <- MCSizes
    NBlocks = 3
    MaxFiles = 2
    NameBytes = 8
SPECIFICATION Spec
INVARIANTS
    TypeOK
    DirectoryTracksFiles
PROPERTY
    AllocIsFirstFit
