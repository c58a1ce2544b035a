\* A file stored by copy_to must be found by copy_from; its data overwrites the Directory.
CONSTANTS
    n1 = n1
    n2 = n2
    Junk = Junk
    Names <- MCNames
    Sizes <- MCSizes
    NBlocks = 3
    MaxFiles = 100
    NameBytes = 8
SPECIFICATION Spec
INVARIANT
    StoredFileFound
