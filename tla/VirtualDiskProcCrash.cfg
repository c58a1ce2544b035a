\* Commands one after another, but any may be killed between two of its
\* writes: the Directory and the BlockMap written so far disagree.
CONSTANTS
    p1 = p1
    p2 = p2
    n1 = n1
    n2 = n2
    Junk = Junk
    Procs <- MCProcs
    Names <- MCNames
    Sizes <- MCSizes
    NBlocks = 2
    MaxFiles = 2
    NameBytes = 8
    Overlap = FALSE
SPECIFICATION SpecWithCrash
INVARIANT
    NoSharedBlocks
