CONSTANTS
    MaxMsg <- MCMaxMsg
    Chunks <- MCChunks
    HashLens <- MCHashLens
    ReuseWithoutInit = FALSE
SPECIFICATION Spec
INVARIANTS
    TypeOK
    StreamConsistent
    DigestCorrect
    HashCorrect
VIEW View
