SPECIFICATION FairSpec
CONSTANT MaxPieces = 4
INVARIANT AlwaysBootable
PROPERTIES
    ImplementsUpdate
    UploadEnds
