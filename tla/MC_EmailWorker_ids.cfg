CONSTANTS
    i1 = i1
    i2 = i2
    Ids <- MCIds
    InitIds <- MCShutdownInitIds
    IdSets <- MCRemoveIdSets
    MaxReloads = 1
SPECIFICATION Spec
PROPERTY RemovedIdentityStopped
