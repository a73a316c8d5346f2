CONSTANTS
    i1 = i1
    i2 = i2
    Ids <- MCIds
    InitIds <- MCInitIds
    IdSets <- MCIdSets
    MaxReloads = 2
SPECIFICATION Spec
PROPERTY IdentityChecked
PROPERTY StopReturns
