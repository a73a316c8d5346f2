CONSTANTS
    k1 = k1
    k2 = k2
    k3 = k3
    Keys <- MCKeys
    Forged <- MCForged
    InitRemote <- MCInitRemote
    InitLocal <- MCInitLocal
    MaxCrashes = 1
    SaveOutcomes = {TRUE}
SPECIFICATION Spec
PROPERTY LocalMailDelivered
