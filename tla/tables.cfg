SPECIFICATION Spec
CONSTANTS
    i1 = i1
    w1 = w1
    w2 = w2
    i2 = i2
    b0 = b0
    b1 = b1
    b2 = b2
    Names <- MCNames
    Bodies <- MCBodies
    Blank = b0
    Instances = {i1}
    Workers = {w1, w2}
    InstanceOf <- OneInstance
    Requests <- TableRequests
    NoRequest = NoRequest
    Seeds <- EmptySeeds
    Slugs <- MCSlugs
    Faults = {"check", "ensure"}
    Crashes = TRUE
    MaxVersion = 1
INVARIANTS
    ForeignKeysHold
    EffectStands
SYMMETRY WorkerSymmetry
