SPECIFICATION Spec
CONSTANTS
    i1 = i1
    w1 = w1
    w2 = w2
    i2 = i2
    b0 = b0
    b1 = b1
    b2 = b2
    Names <- MCNames
    Bodies <- MCBodies
    Blank = b0
    Instances = {i1, i2}
    Workers = {w1, w2}
    InstanceOf <- TwoInstances
    Requests <- CasRequests
    NoRequest = NoRequest
    Seeds <- EmptySeeds
    Slugs = {}
    Faults = {}
    Crashes = FALSE
    MaxVersion = 2
PROPERTIES
    CasCommitsAreExact
