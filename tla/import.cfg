SPECIFICATION FairSpec
CONSTANTS
    b0 = b0
    b1 = b1
    b2 = b2
    b3 = b3
    bad = bad
    Names <- MCNames
    Bodies <- MCBodies
    Blank = b0
    Raw <- MCRaw
    Turn <- MCTurn
    NumberOf <- MCNumberOf
    Parts <- MCParts
    PackPath <- MCPackPath
    Stem <- MCStem
    Hidden = {}
    Processes = {"a", "b"}
    WalkOrder <- MCWalkOrder
    Trees <- MCTrees
    Requests <- ImportRequests
    SlugPath <- MCSlugPath
    Kept <- MCKept
    Awkward <- MCAwkward
    Faults = {"guard", "commit", "export"}
    MaxStarts = 2
    MaxVersion = 1
INVARIANTS
    TypeOK
    ForeignKeysHold
    ChildrenRoundTrip
PROPERTIES
    ImportKeepsRows
    OnlyOrphansSkipped
    EveryStartServes
CHECK_DEADLOCK FALSE
