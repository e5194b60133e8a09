SPECIFICATION Spec
CONSTANTS
    b0 = b0
    b1 = b1
    b2 = b2
    b3 = b3
    bad = bad
    Names <- MCNames
    Bodies <- MCBodies
    Blank = b0
    Raw <- MCRaw
    Turn <- MCTurn
    NumberOf <- MCNumberOf
    Parts <- MCParts
    PackPath <- MCPackPath
    Stem <- MCStem
    Hidden = {}
    Processes = {"a"}
    WalkOrder <- MCWalkOrder
    Trees <- ReimportTrees
    Requests <- SessionRequests
    SlugPath <- MCSlugPath
    Kept <- MCKept
    Awkward <- MCAwkward
    Faults = {}
    MaxStarts = 2
    MaxVersion = 1
PROPERTIES
    SkipsIfTablesHaveData
CHECK_DEADLOCK FALSE
