SPECIFICATION FairSpec
CONSTANTS
    i1 = i1
    b0 = b0
    b1 = b1
    b2 = b2
    hidden = hidden
    Names <- MCNames
    Bodies <- MCBodies
    Blank = b0
    Raw <- MCRaw
    Turn <- MCTurn
    NumberOf <- MCNumberOf
    Parts <- MCParts
    PackPath <- MCPackPath
    Stem <- MCStem
    Hidden <- MCHidden
    Instances = {i1}
    Requests <- FeedRequests
    Seeds <- FeedSeeds
    Prefixes <- FeedPrefixes
    Limit = 2
    MaxLog = 3
    MaxFaults = 1
INVARIANTS
    TypeOK
    RemoteConverges
    ListedReadsBack
PROPERTIES
    EveryChangeSynced
CHECK_DEADLOCK FALSE
